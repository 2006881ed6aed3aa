-------------------------- MODULE ContentRefs_proofs --------------------------
(***************************************************************************)
(* No content is counted less often than files refer to it, for any set of *)
(* paths, contents and callers, and any limits and failures, as long as    *)
(* nothing was released by the bin or undone after its row was written.    *)
(* And: calls one after the other, none of which fails or is undone, leave *)
(* every count, every shared object and the quota exactly right.  And: a   *)
(* pass of the reconciler that nobody disturbs puts everything in order.   *)
(***************************************************************************)
EXTENDS ContentRefs, FiniteSetTheorems, TLAPS

-----------------------------------------------------------------------------
(* The inductive invariant.                                                  *)

UploadPc   == {"claim", "put", "record", "bump", "unbump", "release", "erase", "unput"}
BackfillPc == {"bclaim", "bmove", "bdrop", "blink"}
SweepPc    == {"sweep", "drelease", "derase", "dcontent", "drow", "dquota"}
ReconcilePc == {"rlist", "rrefs", "orphan", "missing", "rquota", "rrow"}

\* An upload has one file in hand, at its own key or at that of its content; a
\* backfill has read the content it is about to claim.
HandOK(c) ==
  /\ call[c].pc \in UploadPc =>
       \E a \in Seen : /\ call[c].hand = {a}
                       /\ call[c].body \in Content
                       /\ a.key \in {OwnKey(a.path), SharedKey(call[c].body)}
  /\ call[c].pc \in {"claim", "release"} =>
       \A a \in call[c].hand : a.key = SharedKey(call[c].body)
  /\ call[c].pc \in BackfillPc => call[c].body \in Content
HandsOK == \A c \in Caller : HandOK(c)

\* The row of a content goes only in a sweep that has released it.
SweepKnown(c) ==
  /\ call[c].pc = "dcontent" => "sweep" \in happened
  /\ call[c].pc = "derase" =>
       \A a \in call[c].hand : a.key \in Shared => "sweep" \in happened
SweepsKnown == \A c \in Caller : SweepKnown(c)

\* Callers that have claimed a content for a row that does not refer to it yet, or
\* never will.
Claims(c, k) ==
  /\ call[c].body = k
  /\ \/ call[c].pc \in {"bmove", "bdrop", "blink"}
     \/ /\ call[c].pc \in {"put", "record", "release"}
        /\ \A a \in call[c].hand : a.key \in Shared
Claimants(k) == {c \in Caller : Claims(c, k)}

Quiet == happened \cap {"sweep", "uncounted"} = {}

\* Every count covers the rows that refer and the claims that are held.
ClaimsCover ==
  Quiet => \A k \in Content : Cardinality(Referring(k)) + Cardinality(Claimants(k)) <= refs[k]

IInv == TypeOK /\ HandsOK /\ SweepsKnown /\ ClaimsCover

-----------------------------------------------------------------------------
(* What one step may do to the two sets that a count covers.                 *)

\* Fewer rows and fewer claims are still covered.
LEMMA FewerCovered ==
  ASSUME NEW R, IsFiniteSet(R), NEW C, IsFiniteSet(C), NEW R2 \in SUBSET R, NEW C2 \in SUBSET C,
         NEW n \in Nat, Cardinality(R) + Cardinality(C) <= n
  PROVE  Cardinality(R2) + Cardinality(C2) <= n
BY FS_Subset, FS_CardinalityType

\* One more claim is covered by one more count.
LEMMA ClaimCovered ==
  ASSUME NEW R, IsFiniteSet(R), NEW C, IsFiniteSet(C), NEW c,
         NEW R2 \in SUBSET R, NEW C2 \in SUBSET (C \cup {c}),
         NEW n \in Nat, Cardinality(R) + Cardinality(C) <= n
  PROVE  Cardinality(R2) + Cardinality(C2) <= n + 1
<1>0. Cardinality(C) \in Nat /\ Cardinality(R) \in Nat
  BY FS_CardinalityType
<1>1. IsFiniteSet(C \cup {c}) /\ Cardinality(C \cup {c}) \in {Cardinality(C), Cardinality(C) + 1}
  BY FS_AddElement
<1>2. Cardinality(R) + Cardinality(C \cup {c}) <= n + 1
  BY <1>0, <1>1
<1> QED BY <1>1, <1>2, FewerCovered

\* A claim that becomes a row is covered by the same count.
LEMMA RowCovered ==
  ASSUME NEW R, IsFiniteSet(R), NEW C, IsFiniteSet(C), NEW c \in C, NEW p,
         NEW R2 \in SUBSET (R \cup {p}), NEW C2 \in SUBSET (C \ {c}),
         NEW n \in Nat, Cardinality(R) + Cardinality(C) <= n
  PROVE  Cardinality(R2) + Cardinality(C2) <= n
<1>0. Cardinality(C) \in Nat /\ Cardinality(R) \in Nat
  BY FS_CardinalityType
<1>1. IsFiniteSet(R \cup {p}) /\ Cardinality(R \cup {p}) \in {Cardinality(R), Cardinality(R) + 1}
  BY FS_AddElement
<1>2. IsFiniteSet(C \ {c}) /\ Cardinality(C \ {c}) = Cardinality(C) - 1
  BY FS_RemoveElement
<1>3. Cardinality(R \cup {p}) + Cardinality(C \ {c}) <= n
  BY <1>0, <1>1, <1>2
<1> QED BY <1>1, <1>2, <1>3, FewerCovered

\* A claim that is given back takes its count along.
LEMMA ReleaseCovered ==
  ASSUME NEW R, IsFiniteSet(R), NEW C, IsFiniteSet(C), NEW c \in C,
         NEW R2 \in SUBSET R, NEW C2 \in SUBSET (C \ {c}),
         NEW n \in Nat, Cardinality(R) + Cardinality(C) <= n
  PROVE  n > 0 /\ Cardinality(R2) + Cardinality(C2) <= n - 1
<1>1. IsFiniteSet(C \ {c}) /\ Cardinality(C \ {c}) = Cardinality(C) - 1
  BY FS_RemoveElement
<1>2. Cardinality(C) > 0
  BY FS_EmptySet, FS_CardinalityType
<1>3. n - 1 \in Nat /\ Cardinality(R) + Cardinality(C \ {c}) <= n - 1
  BY <1>1, <1>2, FS_CardinalityType
<1> QED BY <1>1, <1>3, FewerCovered

LEMMA FiniteSides ==
  ASSUME NEW k
  PROVE  IsFiniteSet(Referring(k)) /\ IsFiniteSet(Claimants(k))
BY FS_Subset, StoreAssumption DEF Referring, Claimants

LEMMA Keys ==
  /\ \A p \in Path : OwnKey(p) \in Key /\ OwnKey(p) \notin Shared
  /\ \A k \in Content : SharedKey(k) \in Shared
  /\ Shared \subseteq Key
  /\ \A k, l : SharedKey(k) = SharedKey(l) => k = l
BY DEF Key, Shared, OwnKey, SharedKey

-----------------------------------------------------------------------------
(* Type correctness.                                                          *)

StoreTyped ==
  /\ row \in [Path -> Row]
  /\ refs \in [Content -> Nat]
  /\ obj \in [Key -> Content \cup {None}]
  /\ used \in Nat
  /\ limit \in Limits
  /\ uploads \in 0 .. MaxUploads
CallTyped == call \in [Caller -> Call]
HistoryTyped ==
  /\ faults \in 0 .. MaxFaults
  /\ moved \subseteq Caller \cup {"failure"}
  /\ happened \subseteq {"overlap", "failure", "sweep", "uncounted"}

LEMMA TypeParts == TypeOK <=> StoreTyped /\ CallTyped /\ HistoryTyped
BY DEF TypeOK, StoreTyped, CallTyped, HistoryTyped

LEMMA GotoTyped ==
  ASSUME CallTyped, NEW c \in Caller, NEW pc \in Pc, Goto(c, pc)
  PROVE  CallTyped'
BY DEF CallTyped, Call, Goto

LEMMA SetTyped ==
  ASSUME CallTyped, NEW c \in Caller, NEW x \in Call, call' = [call EXCEPT ![c] = x]
  PROVE  CallTyped'
BY DEF CallTyped

LEMMA IdleTyped == Idle \in Call
BY DEF Idle, Call, Pc

LEMMA ReturnTyped ==
  ASSUME CallTyped, NEW c \in Caller, Return(c)
  PROVE  CallTyped'
BY SetTyped, IdleTyped DEF Return

LEMMA CountTyped ==
  ASSUME refs \in [Content -> Nat], NEW k, Claim(k) \/ Release(k) \/ refs' = [refs EXCEPT ![k] = 0]
  PROVE  refs' \in [Content -> Nat]
<1>1. CASE k \in Content
  BY <1>1 DEF Claim, Release
<1>2. CASE k \notin Content
  <2>1. refs' = refs
    BY <1>2 DEF Claim, Release
  <2> QED BY <2>1
<1> QED BY <1>1, <1>2

LEMMA SeenTyped ==
  ASSUME StoreTyped, NEW p \in Path
  PROVE  AsSeen(p) \in Seen
BY DEF StoreTyped, AsSeen, Seen, Row

LEMMA FailTyped ==
  ASSUME HistoryTyped, Fault
  PROVE  faults' \in 0 .. MaxFaults
BY StoreAssumption DEF HistoryTyped, Fault

LEMMA GoOnTyped ==
  ASSUME HistoryTyped, NEW c \in Caller, GoOn(c) \/ FailOn(c)
  PROVE  HistoryTyped'
BY FailTyped DEF HistoryTyped, GoOn, FailOn, Happens

LEMMA BeginTyped ==
  ASSUME HistoryTyped, CallTyped, NEW c \in Caller, NEW x \in Call, Begin(c, x), faults' = faults
  PROVE  HistoryTyped' /\ CallTyped'
BY SetTyped DEF HistoryTyped, Begin, Happens

LEMMA UploadKeepsTypes ==
  ASSUME TypeOK, HandsOK, NEW c \in Caller, UNCHANGED limit, Upload(c)
  PROVE  TypeOK'
<1> USE TypeParts
<1>1. CASE UploadBegin(c)
  <2>1. StoreTyped'
    BY <1>1, StoreAssumption, Keys DEF StoreTyped, UploadBegin, CallTyped, Call, Seen
  <2>2. CallTyped' /\ HistoryTyped'
    <3>1. PICK p \in Path, k \in Content, x \in Key :
            Begin(c, [Idle EXCEPT !.pc = IF x \in Shared THEN "claim" ELSE "put", !.body = k,
                        !.hand = {[path |-> p, id |-> uploads', key |-> x]}])
      BY <1>1 DEF UploadBegin
    <3>2. [path |-> p, id |-> uploads', key |-> x] \in Seen
      BY <2>1 DEF Seen, StoreTyped
    <3>3. [Idle EXCEPT !.pc = IF x \in Shared THEN "claim" ELSE "put", !.body = k,
             !.hand = {[path |-> p, id |-> uploads', key |-> x]}] \in Call
      BY <3>2 DEF Idle, Call, Pc
    <3> QED BY <1>1, <3>1, <3>3, BeginTyped DEF UploadBegin
  <2> QED BY <2>1, <2>2 DEF TypeOK, StoreTyped, CallTyped, HistoryTyped
<1>2. CASE UploadClaim(c)
  <2>1. StoreTyped'
    BY <1>2, CountTyped DEF StoreTyped, UploadClaim
  <2>2. CallTyped'
    BY <1>2, ReturnTyped, GotoTyped DEF Pc, UploadClaim
  <2>3. HistoryTyped'
    BY <1>2, GoOnTyped DEF UploadClaim
  <2> QED BY <2>1, <2>2, <2>3 DEF TypeOK, StoreTyped, CallTyped, HistoryTyped
<1>3. CASE UploadPut(c)
  <2>1. StoreTyped'
    BY <1>3, StoreAssumption, Keys DEF StoreTyped, UploadPut, CallTyped, Call, Seen,
       HandsOK, HandOK, UploadPc, BackfillPc, At
  <2>2. CallTyped'
    BY <1>3, ReturnTyped, GotoTyped DEF Pc, UploadPut
  <2>3. HistoryTyped'
    BY <1>3, GoOnTyped DEF UploadPut
  <2> QED BY <2>1, <2>2, <2>3 DEF TypeOK, StoreTyped, CallTyped, HistoryTyped
<1>4. CASE UploadRecord(c)
  <2>1. StoreTyped'
    BY <1>4, StoreAssumption, Keys DEF StoreTyped, UploadRecord, CallTyped, Call, Seen, Row
  <2>2. CallTyped'
    BY <1>4, ReturnTyped, GotoTyped DEF Pc, UploadRecord, Undo
  <2>3. HistoryTyped'
    BY <1>4, GoOnTyped DEF UploadRecord
  <2> QED BY <2>1, <2>2, <2>3 DEF TypeOK, StoreTyped, CallTyped, HistoryTyped
<1>5. CASE UploadBump(c)
  <2>1. StoreTyped'
    BY <1>5, StoreAssumption, Keys DEF StoreTyped, UploadBump, Charge, CallTyped, Call, Seen
  <2>2. CallTyped'
    BY <1>5, ReturnTyped, GotoTyped DEF Pc, UploadBump, Undo
  <2>3. HistoryTyped'
    BY <1>5, GoOnTyped, FailTyped DEF UploadBump, HistoryTyped, Happens
  <2> QED BY <2>1, <2>2, <2>3 DEF TypeOK, StoreTyped, CallTyped, HistoryTyped
<1>6. CASE UploadUnbump(c)
  <2>1. StoreTyped'
    BY <1>6, StoreAssumption, Keys DEF StoreTyped, UploadUnbump, Refund, CallTyped, Call, Seen
  <2>2. CallTyped'
    BY <1>6, ReturnTyped, GotoTyped DEF Pc, UploadUnbump, Undo
  <2>3. HistoryTyped'
    BY <1>6, GoOnTyped, FailTyped DEF UploadUnbump, HistoryTyped, Happens
  <2> QED BY <2>1, <2>2, <2>3 DEF TypeOK, StoreTyped, CallTyped, HistoryTyped
<1>7. CASE UploadRelease(c)
  <2>1. StoreTyped'
    BY <1>7, CountTyped DEF StoreTyped, UploadRelease
  <2>2. CallTyped'
    BY <1>7, ReturnTyped, GotoTyped DEF Pc, UploadRelease
  <2>3. HistoryTyped'
    BY <1>7, GoOnTyped DEF UploadRelease
  <2> QED BY <2>1, <2>2, <2>3 DEF TypeOK, StoreTyped, CallTyped, HistoryTyped
<1>8. CASE UploadErase(c)
  <2>1. StoreTyped'
    BY <1>8, StoreAssumption, Keys DEF StoreTyped, UploadErase, CallTyped, Call, Seen
  <2>2. CallTyped'
    BY <1>8, ReturnTyped, GotoTyped DEF Pc, UploadErase
  <2>3. HistoryTyped'
    BY <1>8, GoOnTyped DEF UploadErase
  <2> QED BY <2>1, <2>2, <2>3 DEF TypeOK, StoreTyped, CallTyped, HistoryTyped
<1> QED BY <1>1, <1>2, <1>3, <1>4, <1>5, <1>6, <1>7, <1>8 DEF Upload

LEMMA RequestKeepsTypes ==
  ASSUME TypeOK, NEW c \in Caller, UNCHANGED limit, Request(c)
  PROVE  TypeOK'
<1> USE TypeParts
<1>1. CASE SoftDelete(c)
  <2>1. StoreTyped'
    BY <1>1, StoreAssumption, Keys DEF StoreTyped, SoftDelete, Row
  <2>2. CallTyped' /\ HistoryTyped'
    BY <1>1, BeginTyped, IdleTyped DEF SoftDelete
  <2> QED BY <2>1, <2>2 DEF TypeOK, StoreTyped, CallTyped, HistoryTyped
<1>2. CASE Restore(c)
  <2>1. StoreTyped'
    BY <1>2, StoreAssumption, Keys DEF StoreTyped, Restore, Row
  <2>2. CallTyped' /\ HistoryTyped'
    BY <1>2, BeginTyped, IdleTyped DEF Restore
  <2> QED BY <2>1, <2>2 DEF TypeOK, StoreTyped, CallTyped, HistoryTyped
<1>3. CASE ApiDelete(c)
  <2>1. StoreTyped'
    BY <1>3, StoreAssumption, Keys DEF StoreTyped, ApiDelete
  <2>2. CallTyped' /\ HistoryTyped'
    BY <1>3, BeginTyped, IdleTyped DEF ApiDelete
  <2> QED BY <2>1, <2>2 DEF TypeOK, StoreTyped, CallTyped, HistoryTyped
<1> QED BY <1>1, <1>2, <1>3 DEF Request

LEMMA SweepKeepsTypes ==
  ASSUME TypeOK, NEW c \in Caller, UNCHANGED limit, Sweep(c)
  PROVE  TypeOK'
<1> USE TypeParts
<1>1. CASE SweepBegin(c)
  <2>1. StoreTyped'
    BY <1>1, StoreAssumption, Keys DEF StoreTyped, SweepBegin
  <2>2. CallTyped' /\ HistoryTyped'
    <3>1. PICK S \in SUBSET Path : Begin(c, [Idle EXCEPT !.pc = "sweep", !.todo = {AsSeen(p) : p \in S}])
      BY <1>1 DEF SweepBegin
    <3>2. {AsSeen(p) : p \in S} \in SUBSET Seen
      BY SeenTyped
    <3>3. [Idle EXCEPT !.pc = "sweep", !.todo = {AsSeen(p) : p \in S}] \in Call
      BY <3>2 DEF Idle, Call, Pc
    <3> QED BY <1>1, <3>1, <3>3, BeginTyped DEF SweepBegin
  <2> QED BY <2>1, <2>2 DEF TypeOK, StoreTyped, CallTyped, HistoryTyped
<1>2. CASE SweepNext(c)
  <2>1. StoreTyped'
    BY <1>2, StoreAssumption, Keys DEF StoreTyped, SweepNext, CallTyped, Call, Seen
  <2>2. CallTyped'
    <3>1. CASE Return(c)
      BY <3>1, ReturnTyped
    <3>2. CASE ~Return(c)
      <4>1. PICK a \in call[c].todo :
              call' = [call EXCEPT ![c].hand = {a}, ![c].todo = @ \ {a},
                        ![c].pc = IF a.key \in Shared THEN "drelease" ELSE "derase"]
        BY <1>2, <3>2 DEF SweepNext
      <4> QED BY <4>1 DEF CallTyped, Call, Pc
    <3> QED BY <3>1, <3>2
  <2>3. HistoryTyped'
    BY <1>2, GoOnTyped DEF SweepNext
  <2> QED BY <2>1, <2>2, <2>3 DEF TypeOK, StoreTyped, CallTyped, HistoryTyped
<1>3. CASE SweepRelease(c)
  <2>1. StoreTyped'
    BY <1>3, CountTyped DEF StoreTyped, SweepRelease
  <2>2. CallTyped'
    BY <1>3, ReturnTyped, GotoTyped DEF Pc, SweepRelease
  <2>3. HistoryTyped'
    BY <1>3, GoOnTyped, FailTyped DEF SweepRelease, HistoryTyped, Happens
  <2> QED BY <2>1, <2>2, <2>3 DEF TypeOK, StoreTyped, CallTyped, HistoryTyped
<1>4. CASE SweepErase(c)
  <2>1. StoreTyped'
    BY <1>4, StoreAssumption, Keys DEF StoreTyped, SweepErase, CallTyped, Call, Seen
  <2>2. CallTyped'
    BY <1>4, ReturnTyped, GotoTyped DEF Pc, SweepErase
  <2>3. HistoryTyped'
    BY <1>4, GoOnTyped DEF SweepErase
  <2> QED BY <2>1, <2>2, <2>3 DEF TypeOK, StoreTyped, CallTyped, HistoryTyped
<1>5. CASE SweepContent(c)
  <2>1. StoreTyped'
    BY <1>5, CountTyped DEF StoreTyped, SweepContent
  <2>2. CallTyped'
    BY <1>5, ReturnTyped, GotoTyped DEF Pc, SweepContent
  <2>3. HistoryTyped'
    BY <1>5, GoOnTyped DEF SweepContent
  <2> QED BY <2>1, <2>2, <2>3 DEF TypeOK, StoreTyped, CallTyped, HistoryTyped
<1>6. CASE SweepRow(c)
  <2>1. StoreTyped'
    BY <1>6, StoreAssumption, Keys DEF StoreTyped, SweepRow, Drop, Exists, NoRow,
       CallTyped, Call, Seen, Row
  <2>2. CallTyped'
    BY <1>6, ReturnTyped, GotoTyped DEF Pc, SweepRow
  <2>3. HistoryTyped'
    BY <1>6, GoOnTyped DEF SweepRow
  <2> QED BY <2>1, <2>2, <2>3 DEF TypeOK, StoreTyped, CallTyped, HistoryTyped
<1>7. CASE SweepQuota(c)
  <2>1. StoreTyped'
    BY <1>7, StoreAssumption, Keys DEF StoreTyped, SweepQuota, Refund
  <2>2. CallTyped'
    BY <1>7, ReturnTyped, GotoTyped DEF Pc, SweepQuota
  <2>3. HistoryTyped'
    BY <1>7, GoOnTyped DEF SweepQuota
  <2> QED BY <2>1, <2>2, <2>3 DEF TypeOK, StoreTyped, CallTyped, HistoryTyped
<1>8. CASE SweepFail(c)
  <2>1. CallTyped' /\ HistoryTyped'
    BY <1>8, GotoTyped, GoOnTyped DEF SweepFail, Pc
  <2> QED BY <1>8, <2>1 DEF TypeOK, CallTyped, HistoryTyped, SweepFail
<1> QED BY <1>1, <1>2, <1>3, <1>4, <1>5, <1>6, <1>7, <1>8 DEF Sweep

LEMMA BackfillKeepsTypes ==
  ASSUME TypeOK, HandsOK, NEW c \in Caller, UNCHANGED limit, Backfill(c)
  PROVE  TypeOK'
<1> USE TypeParts
<1>1. CASE BackfillBegin(c)
  <2>1. StoreTyped'
    BY <1>1, StoreAssumption, Keys DEF StoreTyped, BackfillBegin
  <2>2. CallTyped' /\ HistoryTyped'
    <3>1. PICK S \in SUBSET Path : Begin(c, [Idle EXCEPT !.pc = "backfill", !.todo = {AsSeen(p) : p \in S}])
      BY <1>1 DEF BackfillBegin
    <3>2. {AsSeen(p) : p \in S} \in SUBSET Seen
      BY SeenTyped
    <3>3. [Idle EXCEPT !.pc = "backfill", !.todo = {AsSeen(p) : p \in S}] \in Call
      BY <3>2 DEF Idle, Call, Pc
    <3> QED BY <1>1, <3>1, <3>3, BeginTyped DEF BackfillBegin
  <2> QED BY <2>1, <2>2 DEF TypeOK, StoreTyped, CallTyped, HistoryTyped
<1>2. CASE BackfillNext(c)
  <2>1. StoreTyped'
    BY <1>2, StoreAssumption, Keys DEF StoreTyped, BackfillNext, CallTyped, Call, Seen
  <2>2. CallTyped'
    <3>1. CASE Return(c)
      BY <3>1, ReturnTyped
    <3>2. CASE ~Return(c)
      <4>1. PICK a \in call[c].todo :
              call' = [call EXCEPT ![c].todo = @ \ {a}, ![c].hand = {a}, ![c].body = obj[a.key],
                        ![c].pc = IF obj[a.key] = None THEN "backfill" ELSE "bclaim"]
        BY <1>2, <3>2 DEF BackfillNext
      <4>2. a \in Seen /\ obj[a.key] \in Content \cup {None} /\ call[c].todo \ {a} \in SUBSET Seen
        BY DEF CallTyped, StoreTyped, Call, Seen
      <4>3. [call[c] EXCEPT !.todo = @ \ {a}, !.hand = {a}, !.body = obj[a.key],
               !.pc = IF obj[a.key] = None THEN "backfill" ELSE "bclaim"] \in Call
        BY <4>2 DEF CallTyped, Call, Pc
      <4> QED BY <4>1, <4>3, SetTyped DEF CallTyped
    <3> QED BY <3>1, <3>2
  <2>3. HistoryTyped'
    BY <1>2, GoOnTyped DEF BackfillNext
  <2> QED BY <2>1, <2>2, <2>3 DEF TypeOK, StoreTyped, CallTyped, HistoryTyped
<1>3. CASE BackfillClaim(c)
  <2>1. StoreTyped'
    BY <1>3, CountTyped DEF StoreTyped, BackfillClaim
  <2>2. CallTyped'
    BY <1>3, ReturnTyped, GotoTyped DEF Pc, BackfillClaim
  <2>3. HistoryTyped'
    BY <1>3, GoOnTyped DEF BackfillClaim
  <2> QED BY <2>1, <2>2, <2>3 DEF TypeOK, StoreTyped, CallTyped, HistoryTyped
<1>4. CASE BackfillMove(c)
  <2>1. StoreTyped'
    BY <1>4, StoreAssumption, Keys DEF StoreTyped, BackfillMove, CallTyped, Call, Seen,
       HandsOK, HandOK, UploadPc, BackfillPc, At
  <2>2. CallTyped'
    BY <1>4, ReturnTyped, GotoTyped DEF Pc, BackfillMove
  <2>3. HistoryTyped'
    BY <1>4, GoOnTyped DEF BackfillMove
  <2> QED BY <2>1, <2>2, <2>3 DEF TypeOK, StoreTyped, CallTyped, HistoryTyped
<1>5. CASE BackfillLink(c)
  <2>1. StoreTyped'
    BY <1>5, StoreAssumption, Keys DEF StoreTyped, BackfillLink, Exists, CallTyped, Call,
       Seen, Row, HandsOK, HandOK, UploadPc, BackfillPc, At
  <2>2. CallTyped'
    BY <1>5, ReturnTyped, GotoTyped DEF Pc, BackfillLink
  <2>3. HistoryTyped'
    BY <1>5, GoOnTyped DEF BackfillLink
  <2> QED BY <2>1, <2>2, <2>3 DEF TypeOK, StoreTyped, CallTyped, HistoryTyped
<1>6. CASE BackfillFail(c)
  <2>1. CallTyped' /\ HistoryTyped'
    BY <1>6, GotoTyped, GoOnTyped DEF BackfillFail, Pc
  <2> QED BY <1>6, <2>1 DEF TypeOK, CallTyped, HistoryTyped, BackfillFail
<1> QED BY <1>1, <1>2, <1>3, <1>4, <1>5, <1>6 DEF Backfill

LEMMA ReconcileKeepsTypes ==
  ASSUME TypeOK, NEW c \in Caller, UNCHANGED limit, Reconcile(c)
  PROVE  TypeOK'
<1> USE TypeParts
<1>1. CASE ReconcileBegin(c)
  <2>1. StoreTyped'
    BY <1>1, StoreAssumption, Keys DEF StoreTyped, ReconcileBegin
  <2>2. CallTyped' /\ HistoryTyped'
    <3>1. Begin(c, [Idle EXCEPT !.pc = "rlist", !.todo = {AsSeen(p) : p \in Rows}])
      BY <1>1 DEF ReconcileBegin
    <3>2. {AsSeen(p) : p \in Rows} \in SUBSET Seen
      BY SeenTyped DEF Rows
    <3>3. [Idle EXCEPT !.pc = "rlist", !.todo = {AsSeen(p) : p \in Rows}] \in Call
      BY <3>2 DEF Idle, Call, Pc
    <3> QED BY <1>1, <3>1, <3>3, BeginTyped DEF ReconcileBegin
  <2> QED BY <2>1, <2>2 DEF TypeOK, StoreTyped, CallTyped, HistoryTyped
<1>2. CASE ReconcileList(c)
  <2>1. StoreTyped'
    BY <1>2, StoreAssumption, Keys DEF StoreTyped, ReconcileList
  <2>2. CallTyped'
    <3>1. {x \in Key : obj[x] # None} \in SUBSET Key
      OBVIOUS
    <3>2. [call[c] EXCEPT !.pc = "rrefs", !.keys = {x \in Key : obj[x] # None}] \in Call
      BY <3>1 DEF CallTyped, Call, Pc
    <3> QED BY <1>2, <3>2, SetTyped, GotoTyped DEF CallTyped, ReconcileList, Pc
  <2>3. HistoryTyped'
    BY <1>2, GoOnTyped DEF ReconcileList
  <2> QED BY <2>1, <2>2, <2>3 DEF TypeOK, StoreTyped, CallTyped, HistoryTyped
<1>3. CASE ReconcileRefs(c)
  <2>1. StoreTyped'
    BY <1>3, StoreAssumption, Keys DEF StoreTyped, ReconcileRefs
  <2>2. CallTyped'
    <3>1. PICK K \in SUBSET call[c].keys, T \in SUBSET call[c].todo :
            call' = [call EXCEPT ![c].pc = "orphan", ![c].keys = K, ![c].todo = T]
      <4> DEFINE K0 == {x \in call[c].keys : (\A a \in call[c].todo : a.key # x) /\ ~KeepsReferred(x)}
                 T0 == {a \in call[c].todo : a.key \notin call[c].keys}
      <4>1. K0 \in SUBSET call[c].keys /\ T0 \in SUBSET call[c].todo
        OBVIOUS
      <4>2. call' = [call EXCEPT ![c].pc = "orphan", ![c].keys = K0, ![c].todo = T0]
        BY <1>3 DEF ReconcileRefs
      <4> HIDE DEF K0, T0
      <4> QED BY <4>1, <4>2
    <3>2. [call[c] EXCEPT !.pc = "orphan", !.keys = K, !.todo = T] \in Call
      BY DEF CallTyped, Call, Pc
    <3> QED BY <3>1, <3>2, SetTyped DEF CallTyped
  <2>3. HistoryTyped'
    BY <1>3, GoOnTyped DEF ReconcileRefs
  <2> QED BY <2>1, <2>2, <2>3 DEF TypeOK, StoreTyped, CallTyped, HistoryTyped
<1>4. CASE ReconcileOrphan(c)
  <2>1. StoreTyped'
    BY <1>4, StoreAssumption, Keys DEF StoreTyped, ReconcileOrphan
  <2>2. CallTyped'
    BY <1>4, ReturnTyped, GotoTyped, Keys DEF CallTyped, StoreTyped, Call, Pc, ReconcileOrphan
  <2>3. HistoryTyped'
    BY <1>4, GoOnTyped DEF ReconcileOrphan
  <2> QED BY <2>1, <2>2, <2>3 DEF TypeOK, StoreTyped, CallTyped, HistoryTyped
<1>5. CASE ReconcileMissing(c)
  <2>1. StoreTyped'
    BY <1>5, StoreAssumption, Keys DEF StoreTyped, ReconcileMissing, CallTyped, Call, Seen
  <2>2. CallTyped'
    <3>1. CASE Return(c)
      BY <3>1, ReturnTyped
    <3>2. CASE ~Return(c)
      <4>1. PICK T \in SUBSET call[c].todo, H \in SUBSET call[c].todo, q \in {"rquota", "missing"} :
              call' = [call EXCEPT ![c].todo = T, ![c].hand = H, ![c].pc = q]
        <5>1. PICK x \in {a.key : a \in call[c].todo} :
                call' = [call EXCEPT ![c].todo = @ \ {a \in call[c].todo : a.key = x},
                           ![c].hand = IF obj[x] = None THEN {a \in call[c].todo : a.key = x} ELSE {},
                           ![c].pc = IF obj[x] = None THEN "rquota" ELSE "missing"]
          BY <1>5, <3>2 DEF ReconcileMissing
        <5> DEFINE R0 == {a \in call[c].todo : a.key = x}
        <5>2. R0 \in SUBSET call[c].todo
          OBVIOUS
        <5>3. call' = [call EXCEPT ![c].todo = call[c].todo \ R0,
                         ![c].hand = IF obj[x] = None THEN R0 ELSE {},
                         ![c].pc = IF obj[x] = None THEN "rquota" ELSE "missing"]
          BY <5>1 DEF CallTyped
        <5> HIDE DEF R0
        <5> QED BY <5>2, <5>3
      <4>2. [call[c] EXCEPT !.todo = T, !.hand = H, !.pc = q] \in Call
        BY DEF CallTyped, Call, Pc
      <4> QED BY <4>1, <4>2, SetTyped DEF CallTyped
    <3> QED BY <3>1, <3>2
  <2>3. HistoryTyped'
    BY <1>5, GoOnTyped DEF ReconcileMissing
  <2> QED BY <2>1, <2>2, <2>3 DEF TypeOK, StoreTyped, CallTyped, HistoryTyped
<1>6. CASE ReconcileQuota(c)
  <2>1. StoreTyped'
    BY <1>6, StoreAssumption, Keys DEF StoreTyped, ReconcileQuota, Refund, CallTyped, Call,
       Seen
  <2>2. CallTyped'
    BY <1>6, ReturnTyped, GotoTyped DEF Pc, ReconcileQuota
  <2>3. HistoryTyped'
    BY <1>6, GoOnTyped DEF ReconcileQuota
  <2> QED BY <2>1, <2>2, <2>3 DEF TypeOK, StoreTyped, CallTyped, HistoryTyped
<1>7. CASE ReconcileRow(c)
  <2>1. StoreTyped'
    BY <1>7, StoreAssumption, Keys DEF StoreTyped, ReconcileRow, Drop, Exists, NoRow,
       CallTyped, Call, Seen, Row
  <2>2. CallTyped'
    <3>1. PICK a \in call[c].hand :
            call' = [call EXCEPT ![c].pc = "rquota", ![c].hand = @ \ {a}]
      BY <1>7 DEF ReconcileRow
    <3> QED BY <3>1 DEF CallTyped, Call, Pc
  <2>3. HistoryTyped'
    BY <1>7, GoOnTyped DEF ReconcileRow
  <2> QED BY <2>1, <2>2, <2>3 DEF TypeOK, StoreTyped, CallTyped, HistoryTyped
<1> QED BY <1>1, <1>2, <1>3, <1>4, <1>5, <1>6, <1>7 DEF Reconcile

LEMMA FailKeepsTypes ==
  ASSUME TypeOK, NEW c \in Caller, UNCHANGED limit, Fail(c)
  PROVE  TypeOK'
<1>1. CallTyped' /\ HistoryTyped'
  BY TypeParts, ReturnTyped, GoOnTyped DEF Fail
<1> QED BY <1>1 DEF TypeOK, CallTyped, HistoryTyped, Fail

LEMMA NextKeepsTypes ==
  ASSUME TypeOK, HandsOK, [Next]_vars
  PROVE  TypeOK'
<1>1. CASE UNCHANGED vars
  BY <1>1 DEF vars, TypeOK
<1>2. CASE Next
  BY <1>2, UploadKeepsTypes, RequestKeepsTypes, SweepKeepsTypes, BackfillKeepsTypes,
     ReconcileKeepsTypes, FailKeepsTypes DEF Next
<1> QED BY <1>1, <1>2

-----------------------------------------------------------------------------
(* A step of one caller leaves the others where they are, and forgets nothing. *)

OthersStay(c) ==
  /\ \A d \in Caller \ {c} : call'[d] = call[d]
  /\ happened \subseteq happened'

LEMMA OnlyOneMoves ==
  ASSUME CallTyped, NEW c \in Caller,
         Upload(c) \/ Request(c) \/ Sweep(c) \/ Backfill(c) \/ Reconcile(c) \/ Fail(c)
  PROVE  OthersStay(c)
<1> USE DEF OthersStay, CallTyped
<1>g. ASSUME GoOn(c) \/ FailOn(c) PROVE happened \subseteq happened'
  BY <1>g DEF GoOn, FailOn, Happens
<1>b. ASSUME NEW x, Begin(c, x) PROVE OthersStay(c)
  BY <1>b DEF Begin, Happens
<1>r. ASSUME Return(c) PROVE \A d \in Caller \ {c} : call'[d] = call[d]
  BY <1>r DEF Return
<1>p. ASSUME NEW pc, Goto(c, pc) PROVE \A d \in Caller \ {c} : call'[d] = call[d]
  BY <1>p DEF Goto
<1>1. CASE Upload(c)
  <2>1. CASE UploadBegin(c)
    BY <2>1, <1>b DEF UploadBegin
  <2>2. CASE UploadClaim(c)
    BY <2>2, <1>g, <1>r, <1>p DEF UploadClaim
  <2>3. CASE UploadPut(c)
    BY <2>3, <1>g, <1>r, <1>p DEF UploadPut
  <2>4. CASE UploadRecord(c)
    BY <2>4, <1>g, <1>r, <1>p DEF UploadRecord
  <2>5. CASE UploadBump(c)
    BY <2>5, <1>g, <1>r, <1>p DEF UploadBump, Happens
  <2>6. CASE UploadUnbump(c)
    BY <2>6, <1>g, <1>r, <1>p DEF UploadUnbump, Happens
  <2>7. CASE UploadRelease(c)
    BY <2>7, <1>g, <1>r, <1>p DEF UploadRelease
  <2>8. CASE UploadErase(c)
    BY <2>8, <1>g, <1>r, <1>p DEF UploadErase
  <2> QED BY <1>1, <2>1, <2>2, <2>3, <2>4, <2>5, <2>6, <2>7, <2>8 DEF Upload
<1>2. CASE Request(c)
  <2>1. CASE SoftDelete(c)
    BY <2>1, <1>b DEF SoftDelete
  <2>2. CASE Restore(c)
    BY <2>2, <1>b DEF Restore
  <2>3. CASE ApiDelete(c)
    BY <2>3, <1>b DEF ApiDelete
  <2> QED BY <1>2, <2>1, <2>2, <2>3 DEF Request
<1>3. CASE Sweep(c)
  <2>1. CASE SweepBegin(c)
    BY <2>1, <1>b DEF SweepBegin
  <2>2. CASE SweepNext(c)
    BY <2>2, <1>g, <1>r, <1>p DEF SweepNext
  <2>3. CASE SweepRelease(c)
    BY <2>3, <1>g, <1>r, <1>p DEF SweepRelease, Happens
  <2>4. CASE SweepErase(c)
    BY <2>4, <1>g, <1>r, <1>p DEF SweepErase
  <2>5. CASE SweepContent(c)
    BY <2>5, <1>g, <1>r, <1>p DEF SweepContent
  <2>6. CASE SweepRow(c)
    BY <2>6, <1>g, <1>r, <1>p DEF SweepRow
  <2>7. CASE SweepQuota(c)
    BY <2>7, <1>g, <1>r, <1>p DEF SweepQuota
  <2>8. CASE SweepFail(c)
    BY <2>8, <1>g, <1>p DEF SweepFail
  <2> QED BY <1>3, <2>1, <2>2, <2>3, <2>4, <2>5, <2>6, <2>7, <2>8 DEF Sweep
<1>4. CASE Backfill(c)
  <2>1. CASE BackfillBegin(c)
    BY <2>1, <1>b DEF BackfillBegin
  <2>2. CASE BackfillNext(c)
    BY <2>2, <1>g, <1>r, <1>p DEF BackfillNext
  <2>3. CASE BackfillClaim(c)
    BY <2>3, <1>g, <1>r, <1>p DEF BackfillClaim
  <2>4. CASE BackfillMove(c)
    BY <2>4, <1>g, <1>r, <1>p DEF BackfillMove
  <2>5. CASE BackfillLink(c)
    BY <2>5, <1>g, <1>r, <1>p DEF BackfillLink
  <2>6. CASE BackfillFail(c)
    BY <2>6, <1>g, <1>p DEF BackfillFail
  <2> QED BY <1>4, <2>1, <2>2, <2>3, <2>4, <2>5, <2>6 DEF Backfill
<1>5. CASE Reconcile(c)
  <2>1. CASE ReconcileBegin(c)
    BY <2>1, <1>b DEF ReconcileBegin
  <2>2. CASE ReconcileList(c)
    BY <2>2, <1>g, <1>r, <1>p DEF ReconcileList
  <2>3. CASE ReconcileRefs(c)
    BY <2>3, <1>g, <1>r, <1>p DEF ReconcileRefs
  <2>4. CASE ReconcileOrphan(c)
    BY <2>4, <1>g, <1>r, <1>p DEF ReconcileOrphan
  <2>5. CASE ReconcileMissing(c)
    BY <2>5, <1>g, <1>r, <1>p DEF ReconcileMissing
  <2>6. CASE ReconcileQuota(c)
    BY <2>6, <1>g, <1>r, <1>p DEF ReconcileQuota
  <2>7. CASE ReconcileRow(c)
    BY <2>7, <1>g, <1>r, <1>p DEF ReconcileRow
  <2> QED BY <1>5, <2>1, <2>2, <2>3, <2>4, <2>5, <2>6, <2>7 DEF Reconcile
<1>6. CASE Fail(c)
  BY <1>6, <1>g, <1>r DEF Fail
<1> QED BY <1>1, <1>2, <1>3, <1>4, <1>5, <1>6

-----------------------------------------------------------------------------
(* Where a step leads.                                                       *)

LEMMA GotoPc ==
  ASSUME CallTyped, NEW c \in Caller, NEW pc, Goto(c, pc)
  PROVE  /\ call'[c].pc = pc
         /\ call'[c].hand = call[c].hand
         /\ call'[c].body = call[c].body
BY DEF CallTyped, Call, Goto

LEMMA ReturnPc ==
  ASSUME CallTyped, NEW c \in Caller, Return(c)
  PROVE  call'[c].pc = "idle"
BY DEF CallTyped, Return, Idle

LEMMA BeginPc ==
  ASSUME CallTyped, NEW c \in Caller, NEW x, Begin(c, x)
  PROVE  call'[c] = x
BY DEF CallTyped, Begin

LEMMA UploadBegins ==
  ASSUME TypeOK, NEW c \in Caller, UploadBegin(c)
  PROVE  \E a \in Seen, k \in Content :
           /\ call'[c].hand = {a}
           /\ call'[c].body = k
           /\ \/ call'[c].pc = "put" /\ a.key = OwnKey(a.path) /\ a.key \notin Shared
              \/ call'[c].pc = "claim" /\ a.key = SharedKey(k)
<1>1. PICK p \in Path, k \in Content, x \in Key :
        /\ x \in {OwnKey(p), SharedKey(k)}
        /\ Begin(c, [Idle EXCEPT !.pc = IF x \in Shared THEN "claim" ELSE "put", !.body = k,
                       !.hand = {[path |-> p, id |-> uploads', key |-> x]}])
  BY DEF UploadBegin
<1> DEFINE a == [path |-> p, id |-> uploads', key |-> x]
<1>2. a \in Seen /\ a.path = p /\ a.key = x
  BY Keys, StoreAssumption DEF UploadBegin, TypeOK, Seen
<1> HIDE DEF a
<1>3. call'[c] = [Idle EXCEPT !.pc = IF x \in Shared THEN "claim" ELSE "put", !.body = k, !.hand = {a}]
  BY <1>1, BeginPc, TypeParts DEF a
<1>4. /\ call'[c].pc = IF x \in Shared THEN "claim" ELSE "put"
      /\ call'[c].body = k
      /\ call'[c].hand = {a}
  BY <1>3 DEF Idle
<1>5. CASE x = OwnKey(p)
  BY <1>2, <1>4, <1>5, Keys
<1>6. CASE x = SharedKey(k)
  BY <1>2, <1>4, <1>6, Keys
<1> QED BY <1>1, <1>5, <1>6

LEMMA BackfillGoesOn ==
  ASSUME TypeOK, NEW c \in Caller, BackfillNext(c)
  PROVE  /\ call'[c].pc \in {"idle", "backfill", "bclaim"}
         /\ call'[c].pc = "bclaim" => call'[c].body \in Content
<1>0. CallTyped /\ StoreTyped
  BY TypeParts
<1>1. CASE Return(c)
  BY <1>0, <1>1, ReturnPc
<1>2. CASE ~Return(c)
  <2>1. PICK a \in call[c].todo :
          call' = [call EXCEPT ![c].todo = @ \ {a}, ![c].hand = {a}, ![c].body = obj[a.key],
                     ![c].pc = IF obj[a.key] = None THEN "backfill" ELSE "bclaim"]
    BY <1>2 DEF BackfillNext
  <2>2. obj[a.key] \in Content \cup {None}
    BY <1>0 DEF CallTyped, StoreTyped, Call, Seen
  <2>3. /\ call'[c].body = obj[a.key]
        /\ call'[c].pc = IF obj[a.key] = None THEN "backfill" ELSE "bclaim"
    BY <1>0, <2>1 DEF CallTyped, Call
  <2> QED BY <2>2, <2>3
<1> QED BY <1>1, <1>2

LEMMA SweepGoes ==
  ASSUME CallTyped, NEW c \in Caller, Sweep(c)
  PROVE  /\ call'[c].pc \in SweepPc \cup {"idle"}
         /\ SweepKnown(c) /\ happened \subseteq happened' => SweepKnown(c)'
<1> USE DEF SweepPc, SweepKnown
<1>1. CASE SweepBegin(c)
  <2>1. call'[c].pc = "sweep"
    BY <1>1, BeginPc DEF SweepBegin, Idle
  <2> QED BY <2>1
<1>2. CASE SweepNext(c)
  <2>1. CASE Return(c)
    BY <2>1, ReturnPc
  <2>2. CASE ~Return(c)
    <3>1. PICK a \in call[c].todo :
            call' = [call EXCEPT ![c].hand = {a}, ![c].todo = @ \ {a},
                       ![c].pc = IF a.key \in Shared THEN "drelease" ELSE "derase"]
      BY <1>2, <2>2 DEF SweepNext
    <3>2. /\ call'[c].hand = {a}
          /\ call'[c].pc = IF a.key \in Shared THEN "drelease" ELSE "derase"
      BY <3>1 DEF CallTyped, Call
    <3> QED BY <3>2
  <2> QED BY <2>1, <2>2
<1>3. CASE SweepRelease(c)
  <2>1. call'[c].pc \in {"derase", "drow"}
    BY <1>3, GotoPc DEF SweepRelease
  <2>2. "sweep" \in happened'
    BY <1>3 DEF SweepRelease, Happens
  <2> QED BY <2>1, <2>2
<1>4. CASE SweepErase(c)
  <2>1. PICK a \in call[c].hand :
          Goto(c, IF a.key \in Shared /\ obj[a.key] # None THEN "dcontent" ELSE "drow")
    BY <1>4 DEF SweepErase
  <2>2. \/ call'[c].pc = "dcontent" /\ a.key \in Shared
        \/ call'[c].pc = "drow"
    BY <2>1, GotoPc
  <2> QED BY <1>4, <2>2 DEF SweepErase, At
<1>5. CASE SweepContent(c)
  BY <1>5, GotoPc DEF SweepContent
<1>6. CASE SweepRow(c)
  BY <1>6, GotoPc DEF SweepRow
<1>7. CASE SweepQuota(c)
  BY <1>7, GotoPc DEF SweepQuota
<1>8. CASE SweepFail(c)
  BY <1>8, GotoPc DEF SweepFail
<1> QED BY <1>1, <1>2, <1>3, <1>4, <1>5, <1>6, <1>7, <1>8 DEF Sweep

LEMMA ReconcileGoes ==
  ASSUME CallTyped, NEW c \in Caller, Reconcile(c)
  PROVE  call'[c].pc \in ReconcilePc \cup {"idle"}
<1> USE DEF ReconcilePc
<1>1. CASE ReconcileBegin(c)
  BY <1>1, BeginPc DEF ReconcileBegin, Idle
<1>2. CASE ReconcileList(c)
  BY <1>2, GotoPc DEF ReconcileList, CallTyped, Call
<1>3. CASE ReconcileRefs(c)
  <2>1. PICK K, T : call' = [call EXCEPT ![c].pc = "orphan", ![c].keys = K, ![c].todo = T]
    BY <1>3 DEF ReconcileRefs
  <2> QED BY <2>1 DEF CallTyped, Call
<1>4. CASE ReconcileOrphan(c)
  <2>1. Goto(c, "missing") \/ \E K : call' = [call EXCEPT ![c].keys = K]
    BY <1>4 DEF ReconcileOrphan, CallTyped
  <2>2. ASSUME NEW K, call' = [call EXCEPT ![c].keys = K] PROVE call'[c].pc = "orphan"
    BY <1>4, <2>2 DEF ReconcileOrphan, At, CallTyped, Call
  <2> QED BY <2>1, <2>2, GotoPc
<1>5. CASE ReconcileMissing(c)
  <2>1. CASE Return(c)
    BY <2>1, ReturnPc
  <2>2. CASE ~Return(c)
    <3>1. PICK x, R : call' = [call EXCEPT ![c].todo = @ \ R,
                                 ![c].hand = IF obj[x] = None THEN R ELSE {},
                                 ![c].pc = IF obj[x] = None THEN "rquota" ELSE "missing"]
      BY <1>5, <2>2 DEF ReconcileMissing
    <3> QED BY <3>1 DEF CallTyped, Call
  <2> QED BY <2>1, <2>2
<1>6. CASE ReconcileQuota(c)
  BY <1>6, GotoPc DEF ReconcileQuota
<1>7. CASE ReconcileRow(c)
  BY <1>7 DEF ReconcileRow, CallTyped, Call
<1> QED BY <1>1, <1>2, <1>3, <1>4, <1>5, <1>6, <1>7 DEF Reconcile

LEMMA RequestGoes ==
  ASSUME CallTyped, NEW c \in Caller, Request(c) \/ Fail(c)
  PROVE  call'[c].pc = "idle"
BY BeginPc, ReturnPc DEF Request, SoftDelete, Restore, ApiDelete, Fail, Idle

LEMMA BackfillGoes ==
  ASSUME TypeOK, NEW c \in Caller, Backfill(c)
  PROVE  call'[c].pc \in BackfillPc \cup {"idle", "backfill"}
<1> USE TypeParts DEF BackfillPc
<1>1. CASE BackfillBegin(c)
  BY <1>1, BeginPc DEF BackfillBegin, Idle
<1>2. CASE BackfillNext(c)
  BY <1>2, BackfillGoesOn
<1>3. CASE BackfillClaim(c)
  BY <1>3, GotoPc DEF BackfillClaim
<1>4. CASE BackfillMove(c)
  BY <1>4, GotoPc DEF BackfillMove
<1>5. CASE BackfillLink(c)
  BY <1>5, GotoPc DEF BackfillLink
<1>6. CASE BackfillFail(c)
  BY <1>6, GotoPc DEF BackfillFail
<1> QED BY <1>1, <1>2, <1>3, <1>4, <1>5, <1>6 DEF Backfill

LEMMA UploadGoes ==
  ASSUME TypeOK, NEW c \in Caller, Upload(c)
  PROVE  call'[c].pc \in UploadPc \cup {"idle"}
<1> USE TypeParts, GotoPc, ReturnPc DEF UploadPc, Undo
<1>1. CASE UploadBegin(c)
  BY <1>1, UploadBegins
<1>2. CASE UploadClaim(c)
  BY <1>2 DEF UploadClaim
<1>3. CASE UploadPut(c)
  BY <1>3 DEF UploadPut
<1>4. CASE UploadRecord(c)
  BY <1>4 DEF UploadRecord
<1>5. CASE UploadBump(c)
  BY <1>5 DEF UploadBump
<1>6. CASE UploadUnbump(c)
  BY <1>6 DEF UploadUnbump
<1>7. CASE UploadRelease(c)
  BY <1>7 DEF UploadRelease
<1>8. CASE UploadErase(c)
  BY <1>8 DEF UploadErase
<1> QED BY <1>1, <1>2, <1>3, <1>4, <1>5, <1>6, <1>7, <1>8 DEF Upload

-----------------------------------------------------------------------------
(* What is in hand.                                                          *)

\* A caller that goes to a place outside uploads and backfills has nothing to keep.
LEMMA ElsewhereOK ==
  ASSUME NEW c \in Caller, call'[c].pc \notin UploadPc \cup BackfillPc
  PROVE  HandOK(c)'
BY DEF HandOK, UploadPc, BackfillPc

LEMMA IdleOK ==
  ASSUME CallTyped, NEW c \in Caller, Return(c)
  PROVE  HandOK(c)'
BY ElsewhereOK, ReturnPc DEF UploadPc, BackfillPc

\* An upload or backfill that goes on keeps what it has in hand.
LEMMA GotoOK ==
  ASSUME CallTyped, NEW c \in Caller, HandOK(c), NEW pc \in Pc, Goto(c, pc),
         \/ call[c].pc \in UploadPc /\ pc \in UploadPc
         \/ call[c].pc \in BackfillPc /\ pc \in BackfillPc
         \/ pc \notin UploadPc \cup BackfillPc,
         pc = "claim" => call[c].pc = "claim",
         pc = "release" => \A a \in call[c].hand : a.key \in Shared
  PROVE  HandOK(c)'
<1>2. call'[c].pc = pc /\ call'[c].hand = call[c].hand /\ call'[c].body = call[c].body
  BY GotoPc
<1>3. pc = "release" => \A a \in call[c].hand : a.key = SharedKey(call[c].body)
  <2>1. SUFFICES ASSUME pc = "release" PROVE \A a \in call[c].hand : a.key = SharedKey(call[c].body)
    OBVIOUS
  <2>2. PICK a \in Seen : /\ call[c].hand = {a}
                         /\ a.key \in {OwnKey(a.path), SharedKey(call[c].body)}
    BY <2>1 DEF HandOK, UploadPc, BackfillPc
  <2>3. a.key \in Shared /\ a.path \in Path
    BY <2>1, <2>2 DEF Seen
  <2> QED BY <2>2, <2>3, Keys
<1> QED BY <1>2, <1>3 DEF HandOK, UploadPc, BackfillPc

LEMMA UndoOK ==
  ASSUME CallTyped, NEW c \in Caller, HandOK(c), NEW a \in call[c].hand,
         call[c].pc \in UploadPc, Goto(c, Undo(a))
  PROVE  HandOK(c)'
<1>1. call[c].hand = {a}
  BY DEF HandOK
<1> QED BY <1>1, GotoOK DEF Undo, Pc, UploadPc

LEMMA NextKeepsHands ==
  ASSUME TypeOK, HandsOK, Next
  PROVE  HandsOK'
<1>1. PICK c \in Caller :
        Upload(c) \/ Request(c) \/ Sweep(c) \/ Backfill(c) \/ Reconcile(c) \/ Fail(c)
  BY DEF Next
<1>2. CallTyped /\ OthersStay(c) /\ HandOK(c)
  BY <1>1, TypeParts, OnlyOneMoves DEF HandsOK
<1>3. SUFFICES HandOK(c)'
  BY <1>2 DEF OthersStay, HandsOK, HandOK
<1>4. CASE Upload(c)
  <2>1. CASE UploadBegin(c)
    BY <2>1, UploadBegins DEF HandOK, UploadPc, BackfillPc
  <2>2. CASE UploadClaim(c)
    BY <1>2, <2>2, GotoOK DEF UploadClaim, At, Pc, UploadPc
  <2>3. CASE UploadPut(c)
    <3>1. PICK a \in call[c].hand :
            Goto(c, "record") \/ (a.key \in Shared /\ Goto(c, "release")) \/ Return(c)
      BY <2>3 DEF UploadPut
    <3>2. call[c].hand = {a} /\ call[c].pc = "put"
      BY <1>2, <2>3 DEF UploadPut, At, HandOK, UploadPc
    <3> QED BY <1>2, <3>1, <3>2, GotoOK, IdleOK DEF Pc, UploadPc
  <2>4. CASE UploadRecord(c)
    BY <1>2, <2>4, GotoOK, UndoOK, IdleOK DEF UploadRecord, At, Pc, UploadPc
  <2>5. CASE UploadBump(c)
    BY <1>2, <2>5, GotoOK, UndoOK, IdleOK DEF UploadBump, At, Pc, UploadPc
  <2>6. CASE UploadUnbump(c)
    BY <1>2, <2>6, GotoOK, UndoOK, IdleOK DEF UploadUnbump, At, Pc, UploadPc
  <2>7. CASE UploadRelease(c)
    BY <1>2, <2>7, GotoOK, UndoOK, IdleOK DEF UploadRelease, At, Pc, UploadPc
  <2>8. CASE UploadErase(c)
    BY <1>2, <2>8, GotoOK, UndoOK, IdleOK DEF UploadErase, At, Pc, UploadPc
  <2> QED BY <1>4, <2>1, <2>2, <2>3, <2>4, <2>5, <2>6, <2>7, <2>8 DEF Upload
<1>5. CASE Backfill(c)
  <2>1. CASE BackfillBegin(c)
    BY <1>2, <2>1, BeginPc, ElsewhereOK DEF BackfillBegin, Idle, UploadPc, BackfillPc
  <2>2. CASE BackfillNext(c)
    BY <2>2, BackfillGoesOn DEF HandOK, UploadPc, BackfillPc
  <2>3. CASE BackfillClaim(c)
    BY <1>2, <2>3, GotoOK DEF BackfillClaim, At, Pc, UploadPc, BackfillPc
  <2>4. CASE BackfillMove(c)
    BY <1>2, <2>4, GotoOK DEF BackfillMove, At, Pc, UploadPc, BackfillPc
  <2>5. CASE BackfillLink(c)
    BY <1>2, <2>5, GotoOK DEF BackfillLink, At, Pc, UploadPc, BackfillPc
  <2>6. CASE BackfillFail(c)
    BY <1>2, <2>6, GotoOK DEF BackfillFail, Pc, UploadPc, BackfillPc
  <2> QED BY <1>5, <2>1, <2>2, <2>3, <2>4, <2>5, <2>6 DEF Backfill
<1>6. CASE Request(c) \/ Sweep(c) \/ Reconcile(c) \/ Fail(c)
  <2>1. call'[c].pc \in SweepPc \cup ReconcilePc \cup {"idle"}
    BY <1>2, <1>6, RequestGoes, SweepGoes, ReconcileGoes
  <2> QED BY <2>1, ElsewhereOK DEF SweepPc, ReconcilePc, UploadPc, BackfillPc
<1> QED BY <1>1, <1>4, <1>5, <1>6

LEMMA NextKeepsSweeps ==
  ASSUME TypeOK, SweepsKnown, Next
  PROVE  SweepsKnown'
<1>1. PICK c \in Caller :
        Upload(c) \/ Request(c) \/ Sweep(c) \/ Backfill(c) \/ Reconcile(c) \/ Fail(c)
  BY DEF Next
<1>2. CallTyped /\ OthersStay(c) /\ SweepKnown(c)
  BY <1>1, TypeParts, OnlyOneMoves DEF SweepsKnown
<1>3. SUFFICES SweepKnown(c)'
  BY <1>2 DEF OthersStay, SweepsKnown, SweepKnown
<1>4. CASE Sweep(c)
  BY <1>2, <1>4, SweepGoes DEF OthersStay
<1>5. CASE Upload(c) \/ Request(c) \/ Backfill(c) \/ Reconcile(c) \/ Fail(c)
  <2>1. call'[c].pc \in UploadPc \cup BackfillPc \cup ReconcilePc \cup {"idle", "backfill"}
    BY <1>2, <1>5, UploadGoes, RequestGoes, BackfillGoes, ReconcileGoes
  <2> QED BY <2>1 DEF SweepKnown, UploadPc, BackfillPc, ReconcilePc
<1> QED BY <1>1, <1>4, <1>5

-----------------------------------------------------------------------------
(* Counts.                                                                   *)

LEMMA ClaimantsMove ==
  ASSUME NEW c \in Caller, OthersStay(c), NEW k
  PROVE  /\ Claimants(k)' \subseteq Claimants(k) \cup {c}
         /\ (Claims(c, k)' => Claims(c, k)) => Claimants(k)' \subseteq Claimants(k)
         /\ ~Claims(c, k)' => Claimants(k)' \subseteq Claimants(k) \ {c}
BY DEF Claimants, Claims, OthersStay

LEMMA StillQuiet ==
  ASSUME NEW c \in Caller, OthersStay(c), Quiet'
  PROVE  Quiet
BY DEF OthersStay, Quiet

\* Nothing is counted, no row begins to refer and no claim is made.
LEMMA KeptCover ==
  ASSUME TypeOK, ClaimsCover, NEW c \in Caller, OthersStay(c), refs' = refs,
         \A k \in Content : Referring(k)' \subseteq Referring(k),
         \A k \in Content : Claims(c, k)' => Claims(c, k)
  PROVE  ClaimsCover'
<1> SUFFICES ASSUME Quiet', NEW k \in Content
             PROVE  Cardinality(Referring(k)') + Cardinality(Claimants(k)') <= refs'[k]
  BY DEF ClaimsCover
<1>1. Cardinality(Referring(k)) + Cardinality(Claimants(k)) <= refs[k] /\ refs[k] \in Nat
  BY StillQuiet DEF ClaimsCover, TypeOK
<1>2. Claimants(k)' \in SUBSET Claimants(k) /\ Referring(k)' \in SUBSET Referring(k)
  BY ClaimantsMove
<1> QED BY <1>1, <1>2, FiniteSides, FewerCovered

\* A content is claimed.
LEMMA ClaimCover ==
  ASSUME TypeOK, ClaimsCover, NEW c \in Caller, OthersStay(c), row' = row,
         NEW b \in Content, Claim(b), call'[c].body = b
  PROVE  ClaimsCover'
<1> SUFFICES ASSUME Quiet', NEW k \in Content
             PROVE  Cardinality(Referring(k)') + Cardinality(Claimants(k)') <= refs'[k]
  BY DEF ClaimsCover
<1>1. Cardinality(Referring(k)) + Cardinality(Claimants(k)) <= refs[k] /\ refs[k] \in Nat
  BY StillQuiet DEF ClaimsCover, TypeOK
<1>2. Referring(k)' \in SUBSET Referring(k)
  BY DEF Referring
<1>3. CASE k = b
  <2>1. refs'[k] = refs[k] + 1
    BY <1>3 DEF Claim, TypeOK
  <2>2. Claimants(k)' \in SUBSET (Claimants(k) \cup {c})
    BY ClaimantsMove
  <2>3. Cardinality(Referring(k)') + Cardinality(Claimants(k)') <= refs[k] + 1
    BY <1>1, <1>2, <2>2, FiniteSides, ClaimCovered
  <2> QED BY <2>1, <2>3
<1>4. CASE k # b
  <2>1. refs'[k] = refs[k]
    BY <1>4 DEF Claim, TypeOK
  <2>2. Claimants(k)' \in SUBSET Claimants(k)
    BY <1>4, ClaimantsMove DEF Claims
  <2>3. Cardinality(Referring(k)') + Cardinality(Claimants(k)') <= refs[k]
    BY <1>1, <1>2, <2>2, FiniteSides, FewerCovered
  <2> QED BY <2>1, <2>3
<1> QED BY <1>3, <1>4

\* A row begins to refer to the content that the caller has claimed, and now stops
\* claiming.
LEMMA RowCover ==
  ASSUME TypeOK, ClaimsCover, NEW c \in Caller, OthersStay(c), refs' = refs, NEW p \in Path,
         NEW b \in Content, Claims(c, b),
         \A k \in Content : ~Claims(c, k)',
         \A q \in Path \ {p} : row'[q] = row[q],
         row'[p].status # "absent" => row'[p].key = SharedKey(b)
  PROVE  ClaimsCover'
<1> SUFFICES ASSUME Quiet', NEW k \in Content
             PROVE  Cardinality(Referring(k)') + Cardinality(Claimants(k)') <= refs'[k]
  BY DEF ClaimsCover
<1>1. Cardinality(Referring(k)) + Cardinality(Claimants(k)) <= refs[k] /\ refs[k] \in Nat
  BY StillQuiet DEF ClaimsCover, TypeOK
<1>2. Claimants(k)' \in SUBSET (Claimants(k) \ {c})
  BY ClaimantsMove
<1>3. CASE k = b
  <2>1. Referring(k)' \in SUBSET (Referring(k) \cup {p})
    BY DEF Referring
  <2>2. c \in Claimants(k)
    BY <1>3 DEF Claimants
  <2>3. Cardinality(Referring(k)') + Cardinality(Claimants(k)') <= refs[k]
    BY <1>1, <1>2, <2>1, <2>2, FiniteSides, RowCovered
  <2> QED BY <2>3
<1>4. CASE k # b
  <2>1. Referring(k)' \in SUBSET Referring(k)
    BY <1>4, Keys DEF Referring
  <2>2. Claimants(k)' \in SUBSET Claimants(k)
    BY <1>2
  <2>3. Cardinality(Referring(k)') + Cardinality(Claimants(k)') <= refs[k]
    BY <1>1, <2>1, <2>2, FiniteSides, FewerCovered
  <2> QED BY <2>3
<1> QED BY <1>3, <1>4

\* A claim is given back.
LEMMA ReleaseCover ==
  ASSUME TypeOK, ClaimsCover, NEW c \in Caller, OthersStay(c), row' = row,
         NEW b \in Content, Release(b), Claims(c, b),
         \A k \in Content : ~Claims(c, k)'
  PROVE  ClaimsCover'
<1> SUFFICES ASSUME Quiet', NEW k \in Content
             PROVE  Cardinality(Referring(k)') + Cardinality(Claimants(k)') <= refs'[k]
  BY DEF ClaimsCover
<1>1. Cardinality(Referring(k)) + Cardinality(Claimants(k)) <= refs[k] /\ refs[k] \in Nat
  BY StillQuiet DEF ClaimsCover, TypeOK
<1>2. Claimants(k)' \in SUBSET (Claimants(k) \ {c})
  BY ClaimantsMove
<1>3. Referring(k)' \in SUBSET Referring(k)
  BY DEF Referring
<1>4. CASE k = b
  <2>1. c \in Claimants(k)
    BY <1>4 DEF Claimants
  <2>2. refs[k] > 0 /\ Cardinality(Referring(k)') + Cardinality(Claimants(k)') <= refs[k] - 1
    BY <1>1, <1>2, <1>3, <2>1, FiniteSides, ReleaseCovered
  <2>3. refs'[k] = refs[k] - 1
    BY <1>4, <2>2 DEF Release, TypeOK
  <2> QED BY <2>2, <2>3
<1>5. CASE k # b
  <2>1. refs'[k] = refs[k]
    BY <1>5 DEF Release, TypeOK
  <2>2. Claimants(k)' \in SUBSET Claimants(k)
    BY <1>2
  <2>3. Cardinality(Referring(k)') + Cardinality(Claimants(k)') <= refs[k]
    BY <1>1, <1>3, <2>2, FiniteSides, FewerCovered
  <2> QED BY <2>1, <2>3
<1> QED BY <1>4, <1>5

\* What the bin releases and what is undone are no longer covered, and no longer asked for.
LEMMA NoisyCover ==
  ASSUME happened' \cap {"sweep", "uncounted"} # {}
  PROVE  ClaimsCover'
BY DEF ClaimsCover, Quiet

LEMMA NoClaims ==
  ASSUME NEW c \in Caller, call'[c].pc \notin BackfillPc \ {"bclaim"},
         call'[c].pc \notin {"put", "record", "release"}, NEW k
  PROVE  ~Claims(c, k)'
BY DEF Claims, BackfillPc

LEMMA DropRefers ==
  ASSUME TypeOK, NEW a \in Seen, Drop(a), NEW k
  PROVE  Referring(k)' \subseteq Referring(k)
BY DEF TypeOK, Drop, NoRow, Referring, Seen

LEMMA UploadKeepsCover ==
  ASSUME TypeOK, ClaimsCover, NEW c \in Caller, OthersStay(c), HandOK(c), Upload(c)
  PROVE  ClaimsCover'
<1>0. CallTyped
  BY TypeParts
<1>1. CASE UploadBegin(c)
  <2>1. \A k \in Content : ~Claims(c, k)'
    BY <1>1, UploadBegins DEF Claims
  <2>2. refs' = refs /\ \A k \in Content : Referring(k)' \subseteq Referring(k)
    BY <1>1 DEF UploadBegin, Referring
  <2> QED BY <2>1, <2>2, KeptCover
<1>2. CASE UploadClaim(c)
  <2>1. call[c].body \in Content
    BY <1>2 DEF UploadClaim, At, HandOK, UploadPc
  <2>2. call'[c].body = call[c].body
    BY <1>0, <1>2, GotoPc DEF UploadClaim
  <2> QED BY <1>2, <2>1, <2>2, ClaimCover DEF UploadClaim
<1>3. CASE UploadPut(c)
  <2>1. PICK a \in call[c].hand :
          Goto(c, "record") \/ (a.key \in Shared /\ Goto(c, "release")) \/ Return(c)
    BY <1>3 DEF UploadPut
  <2>2. call[c].hand = {a} /\ call[c].pc = "put"
    BY <1>3 DEF UploadPut, At, HandOK, UploadPc
  <2>3. \A k \in Content : Claims(c, k)' => Claims(c, k)
    BY <1>0, <2>1, <2>2, GotoPc, ReturnPc DEF Claims
  <2>4. refs' = refs /\ \A k \in Content : Referring(k)' \subseteq Referring(k)
    BY <1>3 DEF UploadPut, Referring
  <2> QED BY <2>3, <2>4, KeptCover
<1>4. CASE UploadRecord(c)
  <2>1. PICK a \in call[c].hand :
          \/ /\ row[a.path].status = "absent"
             /\ row' = [row EXCEPT ![a.path] = [id |-> a.id, status |-> "available", key |-> a.key]]
             /\ Goto(c, "bump")
          \/ Goto(c, Undo(a)) /\ row' = row
    BY <1>4 DEF UploadRecord
  <2>2. /\ call[c].hand = {a} /\ call[c].pc = "record"
        /\ a \in Seen /\ a.path \in Path
        /\ call[c].body \in Content /\ a.key \in {OwnKey(a.path), SharedKey(call[c].body)}
    BY <1>4 DEF UploadRecord, At, HandOK, UploadPc, Seen
  <2>3. refs' = refs
    BY <1>4 DEF UploadRecord
  <2>4. CASE Goto(c, Undo(a)) /\ row' = row
    <3>1. \A k \in Content : Claims(c, k)' => Claims(c, k)
      BY <1>0, <2>2, <2>4, GotoPc DEF Claims, Undo
    <3>2. \A k \in Content : Referring(k)' \subseteq Referring(k)
      BY <2>4 DEF Referring
    <3> QED BY <2>3, <3>1, <3>2, KeptCover
  <2>5. CASE /\ row[a.path].status = "absent"
             /\ row' = [row EXCEPT ![a.path] = [id |-> a.id, status |-> "available", key |-> a.key]]
             /\ Goto(c, "bump")
    <3>1. \A k \in Content : ~Claims(c, k)'
      BY <1>0, <2>5, GotoPc, NoClaims DEF BackfillPc
    <3>2. /\ \A q \in Path \ {a.path} : row'[q] = row[q]
          /\ row'[a.path].key = a.key
      BY <2>2, <2>5 DEF TypeOK
    <3>3. CASE a.key = SharedKey(call[c].body)
      <4>1. Claims(c, call[c].body)
        BY <2>2, <3>3, Keys DEF Claims
      <4> QED BY <2>2, <2>3, <3>1, <3>2, <3>3, <4>1, RowCover
    <3>4. CASE a.key = OwnKey(a.path)
      <4>1. \A k \in Content : Referring(k)' \subseteq Referring(k)
        BY <2>2, <3>2, <3>4, Keys DEF Referring
      <4> QED BY <2>3, <3>1, <4>1, KeptCover
    <3> QED BY <2>2, <3>3, <3>4
  <2> QED BY <2>1, <2>4, <2>5
<1>5. CASE UploadBump(c)
  <2>1. PICK a \in call[c].hand :
          \/ Goto(c, "unbump")
          \/ Return(c)
          \/ Goto(c, Undo(a)) /\ "uncounted" \in happened'
    BY <1>5 DEF UploadBump, Happens
  <2>2. refs' = refs /\ \A k \in Content : Referring(k)' \subseteq Referring(k)
    BY <1>5 DEF UploadBump, Referring
  <2>3. CASE Goto(c, "unbump") \/ Return(c)
    <3>1. \A k \in Content : ~Claims(c, k)'
      BY <1>0, <2>3, GotoPc, ReturnPc, NoClaims DEF BackfillPc
    <3> QED BY <2>2, <3>1, KeptCover
  <2> QED BY <2>1, <2>3, NoisyCover
<1>6. CASE UploadUnbump(c)
  BY <1>6, NoisyCover DEF UploadUnbump, Happens
<1>7. CASE UploadRelease(c)
  <2>1. /\ call[c].pc = "release" /\ call[c].body \in Content
        /\ \A a \in call[c].hand : a.key = SharedKey(call[c].body)
    BY <1>7 DEF UploadRelease, At, HandOK, UploadPc
  <2>2. Claims(c, call[c].body)
    BY <2>1, Keys DEF Claims
  <2>3. \A k \in Content : ~Claims(c, k)'
    BY <1>0, <1>7, GotoPc, ReturnPc, NoClaims DEF UploadRelease, BackfillPc
  <2>4. Release(call[c].body) /\ row' = row
    BY <1>7 DEF UploadRelease
  <2> QED BY <2>1, <2>2, <2>3, <2>4, ReleaseCover
<1>8. CASE UploadErase(c)
  <2>1. \A k \in Content : ~Claims(c, k)'
    BY <1>0, <1>8, ReturnPc, NoClaims DEF UploadErase, BackfillPc
  <2>2. refs' = refs /\ \A k \in Content : Referring(k)' \subseteq Referring(k)
    BY <1>8 DEF UploadErase, Referring
  <2> QED BY <2>1, <2>2, KeptCover
<1> QED BY <1>1, <1>2, <1>3, <1>4, <1>5, <1>6, <1>7, <1>8 DEF Upload

LEMMA BackfillKeepsCover ==
  ASSUME TypeOK, ClaimsCover, NEW c \in Caller, OthersStay(c), HandOK(c), Backfill(c)
  PROVE  ClaimsCover'
<1>0. CallTyped
  BY TypeParts
<1>1. CASE BackfillBegin(c) \/ BackfillNext(c)
  <2>1. \A k \in Content : ~Claims(c, k)'
    BY <1>0, <1>1, BeginPc, BackfillGoesOn, NoClaims DEF BackfillBegin, Idle, BackfillPc
  <2>2. refs' = refs /\ \A k \in Content : Referring(k)' \subseteq Referring(k)
    BY <1>1 DEF BackfillBegin, BackfillNext, Referring
  <2> QED BY <2>1, <2>2, KeptCover
<1>2. CASE BackfillClaim(c)
  <2>1. call[c].body \in Content
    BY <1>2 DEF BackfillClaim, At, HandOK, BackfillPc
  <2>2. call'[c].body = call[c].body
    BY <1>0, <1>2, GotoPc DEF BackfillClaim
  <2> QED BY <1>2, <2>1, <2>2, ClaimCover DEF BackfillClaim
<1>3. CASE BackfillMove(c)
  <2>1. \A k \in Content : Claims(c, k)' => Claims(c, k)
    BY <1>0, <1>3, GotoPc DEF BackfillMove, At, Claims
  <2>2. refs' = refs /\ \A k \in Content : Referring(k)' \subseteq Referring(k)
    BY <1>3 DEF BackfillMove, Referring
  <2> QED BY <2>1, <2>2, KeptCover
<1>4. CASE BackfillLink(c)
  <2>1. PICK a \in call[c].hand :
          row' = IF Exists(a) THEN [row EXCEPT ![a.path].key = SharedKey(call[c].body)] ELSE row
    BY <1>4 DEF BackfillLink
  <2>2. a.path \in Path /\ call[c].body \in Content /\ refs' = refs /\ call[c].pc = "blink"
    BY <1>0, <1>4 DEF BackfillLink, At, HandOK, BackfillPc, CallTyped, Call, Seen
  <2>3. \A k \in Content : ~Claims(c, k)'
    BY <1>0, <1>4, GotoPc, NoClaims DEF BackfillLink, BackfillPc
  <2>4. CASE Exists(a)
    <3>1. /\ \A q \in Path \ {a.path} : row'[q] = row[q]
          /\ row'[a.path].key = SharedKey(call[c].body)
      BY <2>1, <2>2, <2>4 DEF TypeOK, Row
    <3>2. Claims(c, call[c].body)
      BY <2>2 DEF Claims
    <3> QED BY <2>2, <2>3, <3>1, <3>2, RowCover
  <2>5. CASE ~Exists(a)
    <3>1. \A k \in Content : Referring(k)' \subseteq Referring(k)
      BY <2>1, <2>5 DEF Referring
    <3> QED BY <2>2, <2>3, <3>1, KeptCover
  <2> QED BY <2>4, <2>5
<1>5. CASE BackfillFail(c)
  <2>1. \A k \in Content : ~Claims(c, k)'
    BY <1>0, <1>5, GotoPc, NoClaims DEF BackfillFail, BackfillPc
  <2>2. refs' = refs /\ \A k \in Content : Referring(k)' \subseteq Referring(k)
    BY <1>5 DEF BackfillFail, Referring
  <2> QED BY <2>1, <2>2, KeptCover
<1> QED BY <1>1, <1>2, <1>3, <1>4, <1>5 DEF Backfill

LEMMA RestKeepsCover ==
  ASSUME TypeOK, ClaimsCover, NEW c \in Caller, OthersStay(c), SweepKnown(c),
         Request(c) \/ Sweep(c) \/ Reconcile(c) \/ Fail(c)
  PROVE  ClaimsCover'
<1>0. CallTyped
  BY TypeParts
<1>1. \A k \in Content : ~Claims(c, k)'
  <2>1. call'[c].pc \in SweepPc \cup ReconcilePc \cup {"idle"}
    BY <1>0, RequestGoes, SweepGoes, ReconcileGoes
  <2> QED BY <2>1, NoClaims DEF SweepPc, ReconcilePc, BackfillPc
<1>2. CASE Request(c)
  <2>1. refs' = refs
    BY <1>2 DEF Request, SoftDelete, Restore, ApiDelete
  <2>2. \A k \in Content : Referring(k)' \subseteq Referring(k)
    <3>1. CASE ApiDelete(c)
      BY <3>1 DEF ApiDelete, Referring
    <3>2. CASE SoftDelete(c) \/ Restore(c)
      <4>1. PICK p \in Path, t \in {"available", "deleted"} :
              row[p].status # "absent" /\ row' = [row EXCEPT ![p].status = t]
        BY <3>2 DEF SoftDelete, Restore
      <4>2. \A q \in Path : row'[q].status # "absent" => row[q].status # "absent" /\ row'[q].key = row[q].key
        BY <4>1 DEF TypeOK, Row
      <4> QED BY <4>2 DEF Referring
    <3> QED BY <1>2, <3>1, <3>2 DEF Request
  <2> QED BY <1>1, <2>1, <2>2, KeptCover
<1>3. CASE SweepRelease(c)
  BY <1>3, NoisyCover DEF SweepRelease, Happens
<1>4. CASE SweepContent(c)
  <2>1. "sweep" \in happened'
    BY <1>4 DEF SweepContent, At, SweepKnown, OthersStay
  <2> QED BY <2>1, NoisyCover
<1>5. CASE SweepRow(c) \/ ReconcileRow(c)
  <2>1. PICK a \in call[c].hand : Drop(a)
    BY <1>5 DEF SweepRow, ReconcileRow
  <2>2. a \in Seen /\ refs' = refs
    BY <1>0, <1>5 DEF SweepRow, ReconcileRow, CallTyped, Call
  <2> QED BY <1>1, <2>1, <2>2, DropRefers, KeptCover
<1>6. CASE \/ SweepBegin(c) \/ SweepNext(c) \/ SweepErase(c) \/ SweepQuota(c) \/ SweepFail(c)
           \/ ReconcileBegin(c) \/ ReconcileList(c) \/ ReconcileRefs(c) \/ ReconcileOrphan(c)
           \/ ReconcileMissing(c) \/ ReconcileQuota(c) \/ Fail(c)
  <2>1. refs' = refs /\ row' = row
    BY <1>6 DEF SweepBegin, SweepNext, SweepErase, SweepQuota, SweepFail, ReconcileBegin, ReconcileList,
                ReconcileRefs, ReconcileOrphan, ReconcileMissing, ReconcileQuota, Fail
  <2> QED BY <1>1, <2>1, KeptCover DEF Referring
<1> QED BY <1>2, <1>3, <1>4, <1>5, <1>6 DEF Sweep, Reconcile

LEMMA NextKeepsCover ==
  ASSUME TypeOK, HandsOK, SweepsKnown, ClaimsCover, Next
  PROVE  ClaimsCover'
<1>1. PICK c \in Caller :
        Upload(c) \/ Request(c) \/ Sweep(c) \/ Backfill(c) \/ Reconcile(c) \/ Fail(c)
  BY DEF Next
<1>2. OthersStay(c) /\ HandOK(c) /\ SweepKnown(c)
  BY <1>1, TypeParts, OnlyOneMoves DEF HandsOK, SweepsKnown
<1> QED BY <1>1, <1>2, UploadKeepsCover, BackfillKeepsCover, RestKeepsCover

-----------------------------------------------------------------------------
(* Theorems.                                                                 *)

LEMMA InitIInv ==
  ASSUME Init
  PROVE  IInv
<1> USE StoreAssumption
<1>1. TypeOK
  BY Keys, IdleTyped DEF Init, TypeOK, Row, NoRow
<1>2. \A c \in Caller : call[c].pc = "idle"
  BY DEF Init, Idle
<1>3. HandsOK /\ SweepsKnown
  BY <1>2 DEF HandsOK, HandOK, UploadPc, BackfillPc, SweepsKnown, SweepKnown
<1>4. ASSUME NEW k \in Content
      PROVE  Referring(k) = {} /\ Claimants(k) = {} /\ refs[k] = 0
  BY <1>2, <1>4 DEF Init, Referring, Claimants, Claims, NoRow
<1>5. ClaimsCover
  <2> SUFFICES ASSUME NEW k \in Content
               PROVE  Cardinality(Referring(k)) + Cardinality(Claimants(k)) <= refs[k]
    BY DEF ClaimsCover
  <2>1. Cardinality(Referring(k)) = 0 /\ Cardinality(Claimants(k)) = 0 /\ refs[k] = 0
    BY <1>4, FS_EmptySet
  <2> QED BY <2>1
<1> QED BY <1>1, <1>3, <1>5 DEF IInv

LEMMA NextIInv ==
  ASSUME IInv, [Next]_vars
  PROVE  IInv'
<1>1. CASE UNCHANGED vars
  BY <1>1 DEF vars, IInv, TypeOK, HandsOK, HandOK, SweepsKnown, SweepKnown, ClaimsCover, Quiet,
              Referring, Claimants, Claims
<1>2. CASE Next
  BY <1>2, NextKeepsTypes, NextKeepsHands, NextKeepsSweeps, NextKeepsCover DEF IInv
<1> QED BY <1>1, <1>2

LEMMA Invariant == Spec => []IInv
BY InitIInv, NextIInv, PTL DEF Spec

\* Type correctness of rows, counts, objects, quota and calls.
THEOREM StoreTypeCorrect == Spec => []TypeOK
<1>1. IInv => TypeOK
  BY DEF IInv
<1> QED BY <1>1, Invariant, PTL

\* However uploads, backfills, reconcilers and failures interleave, no content is
\* counted less often than files refer to it (dedup_claim before the row,
\* dedup_abort after it has failed), until the bin releases or a recorded upload is
\* undone.
THEOREM CountsAlwaysCover == Spec => []CountsCover
<1>1. IInv => CountsCover
  <2> SUFFICES ASSUME IInv, Quiet, NEW k \in Content
               PROVE  Cardinality(Referring(k)) <= refs[k]
    BY DEF CountsCover, Quiet
  <2>1. Cardinality(Referring(k)) + Cardinality(Claimants(k)) <= refs[k] /\ refs[k] \in Nat
    BY DEF IInv, ClaimsCover, TypeOK
  <2>2. Cardinality(Referring(k)) \in Nat /\ Cardinality(Claimants(k)) \in Nat
    BY FiniteSides, FS_CardinalityType
  <2> QED BY <2>1, <2>2
<1> QED BY <1>1, Invariant, PTL

-----------------------------------------------------------------------------
(* Calls one after the other, none of which failed or was undone: counts,    *)
(* shared objects and the quota, step by step.                               *)

\* A release that has not been followed by the deletion of its row yet.
Drops(c, k) ==
  /\ call[c].pc \in {"derase", "dcontent", "drow"}
  /\ \E a \in call[c].hand : a.key = SharedKey(k)

\* A content is counted for the files that refer to it, a claim that has no row
\* yet and not for a row that is about to go.
Counted(c) ==
  \A k \in Content :
    Cardinality(Referring(k)) = IF Claims(c, k) THEN refs[k] - 1
                                ELSE IF Drops(c, k) THEN refs[k] + 1 ELSE refs[k]

\* The content whose object is about to be written or erased.
Storing(c, k) ==
  \/ call[c].body = k /\ call[c].pc \in {"bmove", "erase"}
  \/ call[c].body = k /\ call[c].pc = "put" /\ \A a \in call[c].hand : a.key \in Shared
  \/ call[c].pc = "derase" /\ \E a \in call[c].hand : a.key = SharedKey(k)

\* A content is stored while it is counted; what is about to be erased is not.
Stored(c) ==
  \A k \in Content :
    /\ ~Storing(c, k) => obj[SharedKey(k)] = IF refs[k] > 0 THEN k ELSE None
    /\ Storing(c, k) /\ call[c].pc \in {"erase", "derase"} => refs[k] = 0

\* The quota is charged after a row is written, given back after one is deleted by
\* the bin and before one is deleted by the reconciler.
Charged(c) ==
  Cardinality(Rows) = IF call[c].pc \in {"bump", "rrow"} THEN used + 1
                      ELSE IF call[c].pc = "dquota" THEN used - 1 ELSE used

\* Rows that a call has listed are still what it has read, and it is at none that
\* is left to do.
Reading == {"sweep", "drelease", "derase", "dcontent", "drow", "dquota",
            "backfill", "bclaim", "bmove", "bdrop", "blink",
            "rlist", "rrefs", "orphan", "missing", "rquota", "rrow"}
Holding == {"drelease", "derase", "dcontent", "drow", "bclaim", "bmove", "bdrop", "blink", "rquota", "rrow"}
Current(S) == \A a \in S : a = AsSeen(a.path) /\ a.path \in Rows

Faithful(c) ==
  /\ call[c].pc \in Reading => Current(call[c].todo)
  /\ call[c].pc \in Holding => Current(call[c].hand) /\ call[c].hand \cap call[c].todo = {}
  /\ call[c].pc \in {"drelease", "derase", "dcontent", "drow"} => \A a, b \in call[c].hand : a = b
  /\ call[c].pc = "dquota" => \A a \in call[c].hand, b \in call[c].todo : a.path # b.path

\* What each step has made sure of.
Sure(c) ==
  /\ call[c].pc = "drelease" => \A a \in call[c].hand : a.key \in Shared
  /\ call[c].pc = "dcontent" => \A a \in call[c].hand : a.key \in Shared /\ obj[a.key] = None /\ refs[a.key[2]] = 0
  /\ call[c].pc \in BackfillPc => \A a, b \in call[c].hand : a = b
  /\ call[c].pc \in BackfillPc => \A a \in call[c].hand : a.key \notin Shared
  /\ call[c].pc = "backfill" => \A a \in call[c].todo : a.key \notin Shared
  /\ call[c].pc \in BackfillPc => \A a \in call[c].todo : a.key \notin Shared
  /\ call[c].pc = "bclaim" \/ call[c].pc = "bmove" => \A a \in call[c].hand : obj[a.key] = call[c].body
  /\ call[c].pc = "bdrop" => refs[call[c].body] > 1
  /\ call[c].pc = "orphan" => \A k \in Content : SharedKey(k) \in call[c].keys => refs[k] = 0
  /\ call[c].pc \in {"rquota", "rrow"} => \A a \in call[c].hand : a.key \notin Shared
  /\ call[c].pc = "erase" => \A a \in call[c].hand : a.key = SharedKey(call[c].body)
  /\ call[c].pc = "unput" => \A a \in call[c].hand : a.key \notin Shared

Good(c) == Counted(c) /\ Stored(c) /\ Charged(c) /\ Faithful(c) /\ Sure(c)

OneBusy == \A c, d \in Caller : At(c, "idle") \/ At(d, "idle") \/ c = d
Others(c) == \A d \in Caller : d # c => At(d, "idle")

Exact ==
  /\ Caller = {} => Init
  /\ Undisturbed => OneBusy /\ \A c \in Caller : Others(c) => Good(c)

-----------------------------------------------------------------------------
(* Rows, and what is made of them.                                           *)

\* A call goes on as it is.
Turned(c, pc) ==
  /\ call'[c].pc = pc /\ call'[c].hand = call[c].hand /\ call'[c].todo = call[c].todo
  /\ call'[c].keys = call[c].keys /\ call'[c].body = call[c].body

LEMMA GotoTurns ==
  ASSUME TypeOK, NEW c \in Caller, NEW pc, Goto(c, pc)
  PROVE  Turned(c, pc)
BY DEF TypeOK, Call, Goto, Turned

LEMMA ReturnTurns ==
  ASSUME TypeOK, NEW c \in Caller, Return(c)
  PROVE  call'[c] = Idle
BY DEF TypeOK, Return

LEMMA RowsKept ==
  ASSUME row' = row
  PROVE  /\ Rows' = Rows
         /\ \A k : Referring(k)' = Referring(k)
         /\ \A p : AsSeen(p)' = AsSeen(p)
BY DEF Rows, Referring, AsSeen

LEMMA RowSet ==
  ASSUME TypeOK, NEW p \in Path, NEW r, row' = [row EXCEPT ![p] = r]
  PROVE  /\ r.status # "absent" => Rows' = Rows \cup {p}
         /\ r.status = "absent" => Rows' = Rows \ {p}
         /\ \A k : r.status # "absent" /\ r.key = SharedKey(k) => Referring(k)' = Referring(k) \cup {p}
         /\ \A k : r.status = "absent" \/ r.key # SharedKey(k) => Referring(k)' = Referring(k) \ {p}
         /\ \A q \in Path \ {p} : AsSeen(q)' = AsSeen(q)
BY DEF TypeOK, Rows, Referring, AsSeen

LEMMA Sizes ==
  /\ IsFiniteSet(Rows) /\ Cardinality(Rows) \in Nat
  /\ \A k : IsFiniteSet(Referring(k)) /\ Cardinality(Referring(k)) \in Nat
  /\ \A k, p : /\ p \in Referring(k) => Cardinality(Referring(k) \ {p}) = Cardinality(Referring(k)) - 1
                                        /\ Cardinality(Referring(k)) > 0
               /\ p \notin Referring(k) => Cardinality(Referring(k) \cup {p}) = Cardinality(Referring(k)) + 1
  /\ \A p : /\ p \in Rows => Cardinality(Rows \ {p}) = Cardinality(Rows) - 1 /\ Cardinality(Rows) > 0
            /\ p \notin Rows => Cardinality(Rows \cup {p}) = Cardinality(Rows) + 1
<1>1. IsFiniteSet(Rows) /\ \A k : IsFiniteSet(Referring(k))
  BY FS_Subset, StoreAssumption DEF Rows, Referring
<1>2. ASSUME NEW S, IsFiniteSet(S)
      PROVE  /\ Cardinality(S) \in Nat
             /\ \A p : /\ p \in S => Cardinality(S \ {p}) = Cardinality(S) - 1 /\ Cardinality(S) > 0
                       /\ p \notin S => Cardinality(S \cup {p}) = Cardinality(S) + 1
  <2>1. Cardinality(S) \in Nat
    BY <1>2, FS_CardinalityType
  <2>2. ASSUME NEW p \in S PROVE Cardinality(S \ {p}) = Cardinality(S) - 1 /\ Cardinality(S) > 0
    BY <1>2, <2>1, FS_RemoveElement, FS_EmptySet
  <2>3. ASSUME NEW p, p \notin S PROVE Cardinality(S \cup {p}) = Cardinality(S) + 1
    BY <1>2, <2>3, FS_AddElement
  <2> QED
    BY <2>1, <2>2, <2>3
<1> QED
  BY <1>1, <1>2

\* A content that is counted right and stored right.
Calm(k) ==
  /\ Cardinality(Referring(k)) = refs[k]
  /\ obj[SharedKey(k)] = IF refs[k] > 0 THEN k ELSE None

\* A call that is about to change no count and no shared object.
Plain(c) == \A k \in Content : ~Claims(c, k) /\ ~Drops(c, k) /\ ~Storing(c, k)

LEMMA PlainCalm ==
  ASSUME NEW c \in Caller, Plain(c)
  PROVE  Counted(c) /\ Stored(c) <=> \A k \in Content : Calm(k)
BY DEF Plain, Counted, Stored, Calm

LEMMA PlainCalmNext ==
  ASSUME NEW c \in Caller, Plain(c)', \A k \in Content : Calm(k)'
  PROVE  Counted(c)' /\ Stored(c)'
BY DEF Plain, Counted, Stored, Calm

PlainPc == {"idle", "claim", "bump", "unbump", "unput", "sweep", "drelease", "dquota", "backfill", "bclaim",
            "rlist", "rrefs", "orphan", "missing", "rquota", "rrow"}

LEMMA PlainPcs ==
  ASSUME NEW c \in Caller
  PROVE  /\ call[c].pc \in PlainPc => Plain(c)
         /\ call'[c].pc \in PlainPc => Plain(c)'
BY DEF PlainPc, Plain, Claims, Drops, Storing

\* A step between plain states that touches no count, no shared object and no
\* shared key of a row.
LEMMA CalmKept ==
  ASSUME NEW c \in Caller, Plain(c), Good(c), refs' = refs,
         \A k \in Content : obj'[SharedKey(k)] = obj[SharedKey(k)] /\ Referring(k)' = Referring(k)
  PROVE  \A k \in Content : Calm(k)'
BY PlainCalm DEF Good, Calm

LEMMA PlainStep ==
  ASSUME NEW c \in Caller, Plain(c), Good(c), refs' = refs, Plain(c)',
         \A k \in Content : obj'[SharedKey(k)] = obj[SharedKey(k)] /\ Referring(k)' = Referring(k)
  PROVE  Counted(c)' /\ Stored(c)'
BY CalmKept, PlainCalmNext

-----------------------------------------------------------------------------
(* Uploads.                                                                  *)

\* Calls that have listed no rows have nothing else to keep.
LEMMA Unlisted ==
  ASSUME NEW c \in Caller, call'[c].pc \in {"idle", "claim", "put", "record", "bump", "unbump", "release"}
  PROVE  Faithful(c)' /\ Sure(c)'
BY DEF Faithful, Sure, Reading, Holding, BackfillPc

LEMMA UploadGood ==
  ASSUME TypeOK, HandsOK, NEW c \in Caller, Good(c), Upload(c), happened' \cap {"failure", "uncounted"} = {}
  PROVE  Good(c)'
<1>0. /\ call \in [Caller -> Call] /\ call[c] \in Call /\ row \in [Path -> Row] /\ refs \in [Content -> Nat]
      /\ obj \in [Key -> Content \cup {None}] /\ used \in Nat /\ HandOK(c)
      /\ Counted(c) /\ Stored(c) /\ Charged(c) /\ Sure(c)
  BY DEF TypeOK, HandsOK, Good
<1>01. ASSUME NEW S, Happens(S) PROVE S \cap {"failure", "uncounted"} = {}
  BY <1>01 DEF Happens
<1>02. /\ \A k \in Content : SharedKey(k) \in Key
       /\ \A p \in Path : \A k \in Content : OwnKey(p) # SharedKey(k)
       /\ \A k, l \in Content : SharedKey(k) = SharedKey(l) => k = l
  BY Keys
<1>03. ASSUME call[c].pc \in UploadPc
       PROVE  \E a \in Seen : /\ call[c].hand = {a} /\ call[c].body \in Content
                              /\ a.key \in {OwnKey(a.path), SharedKey(call[c].body)}
  BY <1>0, <1>03 DEF HandOK
<1>1. CASE UploadBegin(c)
  <2>1. PICK p \in Path, k \in Content, x \in Key :
          /\ x \in {OwnKey(p), SharedKey(k)}
          /\ Begin(c, [Idle EXCEPT !.pc = IF x \in Shared THEN "claim" ELSE "put", !.body = k,
                         !.hand = {[path |-> p, id |-> uploads', key |-> x]}])
    BY <1>1 DEF UploadBegin
  <2>2. /\ call[c].pc = "idle" /\ call'[c].pc = IF x \in Shared THEN "claim" ELSE "put"
        /\ call'[c].hand = {[path |-> p, id |-> uploads', key |-> x]}
    BY <1>0, <2>1 DEF Begin, At, Idle
  <2>3. UNCHANGED <<row, refs, obj, used>>
    BY <1>1 DEF UploadBegin
  <2>4. Plain(c)
    BY <2>2, PlainPcs DEF PlainPc
  <2>5. Plain(c)'
    BY <2>2 DEF Plain, Claims, Drops, Storing
  <2>6. Counted(c)' /\ Stored(c)'
    BY <2>3, <2>4, <2>5, PlainStep, RowsKept
  <2>7. Charged(c)'
    BY <1>0, <2>2, <2>3, RowsKept DEF Charged
  <2> QED
    BY <2>2, <2>6, <2>7, Unlisted DEF Good
<1>2. CASE UploadClaim(c)
  <2>1. call[c].pc = "claim" /\ Turned(c, "put") /\ UNCHANGED <<row, obj, used>> /\ Claim(call[c].body)
    BY <1>2, GotoTurns DEF UploadClaim, At
  <2>2. PICK b \in Content : b = call[c].body /\ \A a \in call[c].hand : a.key = SharedKey(b) /\ a.key \in Shared
    BY <1>0, <1>03, <2>1, Keys DEF HandOK, UploadPc
  <2>3. \A k \in Content : Calm(k)
    BY <1>0, <2>1, PlainPcs, PlainCalm DEF PlainPc
  <2>4. \A k \in Content : refs'[k] = IF k = b THEN refs[k] + 1 ELSE refs[k]
    BY <1>0, <2>1, <2>2 DEF Claim
  <2>5. \A k \in Content : ~Drops(c, k)' /\ (Claims(c, k)' <=> k = b) /\ (Storing(c, k)' <=> k = b)
    BY <2>1, <2>2 DEF Turned, Drops, Claims, Storing
  <2>6. Counted(c)'
    BY <1>0, <2>1, <2>3, <2>4, <2>5, RowsKept DEF Counted, Calm
  <2>7. Stored(c)'
    BY <1>0, <2>1, <2>3, <2>4, <2>5 DEF Stored, Calm, Turned
  <2>8. Charged(c)'
    BY <1>0, <2>1, RowsKept DEF Charged, Turned
  <2> QED
    BY <2>1, <2>6, <2>7, <2>8, Unlisted DEF Good, Turned
<1>3. CASE UploadPut(c)
  <2>0. call[c].pc = "put" /\ UNCHANGED <<row, refs, used>>
    BY <1>3 DEF UploadPut, At
  <2>1. PICK a \in Seen : /\ call[c].hand = {a} /\ call[c].body \in Content
                          /\ a.key \in {OwnKey(a.path), SharedKey(call[c].body)}
    BY <1>03, <2>0 DEF UploadPc
  <2>2. Turned(c, "record") /\ obj' = [obj EXCEPT ![a.key] = call[c].body]
    BY <1>01, <1>3, <2>1, GotoTurns DEF UploadPut, FailOn
  <2>3. a.key \in Key /\ a.path \in Path
    BY DEF Seen
  <2>4. PICK b \in Content : b = call[c].body
    BY <2>1
  <2>5. Charged(c)'
    BY <1>0, <2>0, <2>2, RowsKept DEF Charged, Turned
  <2>6. \A k \in Content : (Claims(c, k)' <=> Claims(c, k)) /\ ~Drops(c, k) /\ ~Drops(c, k)' /\ ~Storing(c, k)'
    BY <2>0, <2>2 DEF Claims, Drops, Storing, Turned
  <2>7. Counted(c)'
    BY <1>0, <2>0, <2>6, RowsKept DEF Counted
  <2>8. CASE a.key = SharedKey(b)
    <3>1. \A k \in Content : (Claims(c, k) <=> k = b) /\ (Storing(c, k) <=> k = b)
      BY <2>0, <2>1, <2>4, <2>8, Keys DEF Claims, Storing
    <3>2. refs[b] > 0
      BY <1>0, <2>6, <3>1, Sizes DEF Counted
    <3>3. Stored(c)'
      BY <1>0, <1>02, <2>0, <2>2, <2>4, <2>6, <2>8, <3>1, <3>2 DEF Stored
    <3> QED
      BY <2>2, <2>5, <2>7, <3>3, Unlisted DEF Good, Turned
  <2>9. CASE a.key = OwnKey(a.path)
    <3>1. \A k \in Content : ~Storing(c, k)
      BY <2>0, <2>1, <2>3, <2>9, Keys DEF Storing
    <3>2. Stored(c)'
      BY <1>0, <1>02, <2>0, <2>2, <2>3, <2>6, <2>9, <3>1 DEF Stored
    <3> QED
      BY <2>2, <2>5, <2>7, <3>2, Unlisted DEF Good, Turned
  <2> QED
    BY <2>1, <2>4, <2>8, <2>9
<1>4. CASE UploadRecord(c)
  <2>0. call[c].pc = "record" /\ UNCHANGED <<refs, obj, used>>
    BY <1>4 DEF UploadRecord, At
  <2>1. PICK a \in Seen : /\ call[c].hand = {a} /\ call[c].body \in Content
                          /\ a.key \in {OwnKey(a.path), SharedKey(call[c].body)}
    BY <1>03, <2>0 DEF UploadPc
  <2>2. a.path \in Path /\ a.key \in Key
    BY DEF Seen
  <2>3. PICK b \in Content : b = call[c].body
    BY <2>1
  <2>4. \A k \in Content : ~Drops(c, k) /\ ~Storing(c, k) /\ (Claims(c, k) <=> k = b /\ a.key \in Shared)
    BY <2>0, <2>1, <2>3 DEF Drops, Storing, Claims
  <2>5. a.key \in Shared <=> a.key = SharedKey(b)
    BY <2>1, <2>2, <2>3, Keys
  <2>6. CASE /\ row[a.path].status = "absent"
             /\ row' = [row EXCEPT ![a.path] = [id |-> a.id, status |-> "available", key |-> a.key]]
             /\ Goto(c, "bump")
    <3>1. Turned(c, "bump")
      BY <2>6, GotoTurns
    <3>2. a.path \notin Rows /\ \A k : a.path \notin Referring(k)
      BY <2>6 DEF Rows, Referring
    <3>3. PICK r : r = [id |-> a.id, status |-> "available", key |-> a.key]
      OBVIOUS
    <3>4. row' = [row EXCEPT ![a.path] = r] /\ r.status # "absent" /\ r.key = a.key
      BY <2>6, <3>3
    <3>5. /\ Rows' = Rows \cup {a.path}
          /\ \A k : r.key = SharedKey(k) => Referring(k)' = Referring(k) \cup {a.path}
          /\ \A k : r.key # SharedKey(k) => Referring(k)' = Referring(k) \ {a.path}
      BY <2>2, <3>4, RowSet
    <3>6. Charged(c)'
      BY <1>0, <2>0, <3>1, <3>2, <3>5, Sizes DEF Charged, Turned
    <3>7. \A k \in Content : Calm(k)'
      <4> TAKE k \in Content
      <4>1. CASE a.key = SharedKey(k)
        <5>1. k = b /\ Claims(c, k)
          BY <1>02, <2>1, <2>2, <2>3, <2>4, <2>5, <4>1
        <5>2. Referring(k)' = Referring(k) \cup {a.path}
          BY <3>4, <3>5, <4>1
        <5>3. Cardinality(Referring(k)) = refs[k] - 1 /\ obj[SharedKey(k)] = IF refs[k] > 0 THEN k ELSE None
          BY <1>0, <2>4, <5>1 DEF Counted, Stored
        <5> QED
          BY <1>0, <2>0, <3>2, <5>2, <5>3, Sizes DEF Calm
      <4>2. CASE a.key # SharedKey(k)
        <5>1. ~Claims(c, k)
          BY <2>4, <2>5, <4>2
        <5>2. Referring(k)' = Referring(k)
          BY <3>2, <3>4, <3>5, <4>2
        <5>3. Calm(k)
          BY <1>0, <2>4, <5>1 DEF Counted, Stored, Calm
        <5> QED
          BY <2>0, <5>2, <5>3 DEF Calm
      <4> QED
        BY <4>1, <4>2
    <3>8. Counted(c)' /\ Stored(c)'
      BY <3>1, <3>7, PlainPcs, PlainCalmNext DEF PlainPc, Turned
    <3> QED
      BY <3>1, <3>6, <3>8, Unlisted DEF Good, Turned
  <2>7. CASE Goto(c, "release") /\ a.key \in Shared /\ UNCHANGED row
    <3>1. Turned(c, "release")
      BY <2>7, GotoTurns
    <3>2. \A k \in Content : ~Drops(c, k)' /\ ~Storing(c, k)' /\ (Claims(c, k)' <=> Claims(c, k))
      BY <2>1, <2>3, <2>4, <2>7, <3>1 DEF Drops, Storing, Claims, Turned
    <3>3. Counted(c)' /\ Stored(c)' /\ Charged(c)'
      BY <1>0, <2>0, <2>4, <2>7, <3>1, <3>2, RowsKept DEF Counted, Stored, Charged, Turned
    <3> QED
      BY <3>1, <3>3, Unlisted DEF Good, Turned
  <2>8. CASE Goto(c, "unput") /\ a.key \notin Shared /\ UNCHANGED row
    <3>1. Turned(c, "unput")
      BY <2>8, GotoTurns
    <3>2. Plain(c)
      BY <2>4, <2>8 DEF Plain
    <3>3. Counted(c)' /\ Stored(c)'
      BY <2>0, <2>8, <3>1, <3>2, PlainPcs, PlainStep, RowsKept DEF PlainPc, Turned
    <3>4. Charged(c)'
      BY <1>0, <2>0, <2>8, <3>1, RowsKept DEF Charged, Turned
    <3>5. Faithful(c)' /\ Sure(c)'
      BY <2>1, <2>8, <3>1 DEF Faithful, Sure, Turned, Reading, Holding, BackfillPc
    <3> QED
      BY <3>3, <3>4, <3>5 DEF Good
  <2> QED
    BY <1>01, <1>4, <2>1, <2>6, <2>7, <2>8 DEF UploadRecord, Undo, FailOn
<1>5. CASE UploadBump(c)
  <2>1. call[c].pc = "bump" /\ UNCHANGED <<row, refs, obj>> /\ used' = used + 1
    BY <1>01, <1>5 DEF UploadBump, At, Charge
  <2>2. Goto(c, "unbump") \/ Return(c)
    BY <1>01, <1>5 DEF UploadBump
  <2>3. call'[c].pc \in {"unbump", "idle"}
    BY <2>2, GotoTurns, ReturnTurns DEF Turned, Idle
  <2>4. Counted(c)' /\ Stored(c)'
    BY <2>1, <2>3, PlainPcs, PlainStep, RowsKept DEF PlainPc
  <2>5. Charged(c)'
    BY <1>0, <2>1, <2>3, RowsKept DEF Charged
  <2> QED
    BY <2>3, <2>4, <2>5, Unlisted DEF Good
<1>6. CASE UploadUnbump(c)
  BY <1>01, <1>6 DEF UploadUnbump
<1>7. CASE UploadRelease(c)
  <2>1. call[c].pc = "release" /\ UNCHANGED <<row, obj, used>> /\ Release(call[c].body)
    BY <1>7 DEF UploadRelease, At
  <2>2. PICK b \in Content : b = call[c].body /\ \A a \in call[c].hand : a.key = SharedKey(b) /\ a.key \in Shared
    BY <1>0, <1>03, <2>1, Keys DEF HandOK, UploadPc
  <2>3. \A k \in Content : ~Drops(c, k) /\ ~Storing(c, k) /\ (Claims(c, k) <=> k = b)
    BY <2>1, <2>2 DEF Drops, Storing, Claims
  <2>4. refs[b] > 0 /\ Cardinality(Referring(b)) = refs[b] - 1 /\ obj[SharedKey(b)] = b
    BY <1>0, <2>3, Sizes DEF Counted, Stored
  <2>5. \A k \in Content : refs'[k] = IF k = b THEN refs[k] - 1 ELSE refs[k]
    BY <1>0, <2>1, <2>2, <2>4 DEF Release
  <2>6. \A k \in Content : k # b => Calm(k)'
    BY <1>0, <2>1, <2>3, <2>5, RowsKept DEF Counted, Stored, Calm
  <2>7. CASE refs'[b] = 0 /\ Goto(c, "erase")
    <3>1. Turned(c, "erase")
      BY <2>7, GotoTurns
    <3>2. \A k \in Content : ~Drops(c, k)' /\ ~Claims(c, k)' /\ (Storing(c, k)' <=> k = b)
      BY <2>2, <3>1 DEF Drops, Claims, Storing, Turned
    <3>3. Counted(c)' /\ Stored(c)'
      BY <1>0, <2>1, <2>4, <2>5, <2>6, <2>7, <3>2, RowsKept DEF Counted, Stored, Calm
    <3>4. Charged(c)'
      BY <1>0, <2>1, <3>1, RowsKept DEF Charged, Turned
    <3>5. Faithful(c)' /\ Sure(c)'
      BY <2>2, <3>1 DEF Faithful, Sure, Turned, Reading, Holding, BackfillPc
    <3> QED
      BY <3>3, <3>4, <3>5 DEF Good
  <2>8. CASE refs'[b] # 0 /\ Return(c)
    <3>1. call'[c].pc = "idle"
      BY <2>8, ReturnTurns DEF Idle
    <3>2. Calm(b)'
      BY <1>0, <2>1, <2>4, <2>5, <2>8, RowsKept DEF Calm
    <3>3. Counted(c)' /\ Stored(c)'
      BY <2>6, <3>1, <3>2, PlainPcs, PlainCalmNext DEF PlainPc
    <3>4. Charged(c)'
      BY <1>0, <2>1, <3>1, RowsKept DEF Charged
    <3> QED
      BY <3>1, <3>3, <3>4, Unlisted DEF Good
  <2> QED
    BY <1>7, <2>2, <2>7, <2>8 DEF UploadRelease
<1>8. CASE UploadErase(c)
  <2>1. PICK a \in call[c].hand : obj' = [obj EXCEPT ![a.key] = None]
    BY <1>01, <1>8 DEF UploadErase, FailOn
  <2>2. call[c].pc \in {"erase", "unput"} /\ UNCHANGED <<row, refs, used>> /\ call'[c].pc = "idle"
    BY <1>8, ReturnTurns DEF UploadErase, At, Idle
  <2>3. a.key \in Key
    BY <1>0 DEF Call, Seen
  <2>4. \A k \in Content : obj'[SharedKey(k)] = IF a.key = SharedKey(k) THEN None ELSE obj[SharedKey(k)]
    BY <1>0, <1>02, <2>1, <2>3
  <2>5. \A k \in Content : ~Drops(c, k) /\ ~Claims(c, k)
    BY <2>2 DEF Drops, Claims
  <2>6. \A k \in Content : Calm(k)'
    <3> TAKE k \in Content
    <3>1. CASE call[c].pc = "unput"
      BY <1>0, <2>2, <2>4, <2>5, <3>1, RowsKept, Keys DEF Counted, Stored, Sure, Calm, Storing
    <3>2. CASE call[c].pc = "erase" /\ k = call[c].body
      <4>1. a.key = SharedKey(k) /\ refs[k] = 0
        BY <1>0, <3>2 DEF Sure, Stored, Storing
      <4> QED
        BY <1>0, <2>2, <2>4, <2>5, <4>1, RowsKept DEF Counted, Calm
    <3>3. CASE call[c].pc = "erase" /\ k # call[c].body
      <4>1. ~Storing(c, k)
        BY <3>3 DEF Storing
      <4>2. a.key # SharedKey(k)
        BY <1>0, <3>3, Keys DEF Sure
      <4> QED
        BY <1>0, <2>2, <2>4, <2>5, <4>1, <4>2, RowsKept DEF Counted, Stored, Calm
    <3> QED
      BY <2>2, <3>1, <3>2, <3>3
  <2>7. Counted(c)' /\ Stored(c)'
    BY <2>2, <2>6, PlainPcs, PlainCalmNext DEF PlainPc
  <2>8. Charged(c)'
    BY <1>0, <2>2, RowsKept DEF Charged
  <2> QED
    BY <2>2, <2>7, <2>8, Unlisted DEF Good
<1> QED
  BY <1>1, <1>2, <1>3, <1>4, <1>5, <1>6, <1>7, <1>8 DEF Upload

-----------------------------------------------------------------------------
(* Requests.                                                                 *)

LEMMA RequestGood ==
  ASSUME TypeOK, NEW c \in Caller, Good(c), Request(c)
  PROVE  Good(c)'
<1>0. /\ call \in [Caller -> Call] /\ row \in [Path -> Row] /\ obj \in [Key -> Content \cup {None}] /\ used \in Nat
      /\ Charged(c)
  BY DEF TypeOK, Good
<1>1. call[c].pc = "idle" /\ call'[c].pc = "idle" /\ UNCHANGED <<refs, used>>
  BY <1>0 DEF Request, SoftDelete, Restore, ApiDelete, Begin, At, Idle
<1>2. ASSUME NEW p \in Path, NEW s \in {"available", "deleted"}, row[p].status # "absent",
             row' = [row EXCEPT ![p].status = s], obj' = obj
      PROVE  Good(c)'
  <2>1. PICK r : r = [row[p] EXCEPT !.status = s]
    OBVIOUS
  <2>2. row' = [row EXCEPT ![p] = r] /\ r.status # "absent" /\ r.key = row[p].key
    BY <1>0, <1>2, <2>1 DEF Row
  <2>3. Rows' = Rows
    BY <1>2, <2>2, RowSet DEF Rows
  <2>4. \A k : Referring(k)' = Referring(k)
    <3> TAKE k
    <3>1. CASE r.key = SharedKey(k)
      BY <1>2, <2>2, <3>1, RowSet DEF Referring
    <3>2. CASE r.key # SharedKey(k)
      BY <1>2, <2>2, <3>2, RowSet DEF Referring
    <3> QED
      BY <3>1, <3>2
  <2>5. Counted(c)' /\ Stored(c)'
    BY <1>1, <1>2, <2>4, PlainPcs, PlainStep DEF PlainPc
  <2>6. Charged(c)'
    BY <1>0, <1>1, <2>3 DEF Charged
  <2> QED
    BY <1>1, <2>5, <2>6, Unlisted DEF Good
<1>3. CASE ApiDelete(c)
  <2>1. PICK p \in Path : obj' = [obj EXCEPT ![OwnKey(p)] = None]
    BY <1>3 DEF ApiDelete
  <2>2. row' = row
    BY <1>3 DEF ApiDelete
  <2>3. \A k \in Content : obj'[SharedKey(k)] = obj[SharedKey(k)]
    BY <1>0, <2>1, Keys
  <2>4. Counted(c)' /\ Stored(c)'
    BY <1>1, <2>2, <2>3, PlainPcs, PlainStep, RowsKept DEF PlainPc
  <2>5. Charged(c)'
    BY <1>0, <1>1, <2>2, RowsKept DEF Charged
  <2> QED
    BY <1>1, <2>4, <2>5, Unlisted DEF Good
<1>4. CASE SoftDelete(c)
  BY <1>2, <1>4 DEF SoftDelete
<1>5. CASE Restore(c)
  BY <1>2, <1>5 DEF Restore
<1> QED
  BY <1>3, <1>4, <1>5 DEF Request

-----------------------------------------------------------------------------
(* The recycle bin's sweep.                                                  *)

LEMMA CurrentKept ==
  ASSUME row' = row, NEW S, Current(S)
  PROVE  \A a \in S : a = AsSeen(a.path)' /\ a.path \in Rows'
BY RowsKept DEF Current

LEMMA CurrentApart ==
  ASSUME TypeOK, NEW p \in Path, NEW r, row' = [row EXCEPT ![p] = r], NEW S, Current(S), \A a \in S : a.path # p
  PROVE  \A a \in S : a = AsSeen(a.path)' /\ a.path \in Rows'
<1>1. TAKE a \in S
<1>2. PICK q \in Path \ {p} : q = a.path
  BY DEF Current, Rows
<1>3. AsSeen(q)' = AsSeen(q) /\ (q \in Rows' <=> q \in Rows)
  BY <1>2, RowSet
<1> QED
  BY <1>2, <1>3 DEF Current

\* Different rows that are still what was read are of different paths.
LEMMA PathsDiffer ==
  ASSUME NEW a, NEW b, a = AsSeen(a.path), b = AsSeen(b.path), a # b
  PROVE  a.path # b.path
OBVIOUS

LEMMA ReadNow ==
  ASSUME NEW S \in SUBSET Rows
  PROVE  Current({AsSeen(p) : p \in S})
BY DEF Current, AsSeen

LEMMA RefersTo ==
  ASSUME NEW a, a = AsSeen(a.path), a.path \in Rows, NEW k
  PROVE  a.path \in Referring(k) <=> a.key = SharedKey(k)
BY DEF AsSeen, Rows, Referring

LEMMA SweepGood ==
  ASSUME TypeOK, NEW c \in Caller, Good(c), Sweep(c), happened' \cap {"failure", "uncounted"} = {}
  PROVE  Good(c)'
<1>0. /\ call \in [Caller -> Call] /\ call[c] \in Call /\ row \in [Path -> Row] /\ refs \in [Content -> Nat]
      /\ obj \in [Key -> Content \cup {None}] /\ used \in Nat
      /\ Counted(c) /\ Stored(c) /\ Charged(c) /\ Faithful(c) /\ Sure(c)
  BY DEF TypeOK, Good
<1>01. ASSUME NEW S, Happens(S) PROVE S \cap {"failure", "uncounted"} = {}
  BY <1>01 DEF Happens
<1>02. /\ \A k \in Content : SharedKey(k) \in Key /\ SharedKey(k) \in Shared /\ SharedKey(k)[2] = k
       /\ \A x \in Shared : \E k \in Content : x = SharedKey(k)
       /\ \A k, l \in Content : SharedKey(k) = SharedKey(l) => k = l
  BY DEF Key, Shared, SharedKey
<1>03. call[c].hand \in SUBSET Seen /\ call[c].todo \in SUBSET Seen /\ \A a \in Seen : a.path \in Path /\ a.key \in Key
  BY <1>0 DEF Call, Seen
<1>1. CASE SweepBegin(c)
  <2>1. PICK S \in SUBSET {p \in Path : row[p].status = "deleted"} :
          Begin(c, [Idle EXCEPT !.pc = "sweep", !.todo = {AsSeen(p) : p \in S}])
    BY <1>1 DEF SweepBegin
  <2>2. call[c].pc = "idle" /\ call'[c].pc = "sweep" /\ call'[c].todo = {AsSeen(p) : p \in S}
    BY <1>0, <2>1 DEF Begin, At, Idle
  <2>3. UNCHANGED <<row, refs, obj, used>>
    BY <1>1 DEF SweepBegin
  <2>4. S \in SUBSET Rows
    BY <2>1 DEF Rows
  <2>5. Counted(c)' /\ Stored(c)'
    BY <2>2, <2>3, PlainPcs, PlainStep, RowsKept DEF PlainPc
  <2>6. Charged(c)'
    BY <1>0, <2>2, <2>3, RowsKept DEF Charged
  <2>7. Current({AsSeen(p) : p \in S})
    BY <2>4, ReadNow
  <2>8. \A a \in {AsSeen(p) : p \in S} : a = AsSeen(a.path)' /\ a.path \in Rows'
    BY <2>3, <2>7, CurrentKept
  <2>9. Faithful(c)' /\ Sure(c)'
    BY <2>2, <2>8 DEF Faithful, Sure, Current, Holding, BackfillPc
  <2> QED
    BY <2>5, <2>6, <2>9 DEF Good
<1>2. CASE SweepNext(c)
  <2>1. call[c].pc = "sweep" /\ UNCHANGED <<row, refs, obj, used>>
    BY <1>2 DEF SweepNext, At
  <2>2. CASE Return(c)
    <3>1. call'[c].pc = "idle"
      BY <2>2, ReturnTurns DEF Idle
    <3>2. Counted(c)' /\ Stored(c)'
      BY <2>1, <3>1, PlainPcs, PlainStep, RowsKept DEF PlainPc
    <3>3. Charged(c)'
      BY <1>0, <2>1, <3>1, RowsKept DEF Charged
    <3> QED
      BY <3>1, <3>2, <3>3, Unlisted DEF Good
  <2>3. ASSUME NEW a \in call[c].todo,
               call' = [call EXCEPT ![c].hand = {a}, ![c].todo = @ \ {a},
                          ![c].pc = IF a.key \in Shared THEN "drelease" ELSE "derase"]
        PROVE  Good(c)'
    <3>1. /\ call'[c].hand = {a} /\ call'[c].todo = call[c].todo \ {a}
          /\ call'[c].pc = IF a.key \in Shared THEN "drelease" ELSE "derase"
      BY <1>0, <2>3 DEF Call
    <3>2. Plain(c)'
      BY <1>02, <3>1 DEF Plain, Claims, Drops, Storing
    <3>3. Counted(c)' /\ Stored(c)'
      BY <2>1, <3>2, PlainPcs, PlainStep, RowsKept DEF PlainPc
    <3>4. Charged(c)'
      BY <1>0, <2>1, <3>1, RowsKept DEF Charged
    <3>5. Current(call[c].todo)
      BY <1>0, <2>1 DEF Faithful, Reading
    <3>6. \A b \in call[c].todo : b = AsSeen(b.path)' /\ b.path \in Rows'
      BY <2>1, <3>5, CurrentKept
    <3>7. Faithful(c)'
      BY <3>1, <3>6 DEF Faithful, Current
    <3>8. Sure(c)'
      BY <3>1 DEF Sure, BackfillPc
    <3> QED
      BY <3>3, <3>4, <3>7, <3>8 DEF Good
  <2> QED
    BY <1>2, <2>2, <2>3 DEF SweepNext
<1>3. CASE SweepRelease(c)
  <2>1. PICK a \in call[c].hand : Release(a.key[2]) /\ Goto(c, IF refs'[a.key[2]] = 0 THEN "derase" ELSE "drow")
    BY <1>3 DEF SweepRelease
  <2>2. call[c].pc = "drelease" /\ UNCHANGED <<row, obj, used>>
    BY <1>3 DEF SweepRelease, At
  <2>3. /\ a \in Seen /\ a.key \in Shared /\ a = AsSeen(a.path) /\ a.path \in Rows /\ call[c].hand = {a}
    BY <1>0, <1>03, <2>1, <2>2 DEF Sure, Faithful, Holding, Current
  <2>4. PICK b \in Content : a.key = SharedKey(b) /\ a.key[2] = b
    BY <1>02, <2>3
  <2>5. \A k \in Content : Calm(k)
    BY <1>0, <2>2, PlainPcs, PlainCalm DEF PlainPc
  <2>6. refs[b] > 0
    <3>1. a.path \in Referring(b)
      BY <2>3, <2>4, RefersTo
    <3>2. Cardinality(Referring(b)) = refs[b]
      BY <2>5 DEF Calm
    <3>3. \A k, p : p \in Referring(k) => Cardinality(Referring(k)) > 0
      BY Sizes
    <3> QED
      BY <3>1, <3>2, <3>3
  <2>7. \A k \in Content : refs'[k] = IF k = b THEN refs[k] - 1 ELSE refs[k]
    BY <1>0, <2>1, <2>4, <2>6 DEF Release
  <2>8. ASSUME NEW pc \in {"derase", "drow"}, Turned(c, pc), pc = "derase" => refs'[b] = 0, pc = "drow" => refs'[b] # 0
        PROVE  Good(c)'
    <3>1. call'[c].pc = pc /\ call'[c].hand = {a} /\ call'[c].todo = call[c].todo
      BY <2>3, <2>8 DEF Turned
    <3>2. \A k \in Content : /\ ~Claims(c, k)' /\ (Drops(c, k)' <=> k = b)
                             /\ (Storing(c, k)' <=> k = b /\ pc = "derase")
      BY <1>02, <2>4, <3>1 DEF Claims, Drops, Storing
    <3>3. Counted(c)'
      BY <1>0, <2>2, <2>5, <2>6, <2>7, <3>2, RowsKept DEF Counted, Calm
    <3>4. Stored(c)'
      <4> SUFFICES ASSUME NEW k \in Content
                   PROVE  /\ ~Storing(c, k)' => obj'[SharedKey(k)] = IF refs'[k] > 0 THEN k ELSE None
                          /\ Storing(c, k)' => refs'[k] = 0
        BY DEF Stored
      <4>1. CASE k = b
        BY <1>0, <2>2, <2>5, <2>6, <2>7, <2>8, <3>2, <4>1 DEF Calm
      <4>2. CASE k # b
        BY <2>2, <2>5, <2>7, <3>2, <4>2 DEF Calm
      <4> QED
        BY <4>1, <4>2
    <3>5. Charged(c)'
      BY <1>0, <2>2, <3>1, RowsKept DEF Charged
    <3>6. Current(call[c].todo) /\ Current(call[c].hand) /\ call[c].hand \cap call[c].todo = {}
      BY <1>0, <2>2 DEF Faithful, Reading, Holding
    <3>7. \A d \in call[c].todo \cup call[c].hand : d = AsSeen(d.path)' /\ d.path \in Rows'
      BY <2>2, <3>6, CurrentKept
    <3>8. Faithful(c)'
      BY <2>3, <3>1, <3>6, <3>7 DEF Faithful, Current
    <3>9. Sure(c)'
      BY <3>1 DEF Sure, BackfillPc
    <3> QED
      BY <3>3, <3>4, <3>5, <3>8, <3>9 DEF Good
  <2>9. CASE refs'[b] = 0
    <3>1. Turned(c, "derase")
      BY <2>1, <2>4, <2>9, GotoTurns
    <3> QED
      BY <2>8, <2>9, <3>1
  <2>10. CASE refs'[b] # 0
    <3>1. Turned(c, "drow")
      BY <2>1, <2>4, <2>10, GotoTurns
    <3> QED
      BY <2>8, <2>10, <3>1
  <2> QED
    BY <2>9, <2>10
<1>4. CASE SweepErase(c)
  <2>1. PICK a \in call[c].hand :
          /\ obj' = [obj EXCEPT ![a.key] = None]
          /\ Goto(c, IF a.key \in Shared /\ obj[a.key] # None THEN "dcontent" ELSE "drow")
    BY <1>4 DEF SweepErase
  <2>2. call[c].pc = "derase" /\ UNCHANGED <<row, refs, used>>
    BY <1>4 DEF SweepErase, At
  <2>3. /\ a \in Seen /\ a.key \in Key /\ a = AsSeen(a.path) /\ a.path \in Rows /\ call[c].hand = {a}
    BY <1>0, <1>03, <2>1, <2>2 DEF Faithful, Holding, Current
  <2>4. PICK pc \in {"dcontent", "drow"} : Turned(c, pc) /\ (pc = "dcontent" => a.key \in Shared)
    <3>1. CASE a.key \in Shared /\ obj[a.key] # None
      BY <2>1, <3>1, GotoTurns
    <3>2. CASE ~(a.key \in Shared /\ obj[a.key] # None)
      BY <2>1, <3>2, GotoTurns
    <3> QED
      BY <3>1, <3>2
  <2>5. call'[c].pc = pc /\ call'[c].hand = {a} /\ call'[c].todo = call[c].todo
    BY <2>3, <2>4 DEF Turned
  <2>6. \A k \in Content : obj'[SharedKey(k)] = IF a.key = SharedKey(k) THEN None ELSE obj[SharedKey(k)]
    BY <1>0, <1>02, <2>1, <2>3
  <2>7. \A k \in Content : /\ ~Claims(c, k) /\ ~Claims(c, k)'
                           /\ (Drops(c, k) <=> a.key = SharedKey(k)) /\ (Drops(c, k)' <=> a.key = SharedKey(k))
                           /\ (Storing(c, k) <=> a.key = SharedKey(k)) /\ ~Storing(c, k)'
    BY <2>2, <2>3, <2>5 DEF Claims, Drops, Storing
  <2>8. Counted(c)'
    BY <1>0, <2>2, <2>7, RowsKept DEF Counted
  <2>9. \A k \in Content : a.key = SharedKey(k) => refs[k] = 0
    BY <1>0, <2>2, <2>7 DEF Stored
  <2>10. Stored(c)'
    BY <1>0, <2>2, <2>6, <2>7, <2>9 DEF Stored
  <2>11. Charged(c)'
    BY <1>0, <2>2, <2>5, RowsKept DEF Charged
  <2>12. Current(call[c].todo) /\ Current(call[c].hand) /\ call[c].hand \cap call[c].todo = {}
    BY <1>0, <2>2 DEF Faithful, Reading, Holding
  <2>13. \A d \in call[c].todo \cup call[c].hand : d = AsSeen(d.path)' /\ d.path \in Rows'
    BY <2>2, <2>12, CurrentKept
  <2>14. Faithful(c)'
    BY <2>3, <2>5, <2>12, <2>13 DEF Faithful, Current
  <2>15. a.key \in Shared => obj'[a.key] = None /\ refs[a.key[2]] = 0
    BY <1>0, <1>02, <2>1, <2>3, <2>9
  <2>16. Sure(c)'
    BY <2>2, <2>4, <2>5, <2>15 DEF Sure, BackfillPc
  <2> QED
    BY <2>8, <2>10, <2>11, <2>14, <2>16 DEF Good
<1>5. CASE SweepContent(c)
  <2>1. call[c].pc = "dcontent" /\ Turned(c, "drow") /\ UNCHANGED <<row, obj, used>>
    BY <1>5, GotoTurns DEF SweepContent, At
  <2>2. PICK a \in call[c].hand : refs' = [refs EXCEPT ![a.key[2]] = 0]
    BY <1>5 DEF SweepContent
  <2>3. refs[a.key[2]] = 0
    BY <1>0, <2>1, <2>2 DEF Sure
  <2>4. \A k \in Content : refs'[k] = refs[k]
    BY <1>0, <2>2, <2>3
  <2>5. \A k \in Content : /\ ~Claims(c, k) /\ ~Claims(c, k)' /\ (Drops(c, k)' <=> Drops(c, k))
                           /\ ~Storing(c, k) /\ ~Storing(c, k)'
    BY <2>1 DEF Claims, Drops, Storing, Turned
  <2>6. Counted(c)' /\ Stored(c)'
    BY <1>0, <2>1, <2>4, <2>5, RowsKept DEF Counted, Stored
  <2>7. Charged(c)'
    BY <1>0, <2>1, RowsKept DEF Charged, Turned
  <2>8. Current(call[c].todo) /\ Current(call[c].hand) /\ call[c].hand \cap call[c].todo = {}
    BY <1>0, <2>1 DEF Faithful, Reading, Holding
  <2>9. \A d \in call[c].todo \cup call[c].hand : d = AsSeen(d.path)' /\ d.path \in Rows'
    BY <2>1, <2>8, CurrentKept
  <2>10. \A d, e \in call[c].hand : d = e
    BY <1>0, <2>1 DEF Faithful
  <2>11. Faithful(c)' /\ Sure(c)'
    BY <2>1, <2>8, <2>9, <2>10 DEF Faithful, Sure, Current, Turned, BackfillPc
  <2> QED
    BY <2>6, <2>7, <2>11 DEF Good
<1>6. CASE SweepRow(c)
  <2>1. call[c].pc = "drow" /\ Turned(c, "dquota") /\ UNCHANGED <<refs, obj, used>>
    BY <1>6, GotoTurns DEF SweepRow, At
  <2>2. PICK a \in call[c].hand : Drop(a)
    BY <1>6 DEF SweepRow
  <2>3. /\ a = AsSeen(a.path) /\ a.path \in Rows /\ a.path \in Path /\ call[c].hand = {a}
        /\ Current(call[c].todo) /\ a \notin call[c].todo
    BY <1>0, <1>03, <2>1, <2>2 DEF Faithful, Holding, Reading, Current
  <2>4. row' = [row EXCEPT ![a.path] = NoRow(a.path)] /\ NoRow(a.path).status = "absent"
    BY <2>2, <2>3 DEF Drop, Exists, AsSeen, NoRow
  <2>5. Rows' = Rows \ {a.path} /\ \A k : Referring(k)' = Referring(k) \ {a.path}
    BY <2>3, <2>4, RowSet
  <2>6. Charged(c)'
    BY <1>0, <2>1, <2>3, <2>5, Sizes DEF Charged, Turned
  <2>7. \A k \in Content : Calm(k)'
    <3> TAKE k \in Content
    <3>1. ~Claims(c, k) /\ (Drops(c, k) <=> a.key = SharedKey(k)) /\ ~Storing(c, k)
      BY <2>1, <2>3 DEF Claims, Drops, Storing
    <3>2. a.path \in Referring(k) <=> a.key = SharedKey(k)
      BY <2>3, RefersTo
    <3>3. CASE a.key = SharedKey(k)
      BY <1>0, <2>1, <2>5, <3>1, <3>2, <3>3, Sizes DEF Counted, Stored, Calm
    <3>4. CASE a.key # SharedKey(k)
      <4>1. Referring(k)' = Referring(k)
        BY <2>5, <3>2, <3>4
      <4> QED
        BY <1>0, <2>1, <3>1, <3>4, <4>1 DEF Counted, Stored, Calm
    <3> QED
      BY <3>3, <3>4
  <2>8. Counted(c)' /\ Stored(c)'
    BY <2>1, <2>7, PlainPcs, PlainCalmNext DEF PlainPc, Turned
  <2>9. \A b \in call[c].todo : b.path # a.path
    BY <2>3, PathsDiffer DEF Current
  <2>10. \A b \in call[c].todo : b = AsSeen(b.path)' /\ b.path \in Rows'
    BY <2>3, <2>4, <2>9, CurrentApart
  <2>11. Faithful(c)' /\ Sure(c)'
    BY <2>1, <2>3, <2>9, <2>10 DEF Faithful, Sure, Current, Turned, Holding, BackfillPc
  <2> QED
    BY <2>6, <2>8, <2>11 DEF Good
<1>7. CASE SweepQuota(c)
  <2>1. call[c].pc = "dquota" /\ Turned(c, "sweep") /\ UNCHANGED <<row, refs, obj>> /\ Refund
    BY <1>7, GotoTurns DEF SweepQuota, At
  <2>2. Counted(c)' /\ Stored(c)'
    BY <2>1, PlainPcs, PlainStep, RowsKept DEF PlainPc, Turned
  <2>3. Charged(c)'
    BY <1>0, <2>1, RowsKept, Sizes DEF Charged, Turned, Refund
  <2>4. Current(call[c].todo)
    BY <1>0, <2>1 DEF Faithful, Reading
  <2>5. \A b \in call[c].todo : b = AsSeen(b.path)' /\ b.path \in Rows'
    BY <2>1, <2>4, CurrentKept
  <2>6. Faithful(c)' /\ Sure(c)'
    BY <2>1, <2>5 DEF Faithful, Sure, Current, Turned, Holding, BackfillPc
  <2> QED
    BY <2>2, <2>3, <2>6 DEF Good
<1>8. CASE SweepFail(c)
  BY <1>01, <1>8 DEF SweepFail, FailOn
<1> QED
  BY <1>1, <1>2, <1>3, <1>4, <1>5, <1>6, <1>7, <1>8 DEF Sweep

-----------------------------------------------------------------------------
(* The backfill.                                                             *)

LEMMA BackfillGood ==
  ASSUME TypeOK, HandsOK, NEW c \in Caller, Good(c), Backfill(c), happened' \cap {"failure", "uncounted"} = {}
  PROVE  Good(c)'
<1>0. /\ call \in [Caller -> Call] /\ call[c] \in Call /\ row \in [Path -> Row] /\ refs \in [Content -> Nat]
      /\ obj \in [Key -> Content \cup {None}] /\ used \in Nat /\ HandOK(c)
      /\ Counted(c) /\ Stored(c) /\ Charged(c) /\ Faithful(c) /\ Sure(c)
  BY DEF TypeOK, HandsOK, Good
<1>01. ASSUME NEW S, Happens(S) PROVE S \cap {"failure", "uncounted"} = {}
  BY <1>01 DEF Happens
<1>02. /\ \A k \in Content : SharedKey(k) \in Key /\ SharedKey(k) \in Shared
       /\ \A k, l \in Content : SharedKey(k) = SharedKey(l) => k = l
  BY Keys
<1>03. call[c].hand \in SUBSET Seen /\ call[c].todo \in SUBSET Seen /\ \A a \in Seen : a.path \in Path /\ a.key \in Key
  BY <1>0 DEF Call, Seen
<1>1. CASE BackfillBegin(c)
  <2>1. PICK S \in SUBSET {p \in Path : row[p].status = "available" /\ row[p].key \notin Shared} :
          Begin(c, [Idle EXCEPT !.pc = "backfill", !.todo = {AsSeen(p) : p \in S}])
    BY <1>1 DEF BackfillBegin
  <2>2. call[c].pc = "idle" /\ call'[c].pc = "backfill" /\ call'[c].todo = {AsSeen(p) : p \in S}
    BY <1>0, <2>1 DEF Begin, At, Idle
  <2>3. UNCHANGED <<row, refs, obj, used>>
    BY <1>1 DEF BackfillBegin
  <2>4. S \in SUBSET Rows /\ \A a \in {AsSeen(p) : p \in S} : a.key \notin Shared
    BY <2>1 DEF Rows, AsSeen
  <2>5. Plain(c)'
    BY <2>2, PlainPcs DEF PlainPc
  <2>6. Counted(c)' /\ Stored(c)'
    BY <2>2, <2>3, <2>5, PlainPcs, PlainStep, RowsKept DEF PlainPc
  <2>7. Charged(c)'
    BY <1>0, <2>2, <2>3, RowsKept DEF Charged
  <2>8. Current({AsSeen(p) : p \in S})
    BY <2>4, ReadNow
  <2>9. \A a \in {AsSeen(p) : p \in S} : a = AsSeen(a.path)' /\ a.path \in Rows'
    BY <2>3, <2>8, CurrentKept
  <2>10. Faithful(c)' /\ Sure(c)'
    BY <2>2, <2>4, <2>9 DEF Faithful, Sure, Current, Holding, BackfillPc
  <2> QED
    BY <2>6, <2>7, <2>10 DEF Good
<1>2. CASE BackfillNext(c)
  <2>1. call[c].pc = "backfill" /\ UNCHANGED <<row, refs, obj, used>>
    BY <1>2 DEF BackfillNext, At
  <2>2. CASE Return(c)
    <3>1. call'[c].pc = "idle"
      BY <2>2, ReturnTurns DEF Idle
    <3>2. Counted(c)' /\ Stored(c)'
      BY <2>1, <3>1, PlainPcs, PlainStep, RowsKept DEF PlainPc
    <3>3. Charged(c)'
      BY <1>0, <2>1, <3>1, RowsKept DEF Charged
    <3> QED
      BY <3>1, <3>2, <3>3, Unlisted DEF Good
  <2>3. ASSUME NEW a \in call[c].todo,
               call' = [call EXCEPT ![c].todo = @ \ {a}, ![c].hand = {a}, ![c].body = obj[a.key],
                          ![c].pc = IF obj[a.key] = None THEN "backfill" ELSE "bclaim"]
        PROVE  Good(c)'
    <3>1. /\ call'[c].hand = {a} /\ call'[c].todo = call[c].todo \ {a} /\ call'[c].body = obj[a.key]
          /\ call'[c].pc \in {"backfill", "bclaim"}
      BY <1>0, <2>3 DEF Call
    <3>2. Counted(c)' /\ Stored(c)'
      BY <2>1, <3>1, PlainPcs, PlainStep, RowsKept DEF PlainPc
    <3>3. Charged(c)'
      BY <1>0, <2>1, <3>1, RowsKept DEF Charged
    <3>4. Current(call[c].todo) /\ \A b \in call[c].todo : b.key \notin Shared
      BY <1>0, <2>1 DEF Faithful, Reading, Sure
    <3>5. \A b \in call[c].todo : b = AsSeen(b.path)' /\ b.path \in Rows'
      BY <2>1, <3>4, CurrentKept
    <3>6. Faithful(c)'
      BY <3>1, <3>5 DEF Faithful, Current
    <3>7. Sure(c)'
      BY <2>1, <3>1, <3>4 DEF Sure, BackfillPc
    <3> QED
      BY <3>2, <3>3, <3>6, <3>7 DEF Good
  <2> QED
    BY <1>2, <2>2, <2>3 DEF BackfillNext
<1>3. CASE BackfillClaim(c)
  <2>1. /\ call[c].pc = "bclaim" /\ UNCHANGED <<row, obj, used>> /\ Claim(call[c].body)
        /\ Goto(c, IF refs'[call[c].body] = 1 THEN "bmove" ELSE "bdrop")
    BY <1>3 DEF BackfillClaim, At
  <2>2. PICK b \in Content : b = call[c].body
    BY <1>0, <2>1 DEF HandOK, BackfillPc
  <2>3. \A k \in Content : Calm(k)
    BY <1>0, <2>1, PlainPcs, PlainCalm DEF PlainPc
  <2>4. \A k \in Content : refs'[k] = IF k = b THEN refs[k] + 1 ELSE refs[k]
    BY <1>0, <2>1, <2>2 DEF Claim
  <2>5. PICK pc \in {"bmove", "bdrop"} : Turned(c, pc) /\ (pc = "bmove" <=> refs'[b] = 1)
    <3>1. CASE refs'[b] = 1
      BY <2>1, <2>2, <3>1, GotoTurns
    <3>2. CASE refs'[b] # 1
      BY <2>1, <2>2, <3>2, GotoTurns
    <3> QED
      BY <3>1, <3>2
  <2>6. call'[c].pc = pc /\ call'[c].hand = call[c].hand /\ call'[c].todo = call[c].todo /\ call'[c].body = b
    BY <2>2, <2>5 DEF Turned
  <2>7. \A k \in Content : ~Drops(c, k)' /\ (Claims(c, k)' <=> k = b) /\ (Storing(c, k)' <=> k = b /\ pc = "bmove")
    BY <2>6 DEF Drops, Claims, Storing
  <2>8. Counted(c)'
    BY <1>0, <2>1, <2>3, <2>4, <2>7, RowsKept DEF Counted, Calm
  <2>9. Stored(c)'
    <3> SUFFICES ASSUME NEW k \in Content
                 PROVE  /\ ~Storing(c, k)' => obj'[SharedKey(k)] = IF refs'[k] > 0 THEN k ELSE None
                        /\ Storing(c, k)' => pc = "bmove"
      BY <2>6 DEF Stored
    <3>1. CASE k = b
      BY <1>0, <2>1, <2>3, <2>4, <2>5, <2>7, <3>1 DEF Calm
    <3>2. CASE k # b
      BY <2>1, <2>3, <2>4, <2>7, <3>2 DEF Calm
    <3> QED
      BY <3>1, <3>2
  <2>10. Charged(c)'
    BY <1>0, <2>1, <2>6, RowsKept DEF Charged
  <2>11. Current(call[c].todo) /\ Current(call[c].hand) /\ call[c].hand \cap call[c].todo = {}
    BY <1>0, <2>1 DEF Faithful, Reading, Holding
  <2>12. \A d \in call[c].todo \cup call[c].hand : d = AsSeen(d.path)' /\ d.path \in Rows'
    BY <2>1, <2>11, CurrentKept
  <2>13. Faithful(c)'
    BY <2>6, <2>11, <2>12 DEF Faithful, Current
  <2>14. refs'[b] = 1 \/ refs'[b] > 1
    BY <1>0, <2>4
  <2>15. Sure(c)'
    BY <1>0, <2>1, <2>2, <2>5, <2>6, <2>14 DEF Sure, BackfillPc
  <2> QED
    BY <2>8, <2>9, <2>10, <2>13, <2>15 DEF Good
<1>4. CASE BackfillMove(c)
  <2>0. call[c].pc \in {"bmove", "bdrop"} /\ UNCHANGED <<row, refs, used>>
    BY <1>4 DEF BackfillMove, At
  <2>1. PICK a \in call[c].hand :
          \/ /\ call[c].pc = "bmove" /\ obj[a.key] # None
             /\ obj' = [obj EXCEPT ![SharedKey(call[c].body)] = obj[a.key], ![a.key] = None]
             /\ Goto(c, "blink")
          \/ /\ call[c].pc = "bmove" /\ obj[a.key] = None
             /\ Goto(c, "backfill")
             /\ UNCHANGED obj
          \/ /\ call[c].pc = "bdrop"
             /\ obj' = [obj EXCEPT ![a.key] = None]
             /\ Goto(c, "blink")
    BY <1>4 DEF BackfillMove, At
  <2>2. PICK b \in Content : b = call[c].body
    BY <1>0, <2>0 DEF HandOK, BackfillPc
  <2>3. a.key \in Key /\ a.key \notin Shared /\ (call[c].pc = "bmove" => obj[a.key] = b)
    BY <1>0, <1>03, <2>0, <2>1, <2>2 DEF Sure, BackfillPc
  <2>4. Turned(c, "blink")
    BY <2>1, <2>2, <2>3, GotoTurns, StoreAssumption
  <2>5. call'[c].pc = "blink" /\ call'[c].hand = call[c].hand /\ call'[c].todo = call[c].todo /\ call'[c].body = b
    BY <2>2, <2>4 DEF Turned
  <2>6. \A k \in Content : /\ ~Drops(c, k) /\ ~Drops(c, k)' /\ (Claims(c, k) <=> k = b) /\ (Claims(c, k)' <=> k = b)
                           /\ ~Storing(c, k)' /\ (Storing(c, k) <=> k = b /\ call[c].pc = "bmove")
    BY <2>0, <2>2, <2>5 DEF Drops, Claims, Storing
  <2>7. Counted(c)'
    BY <1>0, <2>0, <2>6, RowsKept DEF Counted
  <2>8. refs[b] > 0
    <3>1. Cardinality(Referring(b)) = refs[b] - 1
      BY <1>0, <2>6 DEF Counted
    <3> QED
      BY <1>0, <3>1, Sizes
  <2>9. \A k \in Content : a.key # SharedKey(k)
    BY <1>02, <2>3
  <2>10. ASSUME call[c].pc = "bmove" PROVE Stored(c)'
    <3>1. obj' = [obj EXCEPT ![SharedKey(b)] = b, ![a.key] = None]
      BY <2>1, <2>2, <2>3, <2>10, StoreAssumption
    <3>2. \A k \in Content : obj'[SharedKey(k)] = IF k = b THEN b ELSE obj[SharedKey(k)]
      BY <1>0, <1>02, <2>3, <2>9, <3>1
    <3> QED
      BY <1>0, <2>0, <2>6, <2>8, <2>10, <3>2 DEF Stored
  <2>11. ASSUME call[c].pc = "bdrop" PROVE Stored(c)'
    <3>1. \A k \in Content : obj'[SharedKey(k)] = obj[SharedKey(k)]
      BY <1>0, <1>02, <2>1, <2>3, <2>9, <2>11
    <3> QED
      BY <1>0, <2>0, <2>6, <2>11, <3>1 DEF Stored
  <2>12. Charged(c)'
    BY <1>0, <2>0, <2>5, RowsKept DEF Charged
  <2>13. Current(call[c].todo) /\ Current(call[c].hand) /\ call[c].hand \cap call[c].todo = {}
    BY <1>0, <2>0 DEF Faithful, Reading, Holding
  <2>14. \A d \in call[c].todo \cup call[c].hand : d = AsSeen(d.path)' /\ d.path \in Rows'
    BY <2>0, <2>13, CurrentKept
  <2>15. Faithful(c)'
    BY <2>5, <2>13, <2>14 DEF Faithful, Current
  <2>16. Sure(c)'
    BY <1>0, <2>0, <2>5 DEF Sure, BackfillPc
  <2> QED
    BY <2>0, <2>7, <2>10, <2>11, <2>12, <2>15, <2>16 DEF Good
<1>5. CASE BackfillLink(c)
  <2>1. call[c].pc = "blink" /\ Turned(c, "backfill") /\ UNCHANGED <<refs, obj, used>>
    BY <1>5, GotoTurns DEF BackfillLink, At
  <2>2. PICK a \in call[c].hand :
          row' = IF Exists(a) THEN [row EXCEPT ![a.path].key = SharedKey(call[c].body)] ELSE row
    BY <1>5 DEF BackfillLink
  <2>3. PICK b \in Content : b = call[c].body
    BY <1>0, <2>1 DEF HandOK, BackfillPc
  <2>4. /\ a = AsSeen(a.path) /\ a.path \in Rows /\ a.path \in Path /\ a.key \notin Shared /\ call[c].hand = {a}
        /\ Current(call[c].todo) /\ a \notin call[c].todo /\ \A d \in call[c].todo : d.key \notin Shared
    BY <1>0, <1>03, <2>1, <2>2 DEF Faithful, Holding, Reading, Current, Sure, BackfillPc
  <2>5. PICK r : r = [row[a.path] EXCEPT !.key = SharedKey(b)]
    OBVIOUS
  <2>6. row' = [row EXCEPT ![a.path] = r] /\ r.status # "absent" /\ r.key = SharedKey(b)
    BY <1>0, <2>2, <2>3, <2>4, <2>5 DEF Exists, AsSeen, Rows, Row
  <2>7. /\ Rows' = Rows \cup {a.path}
        /\ \A k : r.key = SharedKey(k) => Referring(k)' = Referring(k) \cup {a.path}
        /\ \A k : r.key # SharedKey(k) => Referring(k)' = Referring(k) \ {a.path}
    BY <2>4, <2>6, RowSet
  <2>8. Rows' = Rows
    BY <2>4, <2>7
  <2>9. Charged(c)'
    BY <1>0, <2>1, <2>8 DEF Charged, Turned
  <2>10. \A k \in Content : a.path \notin Referring(k)
    BY <1>02, <2>4, RefersTo
  <2>11. \A k \in Content : ~Drops(c, k) /\ (Claims(c, k) <=> k = b) /\ ~Storing(c, k)
    BY <2>1, <2>3 DEF Drops, Claims, Storing
  <2>12. \A k \in Content : Calm(k)'
    <3> TAKE k \in Content
    <3>1. CASE k = b
      <4>1. Referring(k)' = Referring(k) \cup {a.path}
        BY <2>6, <2>7, <3>1
      <4>2. Cardinality(Referring(k)) = refs[k] - 1 /\ obj[SharedKey(k)] = IF refs[k] > 0 THEN k ELSE None
        BY <1>0, <2>11, <3>1 DEF Counted, Stored
      <4>3. Cardinality(Referring(k)') = Cardinality(Referring(k)) + 1
        BY <2>10, <4>1, Sizes
      <4> QED
        BY <1>0, <2>1, <4>2, <4>3 DEF Calm
    <3>2. CASE k # b
      <4>1. Referring(k)' = Referring(k)
        BY <1>02, <2>6, <2>7, <2>10, <3>2
      <4> QED
        BY <1>0, <2>1, <2>11, <3>2, <4>1 DEF Counted, Stored, Calm
    <3> QED
      BY <3>1, <3>2
  <2>13. Counted(c)' /\ Stored(c)'
    BY <2>1, <2>12, PlainPcs, PlainCalmNext DEF PlainPc, Turned
  <2>14. \A d \in call[c].todo : d.path # a.path
    BY <2>4, PathsDiffer DEF Current
  <2>15. \A d \in call[c].todo : d = AsSeen(d.path)' /\ d.path \in Rows'
    BY <2>4, <2>6, <2>14, CurrentApart
  <2>16. Faithful(c)' /\ Sure(c)'
    BY <2>1, <2>4, <2>15 DEF Faithful, Sure, Current, Turned, Holding, BackfillPc
  <2> QED
    BY <2>9, <2>13, <2>16 DEF Good
<1>6. CASE BackfillFail(c)
  BY <1>01, <1>6 DEF BackfillFail, FailOn
<1> QED
  BY <1>1, <1>2, <1>3, <1>4, <1>5, <1>6 DEF Backfill

-----------------------------------------------------------------------------
(* The reconciler.                                                           *)

\* A row that refers to a content, while all is calm: the content is stored.
LEMMA ReferredIsStored ==
  ASSUME TypeOK, NEW a, a = AsSeen(a.path), a.path \in Rows, NEW k \in Content, Calm(k), a.key = SharedKey(k)
  PROVE  obj[a.key] # None
<1>1. a.path \in Referring(k)
  BY RefersTo
<1>2. Cardinality(Referring(k)) > 0
  BY <1>1, Sizes
<1> QED
  BY <1>2, StoreAssumption DEF Calm

LEMMA ReconcileGood ==
  ASSUME TypeOK, NEW c \in Caller, Good(c), Reconcile(c), happened' \cap {"failure", "uncounted"} = {}
  PROVE  Good(c)'
<1>0. /\ call \in [Caller -> Call] /\ call[c] \in Call /\ row \in [Path -> Row] /\ refs \in [Content -> Nat]
      /\ obj \in [Key -> Content \cup {None}] /\ used \in Nat
      /\ Counted(c) /\ Stored(c) /\ Charged(c) /\ Faithful(c) /\ Sure(c)
  BY DEF TypeOK, Good
<1>01. ASSUME NEW S, Happens(S) PROVE S \cap {"failure", "uncounted"} = {}
  BY <1>01 DEF Happens
<1>02. /\ \A k \in Content : SharedKey(k) \in Key /\ SharedKey(k) \in Shared /\ SharedKey(k)[2] = k
       /\ \A x \in Shared : \E k \in Content : x = SharedKey(k)
       /\ \A k, l \in Content : SharedKey(k) = SharedKey(l) => k = l
  BY DEF Key, Shared, SharedKey
<1>03. /\ call[c].hand \in SUBSET Seen /\ call[c].todo \in SUBSET Seen /\ call[c].keys \in SUBSET Key
       /\ \A a \in Seen : a.path \in Path /\ a.key \in Key
  BY <1>0 DEF Call, Seen
<1>04. ASSUME call[c].pc \in PlainPc, call'[c].pc \in PlainPc, refs' = refs,
              \A k \in Content : obj'[SharedKey(k)] = obj[SharedKey(k)], row' = row
       PROVE  Counted(c)' /\ Stored(c)'
  BY <1>04, PlainPcs, PlainStep, RowsKept
<1>1. CASE ReconcileBegin(c)
  <2>1. /\ call[c].pc = "idle" /\ call'[c].pc = "rlist" /\ call'[c].todo = {AsSeen(p) : p \in Rows}
        /\ UNCHANGED <<row, refs, obj, used>>
    BY <1>0, <1>1 DEF ReconcileBegin, Begin, At, Idle
  <2>2. Counted(c)' /\ Stored(c)'
    BY <1>04, <2>1 DEF PlainPc
  <2>3. Charged(c)'
    BY <1>0, <2>1, RowsKept DEF Charged
  <2>4. Current({AsSeen(p) : p \in Rows})
    BY ReadNow
  <2>5. \A a \in {AsSeen(p) : p \in Rows} : a = AsSeen(a.path)' /\ a.path \in Rows'
    BY <2>1, <2>4, CurrentKept
  <2>6. Faithful(c)' /\ Sure(c)'
    BY <2>1, <2>5 DEF Faithful, Sure, Current, Holding, BackfillPc
  <2> QED
    BY <2>2, <2>3, <2>6 DEF Good
<1>2. CASE ReconcileList(c)
  <2>1. call[c].pc = "rlist" /\ UNCHANGED <<row, refs, obj, used>>
    BY <1>2 DEF ReconcileList, At
  <2>2. call' = [call EXCEPT ![c].pc = "rrefs", ![c].keys = {x \in Key : obj[x] # None}]
    BY <1>01, <1>2 DEF ReconcileList, FailOn
  <2>3. call'[c].pc = "rrefs" /\ call'[c].todo = call[c].todo
    BY <1>0, <2>2 DEF Call
  <2>4. Counted(c)' /\ Stored(c)'
    BY <1>04, <2>1, <2>3 DEF PlainPc
  <2>5. Charged(c)'
    BY <1>0, <2>1, <2>3, RowsKept DEF Charged
  <2>6. Current(call[c].todo)
    BY <1>0, <2>1 DEF Faithful, Reading
  <2>7. \A a \in call[c].todo : a = AsSeen(a.path)' /\ a.path \in Rows'
    BY <2>1, <2>6, CurrentKept
  <2>8. Faithful(c)' /\ Sure(c)'
    BY <2>3, <2>7 DEF Faithful, Sure, Current, Holding, BackfillPc
  <2> QED
    BY <2>4, <2>5, <2>8 DEF Good
<1>3. CASE ReconcileRefs(c)
  <2>1. call[c].pc = "rrefs" /\ UNCHANGED <<row, refs, obj, used>>
    BY <1>3 DEF ReconcileRefs, At
  <2>2. /\ call'[c].pc = "orphan"
        /\ call'[c].todo \subseteq call[c].todo
        /\ \A x \in call'[c].keys : ~KeepsReferred(x)
    BY <1>0, <1>3 DEF ReconcileRefs, Call
  <2>3. Counted(c)' /\ Stored(c)'
    BY <1>04, <2>1, <2>2 DEF PlainPc
  <2>4. Charged(c)'
    BY <1>0, <2>1, <2>2, RowsKept DEF Charged
  <2>5. Current(call[c].todo)
    BY <1>0, <2>1 DEF Faithful, Reading
  <2>6. \A a \in call[c].todo : a = AsSeen(a.path)' /\ a.path \in Rows'
    BY <2>1, <2>5, CurrentKept
  <2>7. Faithful(c)'
    BY <2>2, <2>6 DEF Faithful, Current, Holding
  <2>8. \A k \in Content : SharedKey(k) \in call'[c].keys => refs'[k] = 0
    BY <1>0, <1>02, <2>1, <2>2 DEF KeepsReferred
  <2>9. Sure(c)'
    BY <2>2, <2>8 DEF Sure, BackfillPc
  <2> QED
    BY <2>3, <2>4, <2>7, <2>9 DEF Good
<1>4. CASE ReconcileOrphan(c)
  <2>1. call[c].pc = "orphan" /\ UNCHANGED <<row, refs, used>>
    BY <1>4 DEF ReconcileOrphan, At
  <2>2. \A k \in Content : Calm(k)
    BY <1>0, <2>1, PlainPcs, PlainCalm DEF PlainPc
  <2>3. Current(call[c].todo)
    BY <1>0, <2>1 DEF Faithful, Reading
  <2>4. \A a \in call[c].todo : a = AsSeen(a.path)' /\ a.path \in Rows'
    BY <2>1, <2>3, CurrentKept
  <2>5. CASE Goto(c, "missing") /\ UNCHANGED obj
    <3>1. call'[c].pc = "missing" /\ call'[c].todo = call[c].todo
      BY <2>5, GotoTurns DEF Turned
    <3>2. Counted(c)' /\ Stored(c)'
      BY <1>04, <2>1, <2>5, <3>1 DEF PlainPc
    <3>3. Charged(c)'
      BY <1>0, <2>1, <3>1, RowsKept DEF Charged
    <3>4. Faithful(c)' /\ Sure(c)'
      BY <2>4, <3>1 DEF Faithful, Sure, Current, Holding, BackfillPc
    <3> QED
      BY <3>2, <3>3, <3>4 DEF Good
  <2>6. ASSUME NEW x \in call[c].keys, call' = [call EXCEPT ![c].keys = @ \ {x}], obj' = [obj EXCEPT ![x] = None]
        PROVE  Good(c)'
    <3>1. call'[c].pc = "orphan" /\ call'[c].todo = call[c].todo /\ call'[c].keys \subseteq call[c].keys
      BY <1>0, <2>1, <2>6 DEF Call
    <3>2. \A k \in Content : obj'[SharedKey(k)] = obj[SharedKey(k)]
      <4> TAKE k \in Content
      <4>1. CASE x = SharedKey(k)
        <5>1. refs[k] = 0
          BY <1>0, <2>1, <2>6, <4>1 DEF Sure
        <5>2. obj[SharedKey(k)] = None
          BY <2>2, <5>1 DEF Calm
        <5> QED
          BY <1>0, <1>02, <2>6, <4>1, <5>2
      <4>2. CASE x # SharedKey(k)
        BY <1>0, <1>02, <2>6, <4>2
      <4> QED
        BY <4>1, <4>2
    <3>3. Counted(c)' /\ Stored(c)'
      BY <1>04, <2>1, <3>1, <3>2 DEF PlainPc
    <3>4. Charged(c)'
      BY <1>0, <2>1, <3>1, RowsKept DEF Charged
    <3>5. Faithful(c)'
      BY <2>4, <3>1 DEF Faithful, Current, Holding
    <3>6. Sure(c)'
      BY <1>0, <2>1, <3>1 DEF Sure, BackfillPc
    <3> QED
      BY <3>3, <3>4, <3>5, <3>6 DEF Good
  <2> QED
    BY <1>01, <1>4, <2>5, <2>6 DEF ReconcileOrphan, FailOn
<1>5. CASE ReconcileMissing(c)
  <2>1. call[c].pc = "missing" /\ UNCHANGED <<row, refs, obj, used>>
    BY <1>5 DEF ReconcileMissing, At
  <2>2. CASE Return(c)
    <3>1. call'[c].pc = "idle"
      BY <2>2, ReturnTurns DEF Idle
    <3>2. Counted(c)' /\ Stored(c)'
      BY <1>04, <2>1, <3>1 DEF PlainPc
    <3>3. Charged(c)'
      BY <1>0, <2>1, <3>1, RowsKept DEF Charged
    <3> QED
      BY <3>1, <3>2, <3>3, Unlisted DEF Good
  <2>3. ASSUME NEW x, NEW R, R = {a \in call[c].todo : a.key = x},
               call' = [call EXCEPT ![c].todo = call[c].todo \ R, ![c].hand = IF obj[x] = None THEN R ELSE {},
                          ![c].pc = IF obj[x] = None THEN "rquota" ELSE "missing"]
        PROVE  Good(c)'
    <3>1. /\ call'[c].pc \in {"rquota", "missing"} /\ call'[c].todo = call[c].todo \ R
          /\ call'[c].hand \subseteq R /\ (call'[c].pc = "rquota" => obj[x] = None)
      BY <1>0, <2>3 DEF Call
    <3>2. Counted(c)' /\ Stored(c)'
      BY <1>04, <2>1, <3>1 DEF PlainPc
    <3>3. Charged(c)'
      BY <1>0, <2>1, <3>1, RowsKept DEF Charged
    <3>4. Current(call[c].todo)
      BY <1>0, <2>1 DEF Faithful, Reading
    <3>5. \A a \in call[c].todo : a = AsSeen(a.path)' /\ a.path \in Rows'
      BY <2>1, <3>4, CurrentKept
    <3>6. Faithful(c)'
      BY <2>3, <3>1, <3>5 DEF Faithful, Current
    <3>7. \A k \in Content : Calm(k)
      BY <1>0, <2>1, PlainPcs, PlainCalm DEF PlainPc
    <3>8. obj[x] = None => \A a \in R : a.key \notin Shared
      BY <1>02, <2>3, <3>4, <3>7, ReferredIsStored DEF Current
    <3>9. Sure(c)'
      BY <3>1, <3>8 DEF Sure, BackfillPc
    <3> QED
      BY <3>2, <3>3, <3>6, <3>9 DEF Good
  <2> QED
    BY <1>5, <2>2, <2>3 DEF ReconcileMissing
<1>6. CASE ReconcileQuota(c)
  <2>1. /\ call[c].pc = "rquota" /\ UNCHANGED <<row, refs, obj>>
        /\ Current(call[c].todo) /\ Current(call[c].hand) /\ call[c].hand \cap call[c].todo = {}
        /\ \A a \in call[c].hand : a.key \notin Shared
    BY <1>0, <1>6 DEF ReconcileQuota, At, Faithful, Reading, Holding, Sure
  <2>2. PICK pc \in {"missing", "rrow"} :
          Turned(c, pc) /\ IF pc = "missing" THEN UNCHANGED used ELSE Refund /\ call[c].hand # {}
    <3>1. CASE call[c].hand = {}
      BY <1>6, <3>1, GotoTurns DEF ReconcileQuota
    <3>2. CASE call[c].hand # {}
      BY <1>6, <3>2, GotoTurns DEF ReconcileQuota
    <3> QED
      BY <3>1, <3>2
  <2>3. call'[c].pc = pc /\ call'[c].todo = call[c].todo /\ call'[c].hand = call[c].hand
    BY <2>2 DEF Turned
  <2>4. Counted(c)' /\ Stored(c)'
    BY <1>04, <2>1, <2>3 DEF PlainPc
  <2>5. Charged(c)'
    <3>1. CASE pc = "missing"
      BY <1>0, <2>1, <2>2, <2>3, <3>1, RowsKept DEF Charged
    <3>2. CASE pc = "rrow"
      <4>1. PICK p : p \in Rows
        BY <2>1, <2>2, <3>2 DEF Current
      <4>2. Cardinality(Rows) > 0 /\ Cardinality(Rows) = used
        BY <1>0, <2>1, <4>1, Sizes DEF Charged
      <4> QED
        BY <1>0, <2>1, <2>2, <2>3, <3>2, <4>2, RowsKept DEF Charged, Refund
    <3> QED
      BY <3>1, <3>2
  <2>6. \A a \in call[c].todo \cup call[c].hand : a = AsSeen(a.path)' /\ a.path \in Rows'
    BY <2>1, CurrentKept
  <2>7. Faithful(c)' /\ Sure(c)'
    BY <2>1, <2>3, <2>6 DEF Faithful, Sure, Current, BackfillPc
  <2> QED
    BY <2>4, <2>5, <2>7 DEF Good
<1>7. CASE ReconcileRow(c)
  <2>1. /\ call[c].pc = "rrow" /\ UNCHANGED <<refs, obj, used>>
        /\ Current(call[c].todo) /\ Current(call[c].hand) /\ call[c].hand \cap call[c].todo = {}
        /\ \A a \in call[c].hand : a.key \notin Shared
    BY <1>0, <1>7 DEF ReconcileRow, At, Faithful, Reading, Holding, Sure
  <2>2. PICK a \in call[c].hand :
          Drop(a) /\ call' = [call EXCEPT ![c].pc = "rquota", ![c].hand = @ \ {a}]
    BY <1>7 DEF ReconcileRow
  <2>3. call'[c].pc = "rquota" /\ call'[c].hand = call[c].hand \ {a} /\ call'[c].todo = call[c].todo
    BY <1>0, <2>2 DEF Call
  <2>4. a = AsSeen(a.path) /\ a.path \in Rows /\ a.path \in Path /\ a.key \notin Shared
    BY <1>03, <2>1, <2>2 DEF Current
  <2>5. row' = [row EXCEPT ![a.path] = NoRow(a.path)] /\ NoRow(a.path).status = "absent"
    BY <2>2, <2>4 DEF Drop, Exists, AsSeen, NoRow
  <2>6. Rows' = Rows \ {a.path} /\ \A k : Referring(k)' = Referring(k) \ {a.path}
    BY <2>4, <2>5, RowSet
  <2>7. \A k \in Content : Referring(k)' = Referring(k)
    <3>1. \A k \in Content : a.path \notin Referring(k)
      BY <1>02, <2>4, RefersTo
    <3> QED
      BY <2>6, <3>1
  <2>8. Counted(c)' /\ Stored(c)'
    BY <2>1, <2>3, <2>7, PlainPcs, PlainStep DEF PlainPc
  <2>9. Charged(c)'
    BY <1>0, <2>1, <2>3, <2>4, <2>6, Sizes DEF Charged
  <2>10. \A b \in call[c].todo \cup (call[c].hand \ {a}) : b.path # a.path
    BY <2>1, <2>2, PathsDiffer DEF Current
  <2>11. Current(call[c].todo \cup (call[c].hand \ {a}))
    BY <2>1 DEF Current
  <2>12. \A b \in call[c].todo \cup (call[c].hand \ {a}) : b = AsSeen(b.path)' /\ b.path \in Rows'
    BY <2>4, <2>5, <2>10, <2>11, CurrentApart
  <2>13. Faithful(c)' /\ Sure(c)'
    BY <2>1, <2>3, <2>12 DEF Faithful, Sure, Current, BackfillPc
  <2> QED
    BY <2>8, <2>9, <2>13 DEF Good
<1> QED
  BY <1>1, <1>2, <1>3, <1>4, <1>5, <1>6, <1>7 DEF Reconcile

-----------------------------------------------------------------------------
(* The invariant.                                                            *)

LEMMA ExactInit ==
  ASSUME Init
  PROVE  Exact
<1>1. Undisturbed => OneBusy /\ \A c \in Caller : Others(c) => Good(c)
  <2> SUFFICES ASSUME NEW c \in Caller
               PROVE  OneBusy /\ Good(c)
    BY DEF OneBusy
  <2>1. \A d \in Caller : call[d].pc = "idle"
    BY DEF Init, Idle
  <2>2. OneBusy /\ Faithful(c) /\ Sure(c)
    BY <2>1 DEF OneBusy, At, Faithful, Sure, Reading, Holding, BackfillPc
  <2>3. Rows = {} /\ \A k : Referring(k) = {}
    BY DEF Init, Rows, Referring, NoRow
  <2>4. \A k \in Content : refs[k] = 0 /\ obj[SharedKey(k)] = None
    BY Keys DEF Init
  <2>5. \A k \in Content : Calm(k)
    BY <2>3, <2>4, FS_EmptySet DEF Calm
  <2>6. Counted(c) /\ Stored(c)
    BY <2>1, <2>5, PlainPcs, PlainCalm DEF PlainPc
  <2>7. Charged(c)
    BY <2>1, <2>3, FS_EmptySet DEF Charged, Init
  <2> QED
    BY <2>2, <2>6, <2>7 DEF Good
<1> QED
  BY <1>1 DEF Exact

\* Every call but a beginning one is at work already; one that begins while others
\* are at work is known to overlap.
LEMMA BusyOrBegins ==
  ASSUME TypeOK, NEW c \in Caller, Upload(c) \/ Request(c) \/ Sweep(c) \/ Backfill(c) \/ Reconcile(c)
  PROVE  \/ call[c].pc # "idle"
         \/ (\A d \in Caller : At(d, "idle")) \/ "overlap" \in happened'
<1>b. ASSUME NEW x, Begin(c, x)
      PROVE  (\A d \in Caller : At(d, "idle")) \/ "overlap" \in happened'
  BY <1>b DEF Begin, Happens
<1>1. CASE Upload(c)
  BY <1>b, <1>1 DEF Upload, UploadBegin, UploadClaim, UploadPut, UploadRecord, UploadBump, UploadUnbump,
                    UploadRelease, UploadErase, At
<1>2. CASE Request(c)
  BY <1>b, <1>2 DEF Request, SoftDelete, Restore, ApiDelete
<1>3. CASE Sweep(c)
  BY <1>b, <1>3 DEF Sweep, SweepBegin, SweepNext, SweepRelease, SweepErase, SweepContent, SweepRow,
                    SweepQuota, SweepFail, At
<1>4. CASE Backfill(c)
  BY <1>b, <1>4 DEF Backfill, BackfillBegin, BackfillNext, BackfillClaim, BackfillMove, BackfillLink,
                    BackfillFail, At
<1>5. CASE Reconcile(c)
  BY <1>b, <1>5 DEF Reconcile, ReconcileBegin, ReconcileList, ReconcileRefs, ReconcileOrphan,
                    ReconcileMissing, ReconcileQuota, ReconcileRow, At
<1> QED
  BY <1>1, <1>2, <1>3, <1>4, <1>5

\* What is good for a caller at rest is good for any other at rest.
RestAlike == \A c, d \in Caller : Good(c) /\ At(c, "idle") /\ At(d, "idle") => Good(d)

LEMMA GoodForAll == RestAlike
<1> SUFFICES ASSUME NEW c \in Caller, NEW d \in Caller, Good(c), At(c, "idle"), At(d, "idle")
             PROVE  Good(d)
  BY DEF RestAlike
<1>1. call[c].pc = "idle" /\ call[d].pc = "idle"
  BY DEF At
<1>2. \A k \in Content : Calm(k)
  BY <1>1, PlainPcs, PlainCalm DEF PlainPc, Good
<1>3. Counted(d) /\ Stored(d)
  BY <1>1, <1>2, PlainPcs, PlainCalm DEF PlainPc
<1> QED
  BY <1>1, <1>3 DEF Good, Charged, Faithful, Sure, Reading, Holding, BackfillPc

LEMMA ExactNext ==
  ASSUME IInv, Exact, Next
  PROVE  Exact'
<1>0. TypeOK /\ HandsOK /\ CallTyped
  BY DEF IInv, TypeOK, CallTyped
<1>1. PICK c \in Caller : Upload(c) \/ Request(c) \/ Sweep(c) \/ Backfill(c) \/ Reconcile(c) \/ Fail(c)
  BY DEF Next
<1>2. (\A d \in Caller \ {c} : call'[d] = call[d]) /\ happened \subseteq happened'
  BY <1>0, <1>1, OnlyOneMoves DEF OthersStay
<1> SUFFICES ASSUME Undisturbed'
             PROVE  OneBusy' /\ \A d \in Caller : Others(d)' => Good(d)'
  BY <1>1 DEF Exact
<1>3. Undisturbed /\ happened' \cap {"failure", "uncounted"} = {} /\ "overlap" \notin happened'
  BY <1>2 DEF Undisturbed
<1>4. OneBusy /\ \A d \in Caller : Others(d) => Good(d)
  BY <1>3 DEF Exact
<1>5. ~Fail(c)
  BY <1>3 DEF Fail, FailOn, Happens
<1>6. Others(c)
  BY <1>0, <1>1, <1>3, <1>4, <1>5, BusyOrBegins DEF Others, OneBusy, At
<1>7. Good(c)
  BY <1>4, <1>6
<1>8. Good(c)'
  BY <1>0, <1>1, <1>3, <1>5, <1>7, UploadGood, RequestGood, SweepGood, BackfillGood, ReconcileGood
<1>9. \A d \in Caller : d # c => call'[d].pc = "idle"
  BY <1>2, <1>6 DEF Others, At
<1>10. OneBusy'
  BY <1>9 DEF OneBusy, At
<1>11. RestAlike'
  BY GoodForAll, PTL
<1>12. ASSUME NEW d \in Caller, Others(d)', d # c
       PROVE  Good(d)'
  <2>1. At(c, "idle")' /\ At(d, "idle")'
    BY <1>9, <1>12 DEF Others, At
  <2> QED
    BY <1>8, <1>11, <2>1 DEF RestAlike
<1> QED
  BY <1>8, <1>10, <1>12

LEMMA ExactStays ==
  ASSUME IInv, Exact, [Next]_vars
  PROVE  Exact'
<1>1. CASE UNCHANGED vars
  <2>1. \A c \in Caller : Counted(c)' = Counted(c) /\ Stored(c)' = Stored(c) /\ Charged(c)' = Charged(c)
    BY <1>1 DEF vars, Counted, Stored, Charged, Claims, Drops, Storing, Referring, Rows
  <2>2. \A c \in Caller : Faithful(c)' = Faithful(c) /\ Sure(c)' = Sure(c)
    BY <1>1 DEF vars, Faithful, Sure, Current, AsSeen, Rows
  <2> QED
    BY <1>1, <2>1, <2>2 DEF vars, Exact, Undisturbed, OneBusy, Others, At, Good, Init
<1> QED
  BY <1>1, ExactNext

LEMMA ExactInvariant == Spec => [](IInv /\ Exact)
<1>1. Init => IInv /\ Exact
  BY InitIInv, ExactInit
<1>2. IInv /\ Exact /\ [Next]_vars => IInv' /\ Exact'
  BY NextIInv, ExactStays
<1> QED
  BY <1>1, <1>2, PTL DEF Spec

\* Between calls, none of which failed, overlapped or was undone, there is nobody
\* who claims, drops or stores.
LEMMA RestIsCalm ==
  ASSUME Exact, AtRest, Undisturbed
  PROVE  Cardinality(Rows) = used /\ \A k \in Content : Calm(k)
<1>1. CASE Caller = {}
  <2>1. Rows = {} /\ (\A k : Referring(k) = {}) /\ used = 0
    BY <1>1 DEF Exact, Init, Rows, Referring, NoRow
  <2>2. \A k \in Content : refs[k] = 0 /\ obj[SharedKey(k)] = None
    BY <1>1, Keys DEF Exact, Init
  <2> QED
    BY <2>1, <2>2, FS_EmptySet DEF Calm
<1>2. CASE Caller # {}
  <2>1. PICK c \in Caller : Good(c) /\ call[c].pc = "idle"
    BY <1>2 DEF Exact, AtRest, At, Others
  <2> QED
    BY <2>1, PlainPcs, PlainCalm DEF PlainPc, Good, Charged
<1> QED
  BY <1>1, <1>2

\* Calls one after the other, none of which failed or was undone, whatever they are
\* (uploads, deletions, restorations, sweeps, backfills, reconcilers) and however
\* many: each content is counted once for each file that refers to it, those in the
\* bin included, and is stored exactly while it is counted.
THEOREM CountsAreExact == Spec => []CountsExact
<1>1. IInv /\ Exact => CountsExact
  BY RestIsCalm DEF CountsExact, Calm
<1> QED
  BY <1>1, ExactInvariant, PTL

\* After such calls the owner's quota in use is the number of his rows (uploads
\* charge it, the bin and the reconciler give it back, never twice for a row).
THEOREM QuotaFollowsTheRows == Spec => []QuotaFollowsRows
<1>1. IInv /\ Exact => QuotaFollowsRows
  BY RestIsCalm DEF QuotaFollowsRows
<1> QED
  BY <1>1, ExactInvariant, PTL

-----------------------------------------------------------------------------
(* A pass of the reconciler that nobody disturbs.                            *)

Explained(x) == (\E p \in Rows : row[p].key = x) \/ KeepsReferred(x)
Suspected(S) == \A p \in Rows : obj[row[p].key] # None \/ AsSeen(p) \in S

\* What it has read is still so: first it knows all rows, then all keys, then every
\* object that nothing explains and no key of a row, then every row without object.
Knows(c) ==
  /\ call[c].pc \in ReconcilePc => Current(call[c].todo)
  /\ call[c].pc \in {"rlist", "rrefs"} => \A p \in Rows : AsSeen(p) \in call[c].todo
  /\ call[c].pc = "rrefs" => call[c].keys = {x \in Key : obj[x] # None}
  /\ call[c].pc = "orphan" =>
       /\ \A x \in Key : obj[x] # None => x \in call[c].keys \/ Explained(x)
       /\ \A p \in Rows : row[p].key \notin call[c].keys
  /\ call[c].pc \in {"missing", "rquota", "rrow"} => \A x \in Key : obj[x] # None => Explained(x)
  /\ call[c].pc \in {"orphan", "missing"} => Suspected(call[c].todo)
  /\ call[c].pc \in {"rquota", "rrow"} =>
       /\ Suspected(call[c].todo \cup call[c].hand)
       /\ Current(call[c].hand) /\ call[c].hand \cap call[c].todo = {}
       /\ \A a \in call[c].hand : obj[a.key] = None

\* moved names all who have made a step since the last call began.
PassKnows == \A c \in Caller : moved \subseteq {c} => Knows(c)

\* Rows and objects are as they were.
LEMMA StoreKept ==
  ASSUME row' = row, obj' = obj, refs' = refs
  PROVE  /\ Rows' = Rows
         /\ \A x : Explained(x)' <=> Explained(x)
         /\ \A S : (\A p \in Rows : obj[row[p].key] # None \/ AsSeen(p) \in S)
                     <=> \A p \in Rows' : obj'[row'[p].key] # None \/ AsSeen(p)' \in S
BY DEF Rows, Explained, KeepsReferred, AsSeen

\* A step that leaves no trace of a failure or of anybody else.
LEMMA ReconcileKnows ==
  ASSUME TypeOK, NEW c \in Caller, Reconcile(c), moved \subseteq {c} => Knows(c), moved' \subseteq {c}
  PROVE  Knows(c)'
<1>0. /\ call \in [Caller -> Call] /\ call[c] \in Call /\ row \in [Path -> Row]
      /\ obj \in [Key -> Content \cup {None}]
      /\ \A a \in Seen : a.path \in Path /\ a.key \in Key
      /\ \A p \in Path : row[p].key \in Key
  BY DEF TypeOK, Call, Seen, Row
<1>01. ~FailOn(c)
  BY StoreAssumption DEF FailOn
<1>02. call[c].hand \in SUBSET Seen /\ call[c].todo \in SUBSET Seen /\ call[c].keys \in SUBSET Key
  BY <1>0 DEF Call
<1>1. CASE ReconcileBegin(c)
  <2>1. /\ call'[c].pc = "rlist" /\ call'[c].todo = {AsSeen(p) : p \in Rows} /\ UNCHANGED row
    BY <1>0, <1>1 DEF ReconcileBegin, Begin, At, Idle
  <2>2. Current({AsSeen(p) : p \in Rows})
    BY ReadNow
  <2>3. \A a \in {AsSeen(p) : p \in Rows} : a = AsSeen(a.path)' /\ a.path \in Rows'
    BY <2>1, <2>2, CurrentKept
  <2>4. \A p \in Rows' : AsSeen(p)' \in {AsSeen(q) : q \in Rows}
    BY <2>1, RowsKept
  <2> QED
    BY <2>1, <2>3, <2>4 DEF Knows, Current
<1>2. ASSUME ~ReconcileBegin(c)
      PROVE  Knows(c) /\ GoOn(c)
  <2>1. GoOn(c)
    BY <1>01, <1>2 DEF Reconcile, ReconcileList, ReconcileRefs, ReconcileOrphan, ReconcileMissing,
                       ReconcileQuota, ReconcileRow
  <2> QED
    BY <2>1 DEF GoOn
<1>3. CASE ReconcileList(c)
  <2>1. /\ call[c].pc = "rlist" /\ UNCHANGED <<row, refs, obj>>
        /\ call' = [call EXCEPT ![c].pc = "rrefs", ![c].keys = {x \in Key : obj[x] # None}]
    BY <1>01, <1>3 DEF ReconcileList, At
  <2>2. /\ call'[c].pc = "rrefs" /\ call'[c].todo = call[c].todo
        /\ call'[c].keys = {x \in Key : obj[x] # None}
    BY <1>0, <2>1 DEF Call
  <2>3. Current(call[c].todo) /\ \A p \in Rows : AsSeen(p) \in call[c].todo
    BY <1>2, <1>3, <2>1 DEF Knows, ReconcilePc, ReconcileBegin, Begin, At
  <2>4. \A a \in call[c].todo : a = AsSeen(a.path)' /\ a.path \in Rows'
    BY <2>1, <2>3, CurrentKept
  <2>5. \A p \in Rows' : AsSeen(p)' \in call[c].todo
    BY <2>1, <2>3, RowsKept
  <2> QED
    BY <2>1, <2>2, <2>4, <2>5 DEF Knows, Current
<1>4. CASE ReconcileRefs(c)
  <2>1. call[c].pc = "rrefs" /\ UNCHANGED <<row, refs, obj>>
    BY <1>4 DEF ReconcileRefs, At
  <2>2. PICK K, T : K = call[c].keys /\ T = call[c].todo
    OBVIOUS
  <2>3. /\ call'[c].pc = "orphan"
        /\ call'[c].keys = {x \in K : (\A a \in T : a.key # x) /\ ~KeepsReferred(x)}
        /\ call'[c].todo = {a \in T : a.key \notin K}
    BY <1>0, <1>4, <2>2 DEF ReconcileRefs, Call
  <2>4. Current(T) /\ (\A p \in Rows : AsSeen(p) \in T) /\ K = {x \in Key : obj[x] # None}
    BY <1>2, <1>4, <2>1, <2>2 DEF Knows, ReconcilePc, ReconcileBegin, Begin, At
  <2>5. \A x \in Key : obj[x] # None => x \in call'[c].keys \/ Explained(x)
    <3> SUFFICES ASSUME NEW x \in Key, obj[x] # None, x \notin call'[c].keys, ~KeepsReferred(x)
                 PROVE  \E p \in Rows : row[p].key = x
      BY DEF Explained
    <3>1. PICK a \in T : a.key = x
      BY <2>3, <2>4
    <3>2. a = AsSeen(a.path) /\ a.path \in Rows
      BY <2>4 DEF Current
    <3> QED
      BY <3>1, <3>2 DEF AsSeen
  <2>6. \A p \in Rows : row[p].key \notin call'[c].keys
    BY <2>3, <2>4 DEF AsSeen
  <2>7. \A p \in Rows : obj[row[p].key] # None \/ AsSeen(p) \in call'[c].todo
    BY <2>3, <2>4 DEF AsSeen
  <2>8. \A a \in T : a = AsSeen(a.path)' /\ a.path \in Rows'
    BY <2>1, <2>4, CurrentKept
  <2>9. /\ \A x \in Key : obj'[x] # None => x \in call'[c].keys \/ Explained(x)'
        /\ \A p \in Rows' : row'[p].key \notin call'[c].keys
        /\ \A p \in Rows' : obj'[row'[p].key] # None \/ AsSeen(p)' \in call'[c].todo
    BY <2>1, <2>5, <2>6, <2>7, StoreKept
  <2> QED
    BY <2>3, <2>8, <2>9 DEF Knows, Current, Suspected
<1>5. CASE ReconcileOrphan(c)
  <2>1. call[c].pc = "orphan" /\ UNCHANGED <<row, refs>>
    BY <1>5 DEF ReconcileOrphan, At
  <2>2. /\ Current(call[c].todo) /\ Suspected(call[c].todo)
        /\ \A x \in Key : obj[x] # None => x \in call[c].keys \/ Explained(x)
        /\ \A p \in Rows : row[p].key \notin call[c].keys
    BY <1>2, <1>5, <2>1 DEF Knows, ReconcilePc, ReconcileBegin, Begin, At
  <2>3. \A a \in call[c].todo : a = AsSeen(a.path)' /\ a.path \in Rows'
    BY <2>1, <2>2, CurrentKept
  <2>4. \A x : Explained(x)' <=> Explained(x)
    BY <2>1 DEF Explained, Rows, KeepsReferred
  <2>5. CASE call[c].keys = {} /\ Goto(c, "missing") /\ UNCHANGED obj
    <3>1. call'[c].pc = "missing" /\ call'[c].todo = call[c].todo
      BY <2>5, GotoTurns DEF Turned
    <3>2. Suspected(call[c].todo)'
      BY <2>1, <2>2, <2>5, <3>1, RowsKept DEF Suspected
    <3>3. \A x \in Key : obj'[x] # None => Explained(x)'
      BY <2>2, <2>4, <2>5
    <3> QED
      BY <2>3, <3>1, <3>2, <3>3 DEF Knows, Current
  <2>6. ASSUME NEW x \in call[c].keys, call' = [call EXCEPT ![c].keys = @ \ {x}], obj' = [obj EXCEPT ![x] = None]
        PROVE  Knows(c)'
    <3>1. call'[c].pc = "orphan" /\ call'[c].todo = call[c].todo /\ call'[c].keys = call[c].keys \ {x}
      BY <1>0, <2>1, <2>6 DEF Call
    <3>2. \A y \in Key : obj'[y] = IF y = x THEN None ELSE obj[y]
      BY <1>0, <1>02, <2>6
    <3>3. \A y \in Key : obj'[y] # None => y \in call'[c].keys \/ Explained(y)'
      BY <2>2, <2>4, <3>1, <3>2
    <3>4. \A p \in Rows : row[p].key \in Key /\ row[p].key # x
      BY <1>0, <2>2 DEF Rows
    <3>5. Suspected(call[c].todo)'
      BY <2>1, <2>2, <3>1, <3>2, <3>4, RowsKept DEF Suspected
    <3>6. \A p \in Rows' : row'[p].key \notin call'[c].keys
      BY <2>1, <2>2, <3>1, RowsKept
    <3> QED
      BY <2>3, <3>1, <3>3, <3>5, <3>6 DEF Knows, Current
  <2> QED
    BY <1>01, <1>5, <2>5, <2>6 DEF ReconcileOrphan
<1>6. CASE ReconcileMissing(c)
  <2>1. call[c].pc = "missing" /\ UNCHANGED <<row, refs, obj>>
    BY <1>6 DEF ReconcileMissing, At
  <2>2. CASE Return(c)
    <3>1. call'[c].pc = "idle"
      BY <2>2, ReturnTurns DEF Idle
    <3> QED
      BY <3>1 DEF Knows, ReconcilePc
  <2>3. ASSUME NEW x, NEW R, R = {a \in call[c].todo : a.key = x},
               call' = [call EXCEPT ![c].todo = call[c].todo \ R, ![c].hand = IF obj[x] = None THEN R ELSE {},
                          ![c].pc = IF obj[x] = None THEN "rquota" ELSE "missing"]
        PROVE  Knows(c)'
    <3>1. /\ call'[c].todo = call[c].todo \ R
          /\ call'[c].hand = IF obj[x] = None THEN R ELSE {}
          /\ call'[c].pc = IF obj[x] = None THEN "rquota" ELSE "missing"
      BY <1>0, <2>3 DEF Call
    <3>2. /\ Current(call[c].todo) /\ Suspected(call[c].todo)
          /\ \A y \in Key : obj[y] # None => Explained(y)
      BY <1>2, <1>6, <2>1 DEF Knows, ReconcilePc, ReconcileBegin, Begin, At
    <3>3. \A a \in call[c].todo : a = AsSeen(a.path)' /\ a.path \in Rows'
      BY <2>1, <3>2, CurrentKept
    <3>4. \A y \in Key : obj'[y] # None => Explained(y)'
      BY <2>1, <3>2, StoreKept
    <3>5. CASE obj[x] = None
      <4>1. call'[c].pc = "rquota" /\ call'[c].hand = R /\ call'[c].todo \cup call'[c].hand = call[c].todo
        <5>1. R \subseteq call[c].todo
          BY <2>3
        <5> QED
          BY <3>1, <3>5, <5>1
      <4>2. \A p \in Rows' : obj'[row'[p].key] # None \/ AsSeen(p)' \in call'[c].todo \cup call'[c].hand
        BY <2>1, <3>2, <4>1, RowsKept DEF Suspected
      <4>3. \A a \in R : obj'[a.key] = None
        BY <2>1, <2>3, <3>5
      <4> QED
        BY <2>3, <3>1, <3>3, <3>4, <4>1, <4>2, <4>3 DEF Knows, Current, Suspected
    <3>6. CASE obj[x] # None
      <4>1. \A p \in Rows : obj[row[p].key] # None \/ AsSeen(p) \in call'[c].todo
        BY <2>3, <3>1, <3>2, <3>6 DEF Suspected, AsSeen
      <4>2. \A p \in Rows' : obj'[row'[p].key] # None \/ AsSeen(p)' \in call'[c].todo
        BY <2>1, <4>1, RowsKept
      <4> QED
        BY <3>1, <3>3, <3>4, <3>6, <4>2 DEF Knows, Current, Suspected
    <3> QED
      BY <3>5, <3>6
  <2> QED
    BY <1>6, <2>2, <2>3 DEF ReconcileMissing
<1>7. CASE ReconcileQuota(c)
  <2>1. call[c].pc = "rquota" /\ UNCHANGED <<row, refs, obj>>
    BY <1>7 DEF ReconcileQuota, At
  <2>2. /\ Current(call[c].todo) /\ Current(call[c].hand) /\ call[c].hand \cap call[c].todo = {}
        /\ Suspected(call[c].todo \cup call[c].hand) /\ \A a \in call[c].hand : obj[a.key] = None
        /\ \A y \in Key : obj[y] # None => Explained(y)
    BY <1>2, <1>7, <2>1 DEF Knows, ReconcilePc, ReconcileBegin, Begin, At
  <2>3. /\ call'[c].hand = call[c].hand /\ call'[c].todo = call[c].todo
        /\ call'[c].pc = IF call[c].hand = {} THEN "missing" ELSE "rrow"
    <3>1. CASE call[c].hand = {}
      BY <1>7, <3>1, GotoTurns DEF ReconcileQuota, Turned
    <3>2. CASE call[c].hand # {}
      BY <1>7, <3>2, GotoTurns DEF ReconcileQuota, Turned
    <3> QED
      BY <3>1, <3>2
  <2>4. \A a \in call[c].todo \cup call[c].hand : a = AsSeen(a.path)' /\ a.path \in Rows'
    BY <2>1, <2>2, CurrentKept
  <2>5. \A y \in Key : obj'[y] # None => Explained(y)'
    BY <2>1, <2>2, StoreKept
  <2>6. \A p \in Rows' : obj'[row'[p].key] # None \/ AsSeen(p)' \in call'[c].todo \cup call'[c].hand
    BY <2>1, <2>2, <2>3, RowsKept DEF Suspected
  <2>7. \A a \in call[c].hand : obj'[a.key] = None
    BY <2>1, <2>2
  <2> QED
    BY <2>2, <2>3, <2>4, <2>5, <2>6, <2>7 DEF Knows, Current, Suspected
<1>8. CASE ReconcileRow(c)
  <2>1. call[c].pc = "rrow" /\ UNCHANGED <<refs, obj>>
    BY <1>8 DEF ReconcileRow, At
  <2>2. /\ Current(call[c].todo) /\ Current(call[c].hand) /\ call[c].hand \cap call[c].todo = {}
        /\ Suspected(call[c].todo \cup call[c].hand) /\ \A a \in call[c].hand : obj[a.key] = None
        /\ \A y \in Key : obj[y] # None => Explained(y)
    BY <1>2, <1>8, <2>1 DEF Knows, ReconcilePc, ReconcileBegin, Begin, At
  <2>3. PICK a \in call[c].hand :
          Drop(a) /\ call' = [call EXCEPT ![c].pc = "rquota", ![c].hand = @ \ {a}]
    BY <1>8 DEF ReconcileRow
  <2>4. call'[c].pc = "rquota" /\ call'[c].hand = call[c].hand \ {a} /\ call'[c].todo = call[c].todo
    BY <1>0, <2>3 DEF Call
  <2>5. a = AsSeen(a.path) /\ a.path \in Rows /\ a.path \in Path /\ obj[a.key] = None
    BY <1>0, <1>02, <2>2, <2>3 DEF Current
  <2>6. row' = [row EXCEPT ![a.path] = NoRow(a.path)] /\ NoRow(a.path).status = "absent"
    BY <2>3, <2>5 DEF Drop, Exists, AsSeen, NoRow
  <2>7. Rows' = Rows \ {a.path} /\ \A q \in Path \ {a.path} : AsSeen(q)' = AsSeen(q)
    BY <2>5, <2>6, RowSet
  <2>8. \A q \in Rows' : row'[q].key = row[q].key /\ AsSeen(q)' = AsSeen(q) /\ q \in Rows /\ q # a.path
    BY <1>0, <2>6, <2>7 DEF Rows
  <2>9. \A b \in call[c].todo \cup (call[c].hand \ {a}) : b.path # a.path
    BY <2>2, <2>3, PathsDiffer DEF Current
  <2>10. Current(call[c].todo \cup (call[c].hand \ {a}))
    BY <2>2 DEF Current
  <2>11. \A b \in call[c].todo \cup (call[c].hand \ {a}) : b = AsSeen(b.path)' /\ b.path \in Rows'
    BY <2>5, <2>6, <2>9, <2>10, CurrentApart
  <2>12. ASSUME NEW y \in Key, obj'[y] # None
         PROVE  Explained(y)'
    <3>1. CASE KeepsReferred(y)
      BY <2>1, <3>1 DEF Explained, KeepsReferred
    <3>2. CASE \E p \in Rows : row[p].key = y
      <4>1. PICK p \in Rows : row[p].key = y
        BY <3>2
      <4>2. p # a.path
        BY <2>1, <2>5, <2>12, <4>1 DEF AsSeen
      <4>3. p \in Rows' /\ row'[p].key = y
        BY <2>7, <2>8, <4>1, <4>2
      <4> QED
        BY <4>3 DEF Explained
    <3> QED
      BY <2>1, <2>2, <2>12, <3>1, <3>2 DEF Explained
  <2>13. \A q \in Rows' : obj'[row'[q].key] # None \/ AsSeen(q)' \in call'[c].todo \cup call'[c].hand
    <3>1. \A q \in Rows' : AsSeen(q) # a
      <4>1. \A q : AsSeen(q).path = q
        BY DEF AsSeen
      <4> QED
        BY <2>8, <4>1
    <3> QED
      BY <2>1, <2>2, <2>4, <2>8, <3>1 DEF Suspected
  <2> QED
    BY <2>1, <2>2, <2>4, <2>11, <2>12, <2>13 DEF Knows, Current, Suspected
<1> QED
  BY <1>1, <1>3, <1>4, <1>5, <1>6, <1>7, <1>8 DEF Reconcile

\* Every step is marked with who has made it, and with its failure.
LEMMA StepsAreMarked ==
  ASSUME NEW c \in Caller, Upload(c) \/ Request(c) \/ Sweep(c) \/ Backfill(c) \/ Reconcile(c) \/ Fail(c)
  PROVE  c \in moved'
<1>b. ASSUME NEW x, Begin(c, x) PROVE c \in moved'
  BY <1>b DEF Begin
<1>g. ASSUME GoOn(c) \/ FailOn(c) PROVE c \in moved'
  BY <1>g DEF GoOn, FailOn
<1>1. CASE Upload(c)
  BY <1>b, <1>g, <1>1 DEF Upload, UploadBegin, UploadClaim, UploadPut, UploadRecord, UploadBump, UploadUnbump,
                          UploadRelease, UploadErase
<1>2. CASE Request(c)
  BY <1>b, <1>2 DEF Request, SoftDelete, Restore, ApiDelete
<1>3. CASE Sweep(c)
  BY <1>b, <1>g, <1>3 DEF Sweep, SweepBegin, SweepNext, SweepRelease, SweepErase, SweepContent, SweepRow,
                          SweepQuota, SweepFail
<1>4. CASE Backfill(c)
  BY <1>b, <1>g, <1>4 DEF Backfill, BackfillBegin, BackfillNext, BackfillClaim, BackfillMove, BackfillLink,
                          BackfillFail
<1>5. CASE Reconcile(c)
  BY <1>b, <1>g, <1>5 DEF Reconcile, ReconcileBegin, ReconcileList, ReconcileRefs, ReconcileOrphan,
                          ReconcileMissing, ReconcileQuota, ReconcileRow
<1>6. CASE Fail(c)
  BY <1>g, <1>6 DEF Fail
<1> QED
  BY <1>1, <1>2, <1>3, <1>4, <1>5, <1>6

LEMMA PassNext ==
  ASSUME TypeOK, PassKnows, [Next]_vars
  PROVE  PassKnows'
<1>1. CASE UNCHANGED vars
  BY <1>1 DEF vars, PassKnows, Knows, Current, Suspected, Explained, KeepsReferred, AsSeen, Rows
<1>2. CASE Next
  <2> SUFFICES ASSUME NEW c \in Caller, moved' \subseteq {c}
               PROVE  Knows(c)'
    BY DEF PassKnows
  <2>1. PICK d \in Caller : Upload(d) \/ Request(d) \/ Sweep(d) \/ Backfill(d) \/ Reconcile(d) \/ Fail(d)
    BY <1>2 DEF Next
  <2>2. d = c
    BY <2>1, StepsAreMarked
  <2>3. CASE Reconcile(c)
    BY <2>3, ReconcileKnows DEF PassKnows
  <2>4. CASE Upload(c) \/ Request(c) \/ Sweep(c) \/ Backfill(c) \/ Fail(c)
    <3>1. call'[c].pc \notin ReconcilePc
      BY <2>4, TypeParts, UploadGoes, RequestGoes, SweepGoes, BackfillGoes
         DEF ReconcilePc, UploadPc, SweepPc, BackfillPc
    <3> QED
      BY <3>1 DEF Knows, ReconcilePc
  <2> QED
    BY <2>1, <2>2, <2>3, <2>4
<1> QED
  BY <1>1, <1>2

\* A reconciler's pass during which nobody else made a step and nothing failed leaves
\* no row without its object, and no object without a row or a count, whatever state
\* it has found (artifact_reconcile_once).
THEOREM PassReconciles == Spec => Reconciled
<1>1. Init => PassKnows
  BY DEF Init, Idle, PassKnows, Knows, ReconcilePc
<1>2. TypeOK /\ PassKnows /\ [Next]_vars => PassKnows'
  BY PassNext
<1>3. ASSUME TypeOK, PassKnows, [Next]_vars
      PROVE  [\A c \in Caller :
               At(c, "missing") /\ call'[c].pc = "idle" /\ moved' = {c} =>
                 /\ \A p \in Rows : obj[row[p].key] # None
                 /\ \A x \in Key : obj[x] # None =>
                      \/ \E p \in Rows : row[p].key = x
                      \/ x \in Shared /\ refs[x[2]] > 0]_vars
  <2> SUFFICES ASSUME NEW c \in Caller, At(c, "missing"), call'[c].pc = "idle", moved' = {c}
               PROVE  /\ \A p \in Rows : obj[row[p].key] # None
                      /\ \A x \in Key : obj[x] # None => Explained(x)
    BY DEF Explained, KeepsReferred
  <2>1. Next
    BY <1>3 DEF vars, At
  <2>2. PICK d \in Caller : Upload(d) \/ Request(d) \/ Sweep(d) \/ Backfill(d) \/ Reconcile(d) \/ Fail(d)
    BY <2>1 DEF Next
  <2>3. d = c
    BY <2>2, StepsAreMarked
  <2>4. ~FailOn(c)
    BY StoreAssumption DEF FailOn
  <2>5. ReconcileMissing(c)
    <3>1. ~Upload(c)
      BY DEF Upload, UploadBegin, UploadClaim, UploadPut, UploadRecord, UploadBump, UploadUnbump,
             UploadRelease, UploadErase, Begin, At
    <3>2. ~Sweep(c)
      BY DEF Sweep, SweepBegin, SweepNext, SweepRelease, SweepErase, SweepContent, SweepRow, SweepQuota,
             SweepFail, Begin, At
    <3>3. ~Backfill(c)
      BY DEF Backfill, BackfillBegin, BackfillNext, BackfillClaim, BackfillMove, BackfillLink, BackfillFail,
             Begin, At
    <3>4. ~Request(c) /\ ~Fail(c)
      BY <2>4 DEF Request, SoftDelete, Restore, ApiDelete, Fail, Begin, At
    <3> QED
      BY <2>2, <2>3, <3>1, <3>2, <3>3, <3>4
         DEF Reconcile, ReconcileBegin, ReconcileList, ReconcileRefs, ReconcileOrphan, ReconcileQuota,
             ReconcileRow, Begin, At
  <2>6. moved \subseteq {c} /\ call[c].pc = "missing"
    BY <2>5 DEF ReconcileMissing, GoOn, At
  <2>7. Suspected(call[c].todo) /\ \A x \in Key : obj[x] # None => Explained(x)
    <3>1. Knows(c)
      BY <1>3, <2>6 DEF PassKnows
    <3> QED
      BY <2>6, <3>1 DEF Knows
  <2>8. call[c].todo = {}
    <3>1. ASSUME NEW R, NEW x,
                 call' = [call EXCEPT ![c].todo = @ \ R, ![c].hand = IF obj[x] = None THEN R ELSE {},
                            ![c].pc = IF obj[x] = None THEN "rquota" ELSE "missing"]
          PROVE  call'[c].pc # "idle"
      BY <1>3, <3>1 DEF TypeOK, Call
    <3> QED
      BY <2>5, <3>1 DEF ReconcileMissing
  <2> QED
    BY <2>7, <2>8 DEF Suspected
<1> QED
  BY <1>1, <1>2, <1>3, StoreTypeCorrect, PTL DEF Spec, Reconciled
=============================================================================
