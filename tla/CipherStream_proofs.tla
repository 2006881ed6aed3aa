------------------------- MODULE CipherStream_proofs -------------------------
(***************************************************************************)
(* Proofs about CipherStream: however a plain text is cut into pieces,     *)
(* what is stored is what encrypt makes of it; and however the stored text *)
(* is cut, what comes out is the beginning of the range that was asked     *)
(* for, and of an undamaged text all of it.                                *)
(***************************************************************************)
EXTENDS CipherStream, SequenceTheorems, WellFoundedInduction, TLAPS

-----------------------------------------------------------------------------
(* Joined sequences: FlattenSeq, one more piece at a time *)

\* A set of numbers has a least one.
LEMMA Least ==
  ASSUME NEW X \in SUBSET Nat, X # {}
  PROVE  \E n \in X : \A m \in X : n <= m
<1>1. IsWellFoundedOn(OpToRel(<, Nat), Nat)
  BY NatLessThanWellFounded
<1>2. PICK n \in X : \A m \in X : ~(<<m, n>> \in OpToRel(<, Nat))
  BY <1>1, WFMin
<1>3. \A m \in X : ~(m < n)
  BY <1>2 DEF OpToRel
<1> QED
  BY <1>3

\* The first n of the sequences f, one after the other.
Joined(f, n) == FlattenSeq([i \in 1 .. n |-> f[i]])
Joins(g, f, n) == g = [i \in 1 .. n |-> IF i = 1 THEN f[i] ELSE g[i - 1] \o f[i]]

\* FlattenSeq names a function by CHOOSE: the joins up to each place.
LEMMA JoinedIs ==
  ASSUME NEW f, NEW n \in Nat, n > 0
  PROVE  Joined(f, n) = (CHOOSE g : Joins(g, f, n))[n]
<1> DEFINE s == [i \in 1 .. n |-> f[i]]
<1>1. Len(s) = n
  OBVIOUS
<1>2. \A g : [i \in 1 .. n |-> IF i = 1 THEN s[i] ELSE g[i - 1] \o s[i]]
           = [i \in 1 .. n |-> IF i = 1 THEN f[i] ELSE g[i - 1] \o f[i]]
  OBVIOUS
<1>3. FlattenSeq(s) = (CHOOSE g : g = [i \in 1 .. n |-> IF i = 1 THEN s[i] ELSE g[i - 1] \o s[i]])[n]
  <2> HIDE DEF s
  <2> QED
    BY <1>1 DEF FlattenSeq
<1>4. \A g : (g = [i \in 1 .. n |-> IF i = 1 THEN s[i] ELSE g[i - 1] \o s[i]]) <=> Joins(g, f, n)
  <2> HIDE DEF s
  <2> QED
    BY <1>2 DEF Joins
<1>5. (CHOOSE g : g = [i \in 1 .. n |-> IF i = 1 THEN s[i] ELSE g[i - 1] \o s[i]]) = (CHOOSE g : Joins(g, f, n))
  <2> HIDE DEF s
  <2> QED
    BY <1>4
<1> QED
  BY <1>3, <1>5 DEF Joined

\* Each join continues the one before it.
LEMMA JoinsAt ==
  ASSUME NEW f, NEW n \in Nat, NEW g, Joins(g, f, n), NEW i \in 1 .. n
  PROVE  g[i] = IF i = 1 THEN f[i] ELSE g[i - 1] \o f[i]
<1>1. [j \in 1 .. n |-> IF j = 1 THEN f[j] ELSE g[j - 1] \o f[j]][i] = IF i = 1 THEN f[i] ELSE g[i - 1] \o f[i]
  OBVIOUS
<1>2. g = [j \in 1 .. n |-> IF j = 1 THEN f[j] ELSE g[j - 1] \o f[j]]
  BY DEF Joins
<1> QED
  BY <1>1, <1>2

\* Two ways to join agree as far as both go.
LEMMA JoinsAgree ==
  ASSUME NEW f, NEW m \in Nat, NEW n \in Nat, NEW g, NEW h, Joins(g, f, m), Joins(h, f, n),
         NEW k \in 1 .. m, k <= n
  PROVE  g[k] = h[k]
<1> DEFINE Bad == {i \in 1 .. k : g[i] # h[i]}
<1>1. SUFFICES ASSUME Bad # {} PROVE FALSE
  OBVIOUS
<1>2. PICK i \in Bad : \A j \in Bad : i <= j
  <2>1. Bad \in SUBSET Nat
    OBVIOUS
  <2> HIDE DEF Bad
  <2> QED
    BY <1>1, <2>1, Least
<1>3. i \in 1 .. m /\ i \in 1 .. n /\ g[i] # h[i]
  BY <1>2
<1>4. g[i] = IF i = 1 THEN f[i] ELSE g[i - 1] \o f[i]
  BY <1>3, JoinsAt
<1>5. h[i] = IF i = 1 THEN f[i] ELSE h[i - 1] \o f[i]
  BY <1>3, JoinsAt
<1>6. i # 1 => g[i - 1] = h[i - 1]
  <2>1. i # 1 => i - 1 \in 1 .. k /\ i - 1 \notin Bad
    BY <1>2
  <2> QED
    BY <2>1
<1> QED
  BY <1>3, <1>4, <1>5, <1>6

\* There is always a way to join.
LEMMA JoinsExist ==
  ASSUME NEW f, NEW n \in Nat
  PROVE  \E g : Joins(g, f, n)
<1> DEFINE Bad == {m \in Nat : ~\E g : Joins(g, f, m)}
<1>1. SUFFICES ASSUME Bad # {} PROVE FALSE
  OBVIOUS
<1>2. PICK m \in Bad : \A j \in Bad : m <= j
  <2>1. Bad \in SUBSET Nat
    OBVIOUS
  <2> HIDE DEF Bad
  <2> QED
    BY <1>1, <2>1, Least
<1>3. CASE m = 0
  <2>1. Joins(<<>>, f, 0)
    BY DEF Joins
  <2> QED
    BY <1>2, <1>3, <2>1
<1>4. CASE m # 0
  <2>1. m - 1 \in Nat /\ m - 1 \notin Bad
    BY <1>2, <1>4
  <2>2. PICK g : Joins(g, f, m - 1)
    BY <2>1
  <2> DEFINE h == [i \in 1 .. m |-> IF i = m THEN (IF m = 1 THEN f[m] ELSE g[m - 1] \o f[m]) ELSE g[i]]
  <2>3. \A i \in 1 .. m : h[i] = IF i = 1 THEN f[i] ELSE h[i - 1] \o f[i]
    <3> SUFFICES ASSUME NEW i \in 1 .. m PROVE h[i] = IF i = 1 THEN f[i] ELSE h[i - 1] \o f[i]
      OBVIOUS
    <3>1. CASE i = m /\ m = 1
      BY <3>1
    <3>2. CASE i = m /\ m # 1
      <4> m \in Nat
        BY <1>2
      <4>0. h[i] = IF i = m THEN (IF m = 1 THEN f[m] ELSE g[m - 1] \o f[m]) ELSE g[i]
        OBVIOUS
      <4>3. h[i] = g[m - 1] \o f[m]
        <5> HIDE DEF h
        <5> QED
          BY <3>2, <4>0
      <4>1. m - 1 \in 1 .. m /\ m - 1 # m
        BY <3>2
      <4>2. h[m - 1] = IF m - 1 = m THEN (IF m = 1 THEN f[m] ELSE g[m - 1] \o f[m]) ELSE g[m - 1]
        BY <4>1
      <4> QED
        <5> HIDE DEF h
        <5>1. h[i - 1] = g[m - 1]
          BY <3>2, <4>1, <4>2
        <5> QED
          BY <3>2, <4>3, <5>1
    <3>3. CASE i # m
      <4>1. i \in 1 .. m - 1 /\ i - 1 # m
        BY <3>3, <1>2
      <4>2. g[i] = IF i = 1 THEN f[i] ELSE g[i - 1] \o f[i]
        BY <2>2, <4>1 DEF Joins
      <4>3. h[i] = g[i] /\ (i # 1 => h[i - 1] = g[i - 1])
        BY <3>3, <4>1
      <4> QED
        BY <4>2, <4>3
    <3> QED
      BY <3>1, <3>2, <3>3
  <2>4. h = [i \in 1 .. m |-> h[i]]
    OBVIOUS
  <2>5. Joins(h, f, m)
    <3> HIDE DEF h
    <3> QED
      BY <2>3, <2>4 DEF Joins
  <2> QED
    BY <1>2, <2>5
<1> QED
  BY <1>3, <1>4

\* Joining one more.
LEMMA JoinedNone == ASSUME NEW f PROVE Joined(f, 0) = <<>>
BY DEF Joined, FlattenSeq

LEMMA JoinedMore ==
  ASSUME NEW T, NEW f, NEW n \in Nat, n # 0, f[n] \in Seq(T)
  PROVE  Joined(f, n) = Joined(f, n - 1) \o f[n]
<1> DEFINE g == CHOOSE h : Joins(h, f, n)
           p == CHOOSE h : Joins(h, f, n - 1)
<1>1. Joins(g, f, n) /\ Joins(p, f, n - 1)
  BY JoinsExist, n - 1 \in Nat
<1>2. Joined(f, n) = g[n]
  BY JoinedIs, n > 0
<1>3. n # 1 => Joined(f, n - 1) = p[n - 1]
  BY JoinedIs, n - 1 \in Nat, n # 1 => n - 1 > 0
<1> HIDE DEF g, p
<1>4. CASE n = 1
  <2>1. g[1] = f[1]
    BY <1>1, <1>4 DEF Joins
  <2>2. Joined(f, 0) \o f[1] = f[1]
    BY <1>4, JoinedNone
  <2> QED
    BY <1>2, <1>4, <2>1, <2>2
<1>5. CASE n # 1
  <2>1. g[n] = g[n - 1] \o f[n]
    <3>1. n \in 1 .. n
      OBVIOUS
    <3>2. g[n] = IF n = 1 THEN f[n] ELSE g[n - 1] \o f[n]
      BY <1>1, <3>1, JoinsAt
    <3> QED
      BY <1>5, <3>2
  <2>2. g[n - 1] = p[n - 1]
    <3>1. n - 1 \in Nat /\ n - 1 \in 1 .. n /\ n - 1 <= n - 1
      BY <1>5
    <3> QED
      BY <1>1, <3>1, JoinsAgree
  <2> QED
    BY <1>2, <1>3, <1>5, <2>1, <2>2
<1> QED
  BY <1>4, <1>5

\* Joined sequences over T are a sequence over T.
LEMMA JoinedSeq ==
  ASSUME NEW T, NEW f, NEW n \in Nat, \A i \in 1 .. n : f[i] \in Seq(T)
  PROVE  Joined(f, n) \in Seq(T)
<1> DEFINE Bad == {m \in 0 .. n : Joined(f, m) \notin Seq(T)}
<1>1. SUFFICES ASSUME Bad # {} PROVE FALSE
  OBVIOUS
<1>2. PICK m \in Bad : \A j \in Bad : m <= j
  <2>1. Bad \in SUBSET Nat
    OBVIOUS
  <2> HIDE DEF Bad
  <2> QED
    BY <1>1, <2>1, Least
<1>3. CASE m = 0
  <2>1. Joined(f, m) = <<>>
    <3> HIDE DEF Bad
    <3> QED
      BY <1>3, JoinedNone
  <2>2. <<>> \in Seq(T)
    OBVIOUS
  <2> QED
    BY <1>2, <2>1, <2>2
<1>4. CASE m # 0
  <2>1. m - 1 \in 0 .. n /\ m - 1 \notin Bad /\ m \in 1 .. n /\ m \in Nat
    BY <1>2, <1>4
  <2>2. Joined(f, m) = Joined(f, m - 1) \o f[m]
    <3>1. f[m] \in Seq(T)
      BY <2>1
    <3> HIDE DEF Bad
    <3> QED
      BY <1>4, <2>1, <3>1, JoinedMore
  <2>3. Joined(f, m - 1) \in Seq(T) /\ f[m] \in Seq(T)
    BY <2>1
  <2>4. Joined(f, m - 1) \o f[m] \in Seq(T)
    <3> HIDE DEF Bad
    <3> QED
      BY <2>3, ConcatProperties
  <2> QED
    BY <1>2, <2>2, <2>4
<1> QED
  BY <1>3, <1>4

\* One after the other: where the provers need not look into it.
Then(a, b) == a \o b

\* What comes after what comes after.
LEMMA ThenThen ==
  ASSUME NEW T, NEW a \in Seq(T), NEW b \in Seq(T), NEW c \in Seq(T)
  PROVE  Then(a, b) \in Seq(T) /\ Then(Then(a, b), c) = Then(a, Then(b, c))
<1>1. a \o b \in Seq(T)
  BY ConcatProperties
<1>2. (a \o b) \o c = a \o (b \o c)
  BY ConcatAssociative
<1> QED
  BY <1>1, <1>2 DEF Then

\* The first n of f are sequences over T; the first n of g are those of f from m on.
Pieces(T, f, n) == \A i \in 1 .. n : f[i] \in Seq(T)
Follows(g, f, m, n) == n \in Nat /\ \A i \in 1 .. n : g[i] = f[m + i]

\* Joining some, and joining those that come after them.
LEMMA JoinedJoined ==
  ASSUME NEW T, NEW f, NEW g, NEW m \in Nat, NEW n \in Nat,
         Pieces(T, f, m + n), Follows(g, f, m, n)
  PROVE  Joined(g, n) \in Seq(T) /\ Then(Joined(f, m), Joined(g, n)) = Joined(f, m + n)
<1>b. (\A i \in 1 .. m + n : f[i] \in Seq(T)) /\ (\A i \in 1 .. n : g[i] = f[m + i])
  BY DEF Pieces, Follows
<1>a. Joined(g, n) \in Seq(T)
  <2>1. \A i \in 1 .. n : m + i \in 1 .. m + n
    OBVIOUS
  <2>2. \A i \in 1 .. n : g[i] \in Seq(T)
    BY <1>b, <2>1
  <2> QED
    BY <2>2, JoinedSeq
<1> DEFINE Bad == {k \in 0 .. n : Then(Joined(f, m), Joined(g, k)) # Joined(f, m + k)}
<1>1. SUFFICES ASSUME Bad # {} PROVE FALSE
  BY <1>a
<1>2. PICK k \in Bad : \A j \in Bad : k <= j
  <2>1. Bad \in SUBSET Nat
    OBVIOUS
  <2> HIDE DEF Bad
  <2> QED
    BY <1>1, <2>1, Least
<1>3. Joined(f, m) \in Seq(T)
  <2>1. \A i \in 1 .. m : f[i] \in Seq(T)
    BY <1>b
  <2> QED
    BY <2>1, JoinedSeq
<1>4. CASE k = 0
  <2>1. Joined(g, k) = <<>>
    BY <1>4, JoinedNone
  <2>2. Then(Joined(f, m), <<>>) = Joined(f, m)
    BY <1>3, ConcatEmptySeq DEF Then
  <2> QED
    BY <1>2, <1>4, <2>1, <2>2
<1>5. CASE k # 0
  <2>1. k - 1 \in 0 .. n /\ k - 1 \notin Bad /\ k \in 1 .. n /\ k \in Nat /\ m + k \in Nat /\ m + k # 0
        /\ m + k \in 1 .. m + n
    BY <1>2, <1>5
  <2>2. g[k] = f[m + k] /\ g[k] \in Seq(T)
    BY <1>b, <2>1
  <2>3. Joined(g, k) = Then(Joined(g, k - 1), g[k])
    <3> HIDE DEF Bad
    <3> QED
      BY <1>5, <2>1, <2>2, JoinedMore DEF Then
  <2>4. Joined(f, m + k) = Then(Joined(f, m + (k - 1)), f[m + k])
    <3>1. Joined(f, m + k) = Then(Joined(f, (m + k) - 1), f[m + k])
      <4> HIDE DEF Bad
      <4> QED
        BY <2>1, <2>2, JoinedMore DEF Then
    <3> QED
      BY <2>1, <3>1, (m + k) - 1 = m + (k - 1)
  <2>5. Then(Joined(f, m), Joined(g, k - 1)) = Joined(f, m + (k - 1))
    BY <2>1
  <2>6. Joined(g, k - 1) \in Seq(T)
    <3>1. \A i \in 1 .. k - 1 : g[i] \in Seq(T)
      <4> SUFFICES ASSUME NEW i \in 1 .. k - 1 PROVE g[i] \in Seq(T)
        OBVIOUS
      <4>1. i \in 1 .. n /\ m + i \in 1 .. m + n
        BY <2>1
      <4> QED
        BY <1>b, <4>1
    <3>2. k - 1 \in Nat
      BY <2>1
    <3> HIDE DEF Bad
    <3> QED
      BY <3>1, <3>2, JoinedSeq
  <2>7. Then(Joined(f, m), Then(Joined(g, k - 1), g[k])) = Then(Then(Joined(f, m), Joined(g, k - 1)), g[k])
    <3> DEFINE x == Joined(f, m)
               y == Joined(g, k - 1)
               z == g[k]
    <3>1. x \in Seq(T) /\ y \in Seq(T) /\ z \in Seq(T)
      BY <1>3, <2>2, <2>6
    <3> HIDE DEF Bad, x, y, z
    <3>2. Then(Then(x, y), z) = Then(x, Then(y, z))
      BY <3>1, ThenThen
    <3> QED
      BY <3>2 DEF x, y, z
  <2> QED
    BY <1>2, <2>2, <2>3, <2>4, <2>5, <2>7
<1> QED
  BY <1>4, <1>5

-----------------------------------------------------------------------------
(* Blocks, frames and stretches of the plain text *)

\* The blocks of the plain text, where a frame begins, and the first n frames.
BlockSize(i) == Min({(i + 1) * Block, plain}) - i * Block
Offset(i) == HeadUnits + Min({i * Block, plain}) + 2 * i
FrameOf(i) == Frame(Positions((i - 1) * Block, Min({i * Block, plain})), i - 1)
Frames == [i \in 1 .. Blocks |-> FrameOf(i)]
SealedTo(n) == Header \o Joined(Frames, n)
\* What the header must state, and what is wanted.
Stated == declared >= Min({plain, Block})
WantedTo == IF wanted.to = -1 THEN plain ELSE wanted.to
OutTo(i) == Max({wanted.from, Min({WantedTo, i * Block})})
\* Units whose tags, if they are tags, were made for a block of the plain text.
Genuine == {u \in Units : u.kind = "tag" => u.at < Blocks /\ u.n = BlockSize(u.at)}
\* The states of the inputs: a range is asked for only within a plain text of known length.
Inputs ==
  /\ plain \in 0 .. MaxPlain /\ declared \in 0 .. MaxPlain
  /\ wanted.from \in Nat /\ wanted.to \in Int /\ (wanted.to # -1 => wanted.from < wanted.to /\ wanted.to <= plain)
  /\ wanted.to = -1 => wanted.from = 0

\* Min and Max of two.
LEMMA MinIs == ASSUME NEW a \in Int, NEW b \in Int PROVE Min({a, b}) = IF a <= b THEN a ELSE b
BY DEF Min
LEMMA MaxIs == ASSUME NEW a \in Int, NEW b \in Int PROVE Max({a, b}) = IF a <= b THEN b ELSE a
BY DEF Max

\* Multiples of a block.
LEMMA Times ==
  ASSUME NEW i \in Nat
  PROVE  i * Block \in Nat /\ (i + 1) * Block = i * Block + Block /\ Block \in Nat /\ Block > 0
BY CipherBounds

LEMMA TimesUp ==
  ASSUME NEW i \in Nat, NEW j \in Nat, i <= j
  PROVE  i * Block <= j * Block
<1>1. PICK d \in Nat : j = i + d
  BY j - i \in Nat
<1>2. j * Block = i * Block + d * Block
  BY <1>1, CipherBounds
<1>3. d * Block \in Nat /\ i * Block \in Nat
  BY CipherBounds
<1> QED
  BY <1>2, <1>3

\* A block is one of the plain text exactly if it begins before its end.
LEMMA BlocksAre ==
  ASSUME plain \in Nat
  PROVE  Blocks \in Nat /\ \A i \in Nat : i < Blocks <=> i * Block < plain
<1>1. Block \in Nat /\ Block > 0
  BY CipherBounds
<1>2. /\ Blocks \in Nat /\ Blocks * Block <= plain + Block - 1
      /\ plain + Block - 1 < Blocks * Block + Block
  <2>1. plain + Block - 1 \in Nat
    BY <1>1
  <2> QED
    BY <1>1, <2>1, Z3 DEF Blocks
<1>3. ASSUME NEW i \in Nat, i < Blocks PROVE i * Block < plain
  <2>1. (i + 1) * Block <= Blocks * Block
    BY <1>2, <1>3, TimesUp, i + 1 <= Blocks, i + 1 \in Nat
  <2> QED
    BY <1>1, <1>2, <2>1, Times, Blocks * Block \in Nat
<1>4. ASSUME NEW i \in Nat, ~(i < Blocks) PROVE ~(i * Block < plain)
  <2>1. Blocks * Block <= i * Block
    BY <1>2, <1>4, TimesUp
  <2> QED
    BY <1>1, <1>2, <2>1, Times, Blocks * Block \in Nat
<1> QED
  BY <1>2, <1>3, <1>4

\* How long a block is and where its frame begins.
LEMMA SizesAre ==
  ASSUME plain \in Nat, NEW i \in Nat, i < Blocks
  PROVE  /\ BlockSize(i) \in 1 .. Block
         /\ BlockSize(i) = (IF i * Block + Block <= plain THEN Block ELSE plain - i * Block)
         /\ i * Block + BlockSize(i) = Min({(i + 1) * Block, plain})
         /\ Offset(i + 1) = Offset(i) + BlockSize(i) + 2
         /\ Offset(i) \in Nat /\ Offset(i) = HeadUnits + i * Block + 2 * i
<1>1. i * Block \in Nat /\ (i + 1) * Block = i * Block + Block /\ Block \in Nat /\ Block > 0
  BY Times
<1>2. i * Block < plain
  BY BlocksAre
<1>3. Min({i * Block, plain}) = i * Block
  BY <1>1, <1>2, MinIs
<1>4. Min({(i + 1) * Block, plain}) = IF i * Block + Block <= plain THEN i * Block + Block ELSE plain
  BY <1>1, MinIs
<1> DEFINE b == i * Block
<1>5. b \in Nat /\ b < plain
  BY <1>1, <1>2
<1>6. Offset(i) = HeadUnits + b + 2 * i
  BY <1>3 DEF Offset
<1>7. Offset(i + 1) = HeadUnits + (IF b + Block <= plain THEN b + Block ELSE plain) + 2 * (i + 1)
  BY <1>4 DEF Offset
<1>8. BlockSize(i) = (IF b + Block <= plain THEN b + Block ELSE plain) - b
  BY <1>4 DEF BlockSize
<1> HIDE DEF b
<1>9. /\ BlockSize(i) \in 1 .. Block
      /\ BlockSize(i) = (IF b + Block <= plain THEN Block ELSE plain - b)
      /\ b + BlockSize(i) = IF b + Block <= plain THEN b + Block ELSE plain
  BY <1>1, <1>5, <1>8
<1>10. Offset(i + 1) = Offset(i) + BlockSize(i) + 2 /\ Offset(i) \in Nat
  BY <1>1, <1>5, <1>6, <1>7, <1>9 DEF HeadUnits
<1> QED
  BY <1>4, <1>6, <1>9, <1>10 DEF b

\* At the end of the blocks is the end of the plain text.
LEMMA LastBlock ==
  ASSUME plain \in Nat
  PROVE  plain <= Blocks * Block /\ Offset(Blocks) = HeadUnits + plain + 2 * Blocks
<1>1. Blocks \in Nat /\ plain <= Blocks * Block /\ Blocks * Block \in Nat
  BY BlocksAre, Times
<1>2. Min({Blocks * Block, plain}) = plain
  BY <1>1, MinIs
<1> QED
  BY <1>1, <1>2 DEF Offset

\* Stretches of the plain text.
LEMMA PositionsAre ==
  ASSUME NEW a \in Int, NEW b \in Int
  PROVE  /\ Positions(a, b) \in Seq(Int) /\ Len(Positions(a, b)) = (IF a <= b THEN b - a ELSE 0)
         /\ \A i \in 1 .. b - a : Positions(a, b)[i] = a + i - 1
         /\ b <= a => Positions(a, b) = <<>>
<1>1. CASE a <= b
  <2>1. b - a \in Nat
    BY <1>1
  <2> QED
    BY <1>1, <2>1 DEF Positions
<1>2. CASE ~(a <= b)
  <2>1. 1 .. b - a = {}
    BY <1>2
  <2>2. Positions(a, b) = <<>>
    BY <2>1 DEF Positions
  <2> QED
    BY <1>2, <2>1, <2>2
<1> QED
  BY <1>1, <1>2

\* One stretch after another.
LEMMA PositionsJoin ==
  ASSUME NEW a \in Int, NEW b \in Int, NEW c \in Int, a <= b, b <= c
  PROVE  Positions(a, b) \o Positions(b, c) = Positions(a, c)
<1> DEFINE p == Positions(a, b)
           q == Positions(b, c)
           t == Positions(a, c)
<1>1. /\ p \in Seq(Int) /\ q \in Seq(Int) /\ t \in Seq(Int)
      /\ Len(p) = b - a /\ Len(q) = c - b /\ Len(t) = c - a
  BY PositionsAre
<1>2. /\ \A i \in 1 .. b - a : p[i] = a + i - 1
      /\ \A i \in 1 .. c - b : q[i] = b + i - 1
      /\ \A i \in 1 .. c - a : t[i] = a + i - 1
  BY PositionsAre
<1> HIDE DEF p, q, t
<1>3. /\ p \o q \in Seq(Int) /\ Len(p \o q) = (b - a) + (c - b)
      /\ \A i \in 1 .. Len(p) + Len(q) : (p \o q)[i] = IF i <= Len(p) THEN p[i] ELSE q[i - Len(p)]
  BY <1>1, ConcatProperties
<1>4. ASSUME NEW i \in 1 .. c - a PROVE (p \o q)[i] = t[i]
  <2>1. i \in 1 .. (b - a) + (c - b)
    OBVIOUS
  <2>2. (p \o q)[i] = IF i <= b - a THEN p[i] ELSE q[i - (b - a)]
    BY <1>1, <1>3, <2>1
  <2>3. CASE i <= b - a
    BY <1>2, <2>2, <2>3, i \in 1 .. b - a
  <2>4. CASE ~(i <= b - a)
    <3>1. i - (b - a) \in 1 .. c - b
      BY <2>4
    <3>2. q[i - (b - a)] = b + (i - (b - a)) - 1
      BY <1>2, <3>1
    <3> QED
      BY <1>2, <2>2, <2>4, <3>2
  <2> QED
    BY <2>3, <2>4
<1>5. p \o q = t
  BY <1>1, <1>3, <1>4, SeqEqual, (b - a) + (c - b) = c - a
<1> QED
  BY <1>5 DEF p, q, t

LEMMA PositionsThen ==
  ASSUME NEW a \in Int, NEW b \in Int, NEW c \in Int, a <= b, b <= c
  PROVE  Then(Positions(a, b), Positions(b, c)) = Positions(a, c)
BY PositionsJoin DEF Then

\* Units, by their kind.
AnyUnit == [kind : {"head", "length", "byte", "tag", "wrong"}, n : Int, at : Int]
LengthUnit(len) == [kind |-> "length", n |-> len + 1, at |-> 0]
ByteUnit(b, idx) == [kind |-> "byte", n |-> b, at |-> idx]
TagUnit(len, idx) == [kind |-> "tag", n |-> len, at |-> idx]

\* What a frame is made of.
LEMMA UnitsAre ==
  ASSUME NEW b \in Int, NEW idx \in Int
  PROVE  LengthUnit(b) \in AnyUnit /\ ByteUnit(b, idx) \in AnyUnit /\ TagUnit(b, idx) \in AnyUnit
BY b + 1 \in Int DEF AnyUnit, LengthUnit, ByteUnit, TagUnit

LEMMA OneUnit ==
  ASSUME NEW T, NEW u \in T
  PROVE  <<u>> \in Seq(T) /\ Len(<<u>>) = 1 /\ <<u>>[1] = u
OBVIOUS

\* A frame, unit by unit.
LEMMA FrameIs ==
  ASSUME NEW bytes \in Seq(Int), NEW idx \in Int
  PROVE  /\ Frame(bytes, idx) \in Seq(AnyUnit) /\ Len(Frame(bytes, idx)) = Len(bytes) + 2
         /\ Frame(bytes, idx)[1] = LengthUnit(Len(bytes))
         /\ \A j \in 1 .. Len(bytes) : Frame(bytes, idx)[j + 1] = ByteUnit(bytes[j], idx)
         /\ Frame(bytes, idx)[Len(bytes) + 2] = TagUnit(Len(bytes), idx)
<1> DEFINE n == Len(bytes)
           x == <<LengthUnit(n)>>
           y == [i \in 1 .. n |-> ByteUnit(bytes[i], idx)]
           z == <<TagUnit(n, idx)>>
<1>1. n \in Nat /\ \A i \in 1 .. n : bytes[i] \in Int
  OBVIOUS
<1>2. x \in Seq(AnyUnit) /\ Len(x) = 1 /\ x[1] = LengthUnit(n)
  BY <1>1, UnitsAre, OneUnit
<1>3. z \in Seq(AnyUnit) /\ Len(z) = 1 /\ z[1] = TagUnit(n, idx)
  BY <1>1, UnitsAre, OneUnit
<1>4. y \in Seq(AnyUnit) /\ Len(y) = n /\ \A i \in 1 .. n : y[i] = ByteUnit(bytes[i], idx)
  <2>1. \A i \in 1 .. n : ByteUnit(bytes[i], idx) \in AnyUnit
    BY <1>1, UnitsAre
  <2> HIDE DEF n
  <2> QED
    BY <1>1, <2>1
<1>5. Frame(bytes, idx) = (x \o y) \o z
  BY DEF Frame, LengthUnit, ByteUnit, TagUnit
<1> HIDE DEF x, y, z, n
<1>6. /\ x \o y \in Seq(AnyUnit) /\ Len(x \o y) = n + 1
      /\ \A i \in 1 .. Len(x) + Len(y) : (x \o y)[i] = IF i <= Len(x) THEN x[i] ELSE y[i - Len(x)]
  <2>1. ASSUME NEW a \in Seq(AnyUnit), NEW b \in Seq(AnyUnit)
        PROVE  /\ a \o b \in Seq(AnyUnit) /\ Len(a \o b) = Len(a) + Len(b)
               /\ \A i \in 1 .. Len(a) + Len(b) : (a \o b)[i] = IF i <= Len(a) THEN a[i] ELSE b[i - Len(a)]
    BY ConcatProperties
  <2>2. \A i \in 1 .. Len(x) + Len(y) : (x \o y)[i] = IF i <= Len(x) THEN x[i] ELSE y[i - Len(x)]
    BY <1>2, <1>4, <2>1
  <2>3. x \o y \in Seq(AnyUnit) /\ Len(x \o y) = Len(x) + Len(y)
    BY <1>2, <1>4, <2>1
  <2> QED
    BY <1>1, <1>2, <1>4, <2>2, <2>3
<1> DEFINE w == x \o y
<1>7. w \in Seq(AnyUnit) /\ Len(w) = n + 1 /\ w[1] = LengthUnit(n)
      /\ \A j \in 1 .. n : w[j + 1] = ByteUnit(bytes[j], idx)
  <2>1. w[1] = x[1]
    BY <1>1, <1>2, <1>4, <1>6, 1 \in 1 .. 1 + n
  <2>2. ASSUME NEW j \in 1 .. n PROVE w[j + 1] = y[j]
    <3>1. j + 1 \in 1 .. 1 + n /\ ~(j + 1 <= 1) /\ (j + 1) - 1 = j
      BY <1>1
    <3>2. w[j + 1] = y[(j + 1) - 1]
      BY <1>2, <1>4, <1>6, <3>1
    <3> QED
      BY <3>1, <3>2
  <2> QED
    BY <1>2, <1>4, <1>6, <2>1, <2>2
<1> HIDE DEF w
<1>8. /\ w \o z \in Seq(AnyUnit) /\ Len(w \o z) = n + 2
      /\ \A i \in 1 .. Len(w) + Len(z) : (w \o z)[i] = IF i <= Len(w) THEN w[i] ELSE z[i - Len(w)]
  <2>1. w \o z \in Seq(AnyUnit) /\ Len(w \o z) = Len(w) + Len(z)
    BY <1>3, <1>7, ConcatProperties
  <2>2. \A i \in 1 .. Len(w) + Len(z) : (w \o z)[i] = IF i <= Len(w) THEN w[i] ELSE z[i - Len(w)]
    BY <1>3, <1>7, ConcatProperties
  <2> QED
    BY <1>1, <1>3, <1>7, <2>1, <2>2
<1>9. (w \o z)[1] = w[1]
  BY <1>1, <1>3, <1>7, <1>8, 1 \in 1 .. n + 1 + 1
<1>10. ASSUME NEW j \in 1 .. n PROVE (w \o z)[j + 1] = w[j + 1]
  BY <1>1, <1>3, <1>7, <1>8, j + 1 \in 1 .. n + 1 + 1, j + 1 <= n + 1
<1>11. (w \o z)[n + 2] = z[1]
  BY <1>1, <1>3, <1>7, <1>8, n + 2 \in 1 .. n + 1 + 1, ~(n + 2 <= n + 1), (n + 2) - (n + 1) = 1
<1>12. Frame(bytes, idx) = w \o z
  BY <1>5 DEF w
<1> QED
  BY <1>3, <1>7, <1>8, <1>9, <1>10, <1>11, <1>12 DEF n

\* The unit at place j of the frame of block i.
UnitAt(i, j) ==
  IF j = 1 THEN LengthUnit(BlockSize(i))
  ELSE IF j = BlockSize(i) + 2 THEN TagUnit(BlockSize(i), i)
  ELSE ByteUnit(i * Block + j - 2, i)

\* A frame of the plain text is genuine.
LEMMA FrameOfBlock ==
  ASSUME Inputs, NEW i \in Nat, i < Blocks
  PROVE  /\ FrameOf(i + 1) \in Seq(Genuine) /\ Len(FrameOf(i + 1)) = BlockSize(i) + 2
         /\ \A j \in 1 .. BlockSize(i) + 2 : FrameOf(i + 1)[j] = UnitAt(i, j)
         /\ FrameOf(i + 1) = Frame(Positions(i * Block, i * Block + BlockSize(i)), i)
<1>0. plain \in Nat /\ plain <= MaxPlain /\ MaxPlain \in Nat /\ Block \in Nat /\ Block > 0
  BY CipherBounds DEF Inputs
<1> DEFINE b == i * Block
           n == BlockSize(i)
           p == Positions(b, b + n)
<1>1. n \in 1 .. Block /\ b \in Nat /\ b < plain /\ b + n <= plain
  <2>1. b \in Nat /\ b < plain
    BY <1>0, Times, BlocksAre
  <2>2. n \in 1 .. Block /\ n = IF b + Block <= plain THEN Block ELSE plain - b
    BY <1>0, SizesAre
  <2> QED
    BY <1>0, <2>1, <2>2
<1>2. FrameOf(i + 1) = Frame(p, i)
  <2>1. b + n = Min({(i + 1) * Block, plain}) /\ (i + 1) - 1 = i
    BY <1>0, SizesAre
  <2>2. FrameOf(i + 1) = Frame(Positions(i * Block, Min({(i + 1) * Block, plain})), i)
    BY <2>1 DEF FrameOf
  <2> QED
    BY <2>1, <2>2
<1> HIDE DEF b, n
<1>3. p \in Seq(Int) /\ Len(p) = n /\ \A j \in 1 .. n : p[j] = b + j - 1
  <2>1. b + n \in Int /\ b \in Int /\ (b + n) - b = n /\ b <= b + n
    BY <1>1
  <2> QED
    BY <2>1, PositionsAre
<1> HIDE DEF p
<1>4. i \in 0 .. MaxPlain
  BY <1>0, <1>1, TimesUp, i <= i * Block DEF b
<1>5. UnitAt(i, 1) = LengthUnit(n) /\ UnitAt(i, n + 2) = TagUnit(n, i)
      /\ \A j \in 1 .. n : UnitAt(i, j + 1) = ByteUnit(b + j - 1, i)
  BY <1>1 DEF UnitAt, b, n
<1>6. ASSUME NEW j \in 1 .. n + 2 PROVE Frame(p, i)[j] = UnitAt(i, j)
  <2>1. CASE j = 1
    BY <1>3, <1>5, <2>1, FrameIs
  <2>2. CASE j = n + 2
    BY <1>3, <1>5, <2>2, FrameIs
  <2>3. CASE j # 1 /\ j # n + 2
    <3>1. j - 1 \in 1 .. n /\ (j - 1) + 1 = j
      BY <1>1, <2>3
    <3>2. \A k \in 1 .. n : Frame(p, i)[k + 1] = ByteUnit(p[k], i)
      <4>1. \A k \in 1 .. Len(p) : Frame(p, i)[k + 1] = ByteUnit(p[k], i)
        <5>1. p \in Seq(Int) /\ i \in Int
          BY <1>3
        <5> QED
          BY <5>1, FrameIs, Zenon
      <4> QED
        BY <1>3, <4>1
    <3>5. Frame(p, i)[(j - 1) + 1] = ByteUnit(p[j - 1], i)
      BY <3>1, <3>2
    <3>3. UnitAt(i, (j - 1) + 1) = ByteUnit(b + (j - 1) - 1, i)
      BY <1>5, <3>1
    <3>4. p[j - 1] = b + (j - 1) - 1
      BY <1>3, <3>1
    <3> QED
      BY <3>1, <3>5, <3>3, <3>4
  <2> QED
    BY <2>1, <2>2, <2>3
<1>7. ASSUME NEW j \in 1 .. n + 2 PROVE UnitAt(i, j) \in Genuine
  <2>1. LengthUnit(n) \in Genuine
    BY <1>0, <1>1 DEF LengthUnit, Genuine, Units, HeadUnits
  <2>2. TagUnit(n, i) \in Genuine
    BY <1>0, <1>1, <1>4 DEF TagUnit, Genuine, Units, HeadUnits, n
  <2>3. \A k \in 1 .. n : ByteUnit(b + k - 1, i) \in Genuine
    <3> SUFFICES ASSUME NEW k \in 1 .. n PROVE ByteUnit(b + k - 1, i) \in Genuine
      OBVIOUS
    <3>1. b + k - 1 \in 0 .. MaxPlain + Block + HeadUnits
      BY <1>0, <1>1 DEF HeadUnits
    <3> QED
      BY <1>4, <3>1 DEF ByteUnit, Genuine, Units
  <2>4. j = 1 \/ j = n + 2 \/ (j - 1 \in 1 .. n /\ (j - 1) + 1 = j)
    BY <1>1
  <2> QED
    BY <1>5, <2>1, <2>2, <2>3, <2>4
<1>8. Frame(p, i) \in Seq(AnyUnit) /\ Len(Frame(p, i)) = n + 2
  BY <1>3, FrameIs
<1>9. Frame(p, i) \in Seq(Genuine)
  BY <1>1, <1>6, <1>7, <1>8
<1> QED
  BY <1>2, <1>6, <1>8, <1>9 DEF b, n, p

\* Counting up.
LEMMA Climb ==
  ASSUME NEW S, 0 \in S, \A n \in Nat : n \in S => n + 1 \in S
  PROVE  Nat \subseteq S
<1> DEFINE Bad == {n \in Nat : n \notin S}
<1>1. SUFFICES ASSUME Bad # {} PROVE FALSE
  OBVIOUS
<1>2. PICK n \in Bad : \A j \in Bad : n <= j
  <2>1. Bad \in SUBSET Nat
    OBVIOUS
  <2> HIDE DEF Bad
  <2> QED
    BY <1>1, <2>1, Least
<1>3. n # 0
  BY <1>2
<1>4. n - 1 \in Nat /\ n - 1 \notin Bad /\ (n - 1) + 1 = n
  BY <1>2, <1>3
<1> QED
  BY <1>2, <1>4

\* Places of a concatenation, of a stretch of a sequence, and of a stretch of a stretch.
LEMMA ConcatIs ==
  ASSUME NEW T, NEW x \in Seq(T), NEW y \in Seq(T)
  PROVE  /\ x \o y \in Seq(T) /\ Len(x \o y) = Len(x) + Len(y)
         /\ \A i \in 1 .. Len(x) : (x \o y)[i] = x[i]
         /\ \A i \in 1 .. Len(y) : (x \o y)[Len(x) + i] = y[i]
<1>1. x \o y \in Seq(T) /\ Len(x \o y) = Len(x) + Len(y) /\ Len(x) \in Nat /\ Len(y) \in Nat
  BY ConcatProperties
<1>2. \A i \in 1 .. Len(x) + Len(y) : (x \o y)[i] = IF i <= Len(x) THEN x[i] ELSE y[i - Len(x)]
  BY ConcatProperties
<1>3. ASSUME NEW i \in 1 .. Len(x) PROVE (x \o y)[i] = x[i]
  BY <1>1, <1>2, i \in 1 .. Len(x) + Len(y), i <= Len(x)
<1>4. ASSUME NEW i \in 1 .. Len(y) PROVE (x \o y)[Len(x) + i] = y[i]
  <2>1. Len(x) + i \in 1 .. Len(x) + Len(y) /\ ~(Len(x) + i <= Len(x)) /\ (Len(x) + i) - Len(x) = i
    BY <1>1
  <2> QED
    BY <1>2, <2>1
<1> QED
  BY <1>1, <1>3, <1>4

LEMMA SubSeqIs ==
  ASSUME NEW T, NEW s \in Seq(T), NEW m \in Int, NEW n \in Int, 1 <= m, n <= Len(s)
  PROVE  /\ SubSeq(s, m, n) \in Seq(T)
         /\ Len(SubSeq(s, m, n)) = IF m <= n THEN n - m + 1 ELSE 0
         /\ \A i \in 1 .. n - m + 1 : SubSeq(s, m, n)[i] = s[m + i - 1]
<1>1. CASE m <= n
  <2>1. m \in 1 .. Len(s) + 1 /\ n \in m - 1 .. Len(s)
    BY <1>1
  <2>2. /\ SubSeq(s, m, n) \in Seq(T) /\ Len(SubSeq(s, m, n)) = n - m + 1
        /\ \A i \in 1 .. n - m + 1 : SubSeq(s, m, n)[i] = s[m + i - 1]
    BY <2>1, SubSeqProperties
  <2> QED
    BY <1>1, <2>2
<1>2. CASE ~(m <= n)
  <2>1. SubSeq(s, m, n) = <<>>
    BY <1>2, 1 .. n - m + 1 = {}
  <2> QED
    BY <1>2, <2>1, 1 .. n - m + 1 = {}
<1> QED
  BY <1>1, <1>2

LEMMA PositionsPart ==
  ASSUME NEW a \in Int, NEW b \in Int, NEW m \in Int, NEW n \in Int, 1 <= m, n <= b - a, 0 <= b - a
  PROVE  SubSeq(Positions(a, b), m, n) = Positions(a + m - 1, a + n)
<1> DEFINE p == Positions(a, b)
           q == Positions(a + m - 1, a + n)
           s == SubSeq(p, m, n)
<1>1. /\ p \in Seq(Int) /\ q \in Seq(Int) /\ Len(p) = b - a
      /\ Len(q) = IF a + m - 1 <= a + n THEN (a + n) - (a + m - 1) ELSE 0
      /\ \A i \in 1 .. b - a : p[i] = a + i - 1
      /\ \A i \in 1 .. (a + n) - (a + m - 1) : q[i] = (a + m - 1) + i - 1
  <2>1. a + m - 1 \in Int /\ a + n \in Int /\ a <= b
    OBVIOUS
  <2> QED
    BY <2>1, PositionsAre
<1> HIDE DEF p, q
<1>2. /\ s \in Seq(Int) /\ Len(s) = (IF m <= n THEN n - m + 1 ELSE 0)
      /\ \A i \in 1 .. n - m + 1 : s[i] = p[m + i - 1]
  <2>1. 1 <= m /\ n <= Len(p) /\ p \in Seq(Int)
    BY <1>1
  <2>2. /\ SubSeq(p, m, n) \in Seq(Int)
        /\ Len(SubSeq(p, m, n)) = (IF m <= n THEN n - m + 1 ELSE 0)
        /\ \A i \in 1 .. n - m + 1 : SubSeq(p, m, n)[i] = p[m + i - 1]
    BY <2>1, SubSeqIs
  <2> QED
    BY <2>2
<1> HIDE DEF s
<1>3. Len(s) = Len(q)
  BY <1>1, <1>2
<1>4. ASSUME NEW i \in 1 .. Len(s) PROVE s[i] = q[i]
  <2>1. i \in 1 .. n - m + 1 /\ i \in 1 .. (a + n) - (a + m - 1) /\ m + i - 1 \in 1 .. b - a
    BY <1>2
  <2> QED
    BY <1>1, <1>2, <2>1
<1>5. s = q
  BY <1>1, <1>2, <1>3, <1>4, SeqEqual
<1> QED
  BY <1>5 DEF s, q, p

\* The header and the frames consist of genuine units, one frame after the other.
LEMMA HeaderIs == /\ Inputs => Header \in Seq(Genuine)
                  /\ Len(Header) = HeadUnits
<1>1. HeadUnits = 2
  BY DEF HeadUnits
<1>2. ASSUME Inputs, NEW i \in 1 .. 2 PROVE [kind |-> "head", n |-> i, at |-> 0] \in Genuine
  <2>1. MaxPlain \in Nat /\ Block \in Nat
    BY CipherBounds
  <2> QED
    BY <2>1 DEF Genuine, Units, HeadUnits
<1> QED
  BY <1>1, <1>2 DEF Header

LEMMA FramesAre ==
  ASSUME Inputs
  PROVE  \A i \in 1 .. Blocks : Frames[i] = FrameOf(i) /\ Frames[i] \in Seq(Genuine)
<1> SUFFICES ASSUME NEW i \in 1 .. Blocks PROVE Frames[i] = FrameOf(i) /\ FrameOf(i) \in Seq(Genuine)
  OBVIOUS
<1>1. plain \in Nat
  BY CipherBounds DEF Inputs
<1>2. Blocks \in Nat
  BY <1>1, BlocksAre
<1>3. i - 1 \in Nat /\ i - 1 < Blocks /\ (i - 1) + 1 = i
  BY <1>2
<1>4. FrameOf((i - 1) + 1) \in Seq(Genuine)
  BY <1>3, FrameOfBlock
<1> QED
  BY <1>3, <1>4 DEF Frames

LEMMA SealedSeq ==
  ASSUME Inputs, NEW n \in Nat, n <= Blocks
  PROVE  Joined(Frames, n) \in Seq(Genuine) /\ SealedTo(n) \in Seq(Genuine)
<1>1. plain \in Nat
  BY CipherBounds DEF Inputs
<1>2. Blocks \in Nat
  BY <1>1, BlocksAre
<1>3. \A i \in 1 .. n : Frames[i] \in Seq(Genuine)
  BY <1>2, FramesAre
<1>4. Joined(Frames, n) \in Seq(Genuine)
  BY <1>3, JoinedSeq
<1>5. SealedTo(n) \in Seq(Genuine)
  BY <1>4, HeaderIs, ConcatIs DEF SealedTo
<1> QED
  BY <1>4, <1>5

LEMMA SealedMore ==
  ASSUME Inputs, NEW n \in Nat, n < Blocks
  PROVE  SealedTo(n + 1) = SealedTo(n) \o FrameOf(n + 1)
<1>1. plain \in Nat
  BY CipherBounds DEF Inputs
<1>2. Blocks \in Nat
  BY <1>1, BlocksAre
<1>3. n + 1 \in 1 .. Blocks /\ n + 1 \in Nat /\ n + 1 # 0 /\ (n + 1) - 1 = n
  BY <1>2
<1>4. Frames[n + 1] = FrameOf(n + 1) /\ Frames[n + 1] \in Seq(Genuine)
  BY <1>3, FramesAre
<1>5. Joined(Frames, n + 1) = Joined(Frames, (n + 1) - 1) \o Frames[n + 1]
  BY <1>3, <1>4, JoinedMore
<1>6. Joined(Frames, n + 1) = Joined(Frames, n) \o FrameOf(n + 1)
  BY <1>3, <1>4, <1>5
<1>7. ASSUME NEW a \in Seq(Genuine), NEW b \in Seq(Genuine), NEW c \in Seq(Genuine)
      PROVE  a \o (b \o c) = (a \o b) \o c
  BY ConcatAssociative
<1>8. Header \o (Joined(Frames, n) \o FrameOf(n + 1)) = (Header \o Joined(Frames, n)) \o FrameOf(n + 1)
  BY <1>4, <1>7, HeaderIs, SealedSeq
<1> QED
  BY <1>6, <1>8 DEF SealedTo

\* Where frames begin.
LEMMA OffsetAfter ==
  ASSUME plain \in Nat, NEW i \in Nat, i < Blocks
  PROVE  Offset(i + 1) = Offset(i) + BlockSize(i) + 2 /\ Offset(i) \in Nat /\ BlockSize(i) \in Nat
<1>1. Offset(i + 1) = Offset(i) + BlockSize(i) + 2 /\ Offset(i) \in Nat /\ BlockSize(i) \in 1 .. Block
  BY SizesAre
<1>2. Block \in Nat
  BY CipherBounds
<1> QED
  BY <1>1, <1>2

LEMMA SealedLen ==
  ASSUME Inputs, NEW n \in Nat, n <= Blocks
  PROVE  Len(SealedTo(n)) = Offset(n)
<1>1. plain \in Nat
  BY CipherBounds DEF Inputs
<1>2. Blocks \in Nat
  BY <1>1, BlocksAre
<1> DEFINE S == {m \in Nat : m <= Blocks => Len(SealedTo(m)) = Offset(m)}
<1>3. 0 \in S
  <2>1. Len(SealedTo(0)) = HeadUnits
    <3>1. SealedTo(0) = Header \o <<>>
      BY JoinedNone DEF SealedTo
    <3>2. Header \o <<>> = Header
      BY HeaderIs, ConcatEmptySeq
    <3> QED
      BY <3>1, <3>2, HeaderIs
  <2>2. 0 * Block = 0
    BY CipherBounds
  <2>3. Offset(0) = HeadUnits
    BY <1>1, <2>2, MinIs DEF Offset, HeadUnits
  <2> QED
    BY <2>1, <2>3
<1>4. ASSUME NEW m \in Nat, m \in S PROVE m + 1 \in S
  <2>1. SUFFICES ASSUME m + 1 <= Blocks PROVE Len(SealedTo(m + 1)) = Offset(m + 1)
    BY <1>4
  <2>2. m < Blocks /\ Len(SealedTo(m)) = Offset(m)
    BY <1>2, <1>4, <2>1
  <2>3. SealedTo(m + 1) = SealedTo(m) \o FrameOf(m + 1)
    BY <2>2, SealedMore
  <2>4. SealedTo(m) \in Seq(Genuine) /\ FrameOf(m + 1) \in Seq(Genuine) /\ Len(FrameOf(m + 1)) = BlockSize(m) + 2
    BY <1>2, <2>2, SealedSeq, FrameOfBlock
  <2>5. Len(SealedTo(m + 1)) = Len(SealedTo(m)) + Len(FrameOf(m + 1))
    BY <2>3, <2>4, ConcatIs
  <2>6. Offset(m + 1) = Offset(m) + BlockSize(m) + 2 /\ Offset(m) \in Nat /\ BlockSize(m) \in Nat
    BY <1>1, <2>2, OffsetAfter
  <2> QED
    BY <2>2, <2>4, <2>5, <2>6
<1> HIDE DEF S
<1>5. Nat \subseteq S
  BY <1>3, <1>4, Climb
<1> QED
  BY <1>5 DEF S

LEMMA OffsetsUp ==
  ASSUME Inputs, NEW i \in Nat, NEW j \in Nat, i <= j
  PROVE  Offset(i) <= Offset(j) /\ Offset(i) \in Nat /\ Offset(j) \in Nat
<1>1. plain \in Nat
  BY CipherBounds DEF Inputs
<1>2. i * Block \in Nat /\ j * Block \in Nat /\ i * Block <= j * Block
  BY Times, TimesUp
<1>3. /\ Min({i * Block, plain}) = IF i * Block <= plain THEN i * Block ELSE plain
      /\ Min({j * Block, plain}) = IF j * Block <= plain THEN j * Block ELSE plain
  BY <1>1, <1>2, MinIs
<1> DEFINE x == i * Block
           y == j * Block
<1>4. /\ Offset(i) = HeadUnits + (IF x <= plain THEN x ELSE plain) + 2 * i
      /\ Offset(j) = HeadUnits + (IF y <= plain THEN y ELSE plain) + 2 * j
  BY <1>3 DEF Offset
<1>5. x \in Nat /\ y \in Nat /\ x <= y
  BY <1>2
<1> HIDE DEF x, y
<1> QED
  BY <1>1, <1>4, <1>5 DEF HeadUnits

\* What stands at a place of the first n frames.
LEMMA SealedAt ==
  ASSUME Inputs, NEW n \in Nat, n <= Blocks
  PROVE  /\ \A i \in 1 .. HeadUnits : SealedTo(n)[i] = Header[i]
         /\ \A i \in Nat : i < n => \A j \in 1 .. BlockSize(i) + 2 : SealedTo(n)[Offset(i) + j] = UnitAt(i, j)
<1>1. plain \in Nat
  BY CipherBounds DEF Inputs
<1>2. Blocks \in Nat
  BY <1>1, BlocksAre
<1> DEFINE At(m) == \A i \in Nat : i < m => \A j \in 1 .. BlockSize(i) + 2 : SealedTo(m)[Offset(i) + j] = UnitAt(i, j)
           S == {m \in Nat : m <= Blocks => At(m)}
<1>3. 0 \in S
  OBVIOUS
<1>4. ASSUME NEW m \in Nat, m \in S PROVE m + 1 \in S
  <2>1. SUFFICES ASSUME m + 1 <= Blocks, NEW i \in Nat, i < m + 1, NEW j \in 1 .. BlockSize(i) + 2
                 PROVE  SealedTo(m + 1)[Offset(i) + j] = UnitAt(i, j)
    OBVIOUS
  <2>2. m < Blocks /\ m <= Blocks /\ At(m)
    BY <1>2, <1>4, <2>1
  <2>3. SealedTo(m + 1) = SealedTo(m) \o FrameOf(m + 1)
    BY <2>2, SealedMore
  <2>4. SealedTo(m) \in Seq(Genuine) /\ FrameOf(m + 1) \in Seq(Genuine) /\ Len(FrameOf(m + 1)) = BlockSize(m) + 2
        /\ Len(SealedTo(m)) = Offset(m)
    BY <2>2, SealedSeq, FrameOfBlock, SealedLen
  <2> HIDE DEF At, S
  <2>5. /\ \A k \in 1 .. Offset(m) : SealedTo(m + 1)[k] = SealedTo(m)[k]
        /\ \A k \in 1 .. BlockSize(m) + 2 : SealedTo(m + 1)[Offset(m) + k] = FrameOf(m + 1)[k]
    <3> DEFINE x == SealedTo(m)
               y == FrameOf(m + 1)
    <3>1. x \in Seq(Genuine) /\ y \in Seq(Genuine) /\ Len(x) = Offset(m) /\ Len(y) = BlockSize(m) + 2
          /\ SealedTo(m + 1) = x \o y
      BY <2>3, <2>4
    <3> HIDE DEF x, y
    <3>2. /\ \A k \in 1 .. Len(x) : (x \o y)[k] = x[k]
          /\ \A k \in 1 .. Len(y) : (x \o y)[Len(x) + k] = y[k]
      BY <3>1, ConcatIs
    <3>3. /\ \A k \in 1 .. Offset(m) : SealedTo(m + 1)[k] = x[k]
          /\ \A k \in 1 .. BlockSize(m) + 2 : SealedTo(m + 1)[Offset(m) + k] = y[k]
      BY <3>1, <3>2
    <3> QED
      BY <3>3 DEF x, y
  <2>6. CASE i = m
    BY <2>1, <2>2, <2>5, <2>6, FrameOfBlock
  <2>7. CASE i < m
    <3>1. Offset(i + 1) = Offset(i) + BlockSize(i) + 2 /\ Offset(i) \in Nat /\ BlockSize(i) \in Nat
      <4>1. i < Blocks
        BY <1>2, <2>2, <2>7
      <4> QED
        BY <1>1, <4>1, OffsetAfter
    <3>2. Offset(i + 1) <= Offset(m) /\ Offset(m) \in Nat
      BY <2>7, OffsetsUp, i + 1 \in Nat, i + 1 <= m
    <3>3. Offset(i) + j \in 1 .. Offset(m)
      BY <3>1, <3>2
    <3>4. SealedTo(m)[Offset(i) + j] = UnitAt(i, j)
      BY <2>2, <2>7 DEF At
    <3> QED
      BY <2>5, <3>3, <3>4
  <2> QED
    BY <2>1, <2>6, <2>7
<1>5. At(n)
  <2> HIDE DEF At
  <2>1. Nat \subseteq S
    <3> HIDE DEF S
    <3> QED
      BY <1>3, <1>4, Climb
  <2> QED
    BY <2>1
<1>6. \A i \in 1 .. HeadUnits : SealedTo(n)[i] = Header[i]
  BY HeaderIs, SealedSeq, ConcatIs DEF SealedTo
<1> QED
  BY <1>5, <1>6

\* encrypt makes all of the frames.
LEMMA EncryptedIs ==
  ASSUME Inputs
  PROVE  Encrypted = SealedTo(Blocks)
<1>1. [i \in 1 .. Blocks |-> Frame(Positions((i - 1) * Block, Min({i * Block, plain})), i - 1)]
       = [i \in 1 .. Blocks |-> Frames[i]]
  BY DEF Frames, FrameOf
<1> QED
  BY <1>1 DEF Encrypted, SealedTo, Joined

-----------------------------------------------------------------------------
(* StreamingEncryptor *)

\* StreamingDecryptor before it is fed.
FirstDec == [state |-> "head", fed |-> 0, buf |-> <<>>, idx |-> 0, out |-> <<>>]

\* What waits to be sealed is the plain text from the last block sealed on.
EncOK ==
  /\ enc \in [fed : Nat, buf : Seq(Int), idx : Nat, done : BOOLEAN]
  /\ enc.fed <= plain /\ enc.idx * Block <= enc.fed /\ enc.fed < enc.idx * Block + Block
  /\ enc.buf = IF enc.done THEN <<>> ELSE Positions(enc.idx * Block, enc.fed)
  /\ ~enc.done => cipher = SealedTo(enc.idx) /\ damage = "none" /\ dec = FirstDec
  /\ enc.done => enc.fed = plain
  /\ enc.done /\ damage = "none" => cipher = SealedTo(Blocks)
  /\ cipher \in Seq(Genuine)

\* What the inputs say of the numbers.
LEMMA InputsAre == Inputs => plain \in Nat /\ plain <= MaxPlain /\ MaxPlain \in Nat /\ Block \in Nat /\ Block > 0 /\ Blocks \in Nat
<1> SUFFICES ASSUME Inputs PROVE plain \in Nat /\ plain <= MaxPlain /\ MaxPlain \in Nat /\ Block \in Nat /\ Block > 0 /\ Blocks \in Nat
  OBVIOUS
<1>1. plain \in Nat /\ plain <= MaxPlain /\ MaxPlain \in Nat /\ Block \in Nat /\ Block > 0
  BY CipherBounds DEF Inputs
<1> QED
  BY <1>1, BlocksAre

\* A block that ends by the end of the plain text is a whole one.
LEMMA WholeBlock ==
  ASSUME Inputs, NEW i \in Nat, i * Block + Block <= plain
  PROVE  i < Blocks /\ FrameOf(i + 1) = Frame(Positions(i * Block, (i + 1) * Block), i)
<1>1. plain \in Nat /\ Block > 0
  BY InputsAre
<1>2. i * Block \in Nat /\ (i + 1) * Block = i * Block + Block /\ Block \in Nat
  BY Times
<1>3. i < Blocks
  BY <1>1, <1>2, BlocksAre
<1>4. BlockSize(i) = Block
  BY <1>1, <1>3, SizesAre
<1>5. FrameOf(i + 1) = Frame(Positions(i * Block, i * Block + BlockSize(i)), i)
  BY <1>3, FrameOfBlock
<1> QED
  BY <1>2, <1>3, <1>4, <1>5

\* Some frames, and the frames that follow them.
LEMMA SealedAdds ==
  ASSUME Inputs, NEW g, NEW m \in Nat, NEW n \in Nat, m + n <= Blocks, \A i \in 1 .. n : g[i] = FrameOf(m + i)
  PROVE  Then(SealedTo(m), Joined(g, n)) = SealedTo(m + n)
<1>0. Blocks \in Nat
  BY InputsAre
<1>1. \A i \in 1 .. m + n : Frames[i] = FrameOf(i) /\ Frames[i] \in Seq(Genuine)
  BY <1>0, FramesAre
<1>2. \A i \in 1 .. n : g[i] = Frames[m + i]
  BY <1>1
<1>3. Pieces(Genuine, Frames, m + n) /\ Follows(g, Frames, m, n)
  BY <1>1, <1>2 DEF Pieces, Follows
<1> DEFINE x == Joined(Frames, m)
           y == Joined(g, n)
           z == Joined(Frames, m + n)
<1>4. y \in Seq(Genuine) /\ Then(x, y) = z
  BY <1>3, JoinedJoined
<1>5. x \in Seq(Genuine)
  BY <1>0, SealedSeq
<1> HIDE DEF x, y, z
<1>6. Then(Then(Header, x), y) = Then(Header, Then(x, y))
  BY <1>4, <1>5, HeaderIs, ThenThen
<1>7. Then(Header, x) = SealedTo(m) /\ Then(Header, z) = SealedTo(m + n)
  BY DEF x, z, Then, SealedTo
<1> QED
  BY <1>4, <1>6, <1>7 DEF y

\* A stretch of whole blocks.
LEMMA WholeBlocks ==
  ASSUME Inputs, NEW m \in Nat, NEW e \in Int, m * Block <= e, e <= plain
  PROVE  LET all == Positions(m * Block, e)
             full == Len(all) \div Block
         IN  /\ full \in Nat /\ m + full <= Blocks /\ Len(all) = e - m * Block
             /\ (m + full) * Block <= e /\ e < (m + full) * Block + Block
             /\ SubSeq(all, full * Block + 1, Len(all)) = Positions((m + full) * Block, e)
             /\ \A i \in 1 .. full :
                  Frame(SubSeq(all, (i - 1) * Block + 1, ((i - 1) + 1) * Block), m + i - 1) = FrameOf(m + i)
<1>0. plain \in Nat /\ Block \in Nat /\ Block > 0 /\ Blocks \in Nat
  BY InputsAre
<1> DEFINE b == m * Block
           all == Positions(b, e)
           full == Len(all) \div Block
           fb == full * Block
<1>1. b \in Nat /\ Len(all) = e - b /\ b <= e
  <2>1. b \in Nat /\ b <= e
    BY Times
  <2> HIDE DEF b
  <2> QED
    BY <2>1, PositionsAre
<1>2. full \in Nat /\ fb \in Nat /\ fb <= e - b /\ e - b < fb + Block
  <2>1. e - b \in Nat
    BY <1>1
  <2> DEFINE l == e - b
  <2>2. full = l \div Block
    BY <1>1
  <2> HIDE DEF l, b, full
  <2>3. l \div Block \in Nat /\ (l \div Block) * Block <= l /\ l < (l \div Block) * Block + Block
    BY <1>0, <2>1, Z3 DEF l
  <2> QED
    BY <2>1, <2>2, <2>3, Times DEF l, fb
<1>3. (m + full) * Block = b + fb
  <2> HIDE DEF full
  <2> QED
    BY <1>0, <1>2
<1>4. (m + full) * Block <= e /\ e < (m + full) * Block + Block
  <2> DEFINE t == (m + full) * Block
  <2>1. t = b + fb
    BY <1>3
  <2> HIDE DEF b, fb, full, t
  <2>2. t <= e /\ e < t + Block
    BY <1>0, <1>1, <1>2, <2>1
  <2> QED
    BY <2>2 DEF t
<1>5. m + full <= Blocks
  <2>1. CASE full = 0
    <3>1. CASE m = 0
      BY <1>0, <2>1, <3>1
    <3>2. CASE m # 0
      <4>1. m - 1 \in Nat /\ (m - 1) * Block < plain
        <5>1. m - 1 \in Nat /\ ((m - 1) + 1) * Block = (m - 1) * Block + Block /\ (m - 1) * Block \in Nat
          <6>1. m - 1 \in Nat
            BY <3>2
          <6> QED
            BY <6>1, Times
        <5>2. (m - 1) + 1 = m
          OBVIOUS
        <5> QED
          BY <1>0, <1>1, <5>1, <5>2
      <4>2. m - 1 < Blocks
        BY <1>0, <4>1, BlocksAre
      <4> QED
        BY <1>0, <2>1, <4>2
    <3> QED
      BY <3>1, <3>2
  <2>2. CASE full # 0
    <3> HIDE DEF full
    <3>1. m + full - 1 \in Nat /\ (m + full - 1) + 1 = m + full
      BY <1>2, <2>2
    <3>2. ((m + full - 1) + 1) * Block = (m + full - 1) * Block + Block /\ (m + full - 1) * Block \in Nat
      BY <3>1, Times
    <3>3. (m + full - 1) * Block < plain
      BY <1>0, <1>4, <3>1, <3>2
    <3>4. m + full - 1 < Blocks
      BY <1>0, <3>1, <3>3, BlocksAre
    <3> QED
      BY <1>0, <1>2, <3>4
  <2> QED
    BY <2>1, <2>2
<1>6. SubSeq(all, fb + 1, Len(all)) = Positions((m + full) * Block, e)
  <2> HIDE DEF b, fb, full
  <2>1. SubSeq(Positions(b, e), fb + 1, e - b) = Positions(b + (fb + 1) - 1, b + (e - b))
    <3>1. b \in Int /\ e \in Int /\ fb + 1 \in Int /\ e - b \in Int /\ 1 <= fb + 1 /\ e - b <= e - b /\ 0 <= e - b
      BY <1>1, <1>2
    <3> QED
      BY <3>1, PositionsPart
  <2>2. b + (fb + 1) - 1 = b + fb /\ b + (e - b) = e
    BY <1>1, <1>2
  <2> QED
    BY <1>1, <1>3, <2>1, <2>2
<1>7. ASSUME NEW i \in 1 .. full
      PROVE  Frame(SubSeq(all, (i - 1) * Block + 1, ((i - 1) + 1) * Block), m + i - 1) = FrameOf(m + i)
  <2> DEFINE c == (i - 1) * Block
  <2>1. i - 1 \in Nat /\ i \in Nat /\ i <= full
    BY <1>2
  <2>2. c \in Nat /\ ((i - 1) + 1) * Block = c + Block
    BY <2>1, Times
  <2>3. c + Block <= fb
    <3>1. i * Block <= full * Block
      BY <1>2, <2>1, TimesUp
    <3> QED
      BY <2>1, <2>2, <3>1, (i - 1) + 1 = i
  <2>4. (m + (i - 1)) * Block = b + c
    BY <1>0, <2>1
  <2>5. (m + (i - 1)) * Block + Block <= plain
    <3> HIDE DEF b, c, fb, full
    <3> QED
      BY <1>0, <1>1, <1>2, <2>2, <2>3, <2>4
  <2>6. FrameOf((m + (i - 1)) + 1) = Frame(Positions((m + (i - 1)) * Block, ((m + (i - 1)) + 1) * Block), m + (i - 1))
    BY <2>1, <2>5, WholeBlock, m + (i - 1) \in Nat
  <2>7. ((m + (i - 1)) + 1) * Block = (b + c) + Block
    BY <2>1, <2>4, Times, m + (i - 1) \in Nat
  <2>8. SubSeq(Positions(b, e), c + 1, c + Block) = Positions(b + (c + 1) - 1, b + (c + Block))
    <3> HIDE DEF b, c, fb, full
    <3>1. b \in Int /\ e \in Int /\ c + 1 \in Int /\ c + Block \in Int /\ 1 <= c + 1 /\ c + Block <= e - b /\ 0 <= e - b
      BY <1>0, <1>1, <1>2, <2>2, <2>3
    <3> QED
      BY <3>1, PositionsPart
  <2>9. b + (c + 1) - 1 = b + c /\ b + (c + Block) = (b + c) + Block
    <3> HIDE DEF b, c
    <3> QED
      BY <1>0, <1>1, <2>2
  <2>10. (m + (i - 1)) + 1 = m + i /\ m + (i - 1) = m + i - 1
    BY <2>1
  <2>11. FrameOf(m + i) = Frame(Positions(b + c, (b + c) + Block), m + i - 1)
    <3> HIDE DEF b, c
    <3> QED
      BY <2>4, <2>6, <2>7, <2>10
  <2>12. SubSeq(all, (i - 1) * Block + 1, ((i - 1) + 1) * Block) = Positions(b + c, (b + c) + Block)
    <3>1. SubSeq(Positions(b, e), c + 1, c + Block) = Positions(b + c, (b + c) + Block)
      <4> HIDE DEF b, c
      <4> QED
        BY <2>8, <2>9
    <3> QED
      BY <2>2, <3>1
  <2> QED
    BY <2>11, <2>12
<1> QED
  BY <1>1, <1>2, <1>4, <1>5, <1>6, <1>7

\* What depends on the plain text alone stays.
LEMMA SamePlain ==
  ASSUME plain' = plain
  PROVE  Genuine' = Genuine /\ Blocks' = Blocks /\ \A n : SealedTo(n)' = SealedTo(n)
BY DEF Genuine, Blocks, BlockSize, SealedTo, Frames, FrameOf

\* StreamingEncryptor seals block after block, however it is fed.
LEMMA EncInit ==
  ASSUME CipherInit
  PROVE  EncOK
<1>1. Inputs
  BY DEF CipherInit, Inputs
<1>2. plain \in Nat /\ Block > 0 /\ Block \in Nat /\ Blocks \in Nat
  BY <1>1, InputsAre
<1>3. SealedTo(0) = Header
  <2>1. SealedTo(0) = Header \o <<>>
    BY JoinedNone DEF SealedTo
  <2>2. Header \o <<>> = Header
    BY <1>1, HeaderIs, ConcatEmptySeq
  <2> QED
    BY <2>1, <2>2
<1>4. Positions(0 * Block, 0) = <<>> /\ 0 * Block = 0
  <2>1. 0 * Block = 0
    BY <1>2
  <2>2. Positions(0, 0) = <<>>
    BY PositionsAre
  <2> QED
    BY <2>1, <2>2
<1>5. enc = [fed |-> 0, buf |-> <<>>, idx |-> 0, done |-> FALSE] /\ cipher = Header /\ damage = "none" /\ dec = FirstDec
  BY DEF CipherInit, FirstDec
<1>6. Header \in Seq(Genuine)
  BY <1>1, HeaderIs
<1>7. enc \in [fed : Nat, buf : Seq(Int), idx : Nat, done : BOOLEAN]
  BY <1>5
<1> HIDE DEF FirstDec
<1> QED
  BY <1>2, <1>3, <1>4, <1>5, <1>6, <1>7 DEF EncOK

LEMMA EncFeedKeeps ==
  ASSUME Inputs, EncOK, EncFeed
  PROVE  EncOK'
<1>1. PICK k \in Piece \cap 1 .. plain - enc.fed :
        LET all == enc.buf \o Positions(enc.fed, enc.fed + k)
            full == Len(all) \div Block
            block(i) == SubSeq(all, i * Block + 1, (i + 1) * Block)
            frames == [i \in 1 .. full |-> Frame(block(i - 1), enc.idx + i - 1)]
        IN  /\ cipher' = cipher \o FlattenSeq(frames)
            /\ enc' = [enc EXCEPT !.fed = @ + k, !.idx = @ + full, !.buf = SubSeq(all, full * Block + 1, Len(all))]
            /\ UNCHANGED <<plain, declared, wanted, damage, dec>>
  BY DEF EncFeed
<1>2. /\ enc \in [fed : Nat, buf : Seq(Int), idx : Nat, done : BOOLEAN]
      /\ enc.fed <= plain /\ enc.idx * Block <= enc.fed /\ enc.fed < enc.idx * Block + Block
      /\ enc.buf = IF enc.done THEN <<>> ELSE Positions(enc.idx * Block, enc.fed)
      /\ ~enc.done => cipher = SealedTo(enc.idx) /\ damage = "none" /\ dec = FirstDec
      /\ enc.done => enc.fed = plain
      /\ cipher \in Seq(Genuine)
  BY DEF EncOK
<1>3. plain \in Nat /\ Block \in Nat /\ Block > 0 /\ Blocks \in Nat
  BY InputsAre
<1>4. k \in Nat /\ k > 0 /\ enc.fed + k <= plain /\ enc.fed \in Nat /\ enc.idx \in Nat
  BY <1>2, <1>3 DEF Piece
<1>5. ~enc.done
  BY <1>2, <1>3, <1>4
<1> DEFINE m == enc.idx
           b == m * Block
           e == enc.fed + k
           all == Positions(b, e)
           full == Len(all) \div Block
           frames == [i \in 1 .. full |-> Frame(SubSeq(all, (i - 1) * Block + 1, ((i - 1) + 1) * Block), m + i - 1)]
<1>6. enc.buf \o Positions(enc.fed, enc.fed + k) = all
  <2>1. b \in Nat
    BY <1>4, Times
  <2>2. enc.buf = Positions(b, enc.fed) /\ b <= enc.fed
    BY <1>2, <1>5
  <2>3. b \in Int /\ enc.fed \in Int /\ e \in Int /\ enc.fed <= e
    BY <1>4, <2>1
  <2> HIDE DEF b, e
  <2>4. Then(Positions(b, enc.fed), Positions(enc.fed, e)) = Positions(b, e)
    BY <2>2, <2>3, PositionsThen
  <2>5. Then(enc.buf, Positions(enc.fed, enc.fed + k)) = Positions(b, e)
    BY <2>2, <2>4 DEF e
  <2> QED
    BY <2>5 DEF Then
<1>7. /\ full \in Nat /\ m + full <= Blocks /\ Len(all) = e - b
      /\ (m + full) * Block <= e /\ e < (m + full) * Block + Block
      /\ SubSeq(all, full * Block + 1, Len(all)) = Positions((m + full) * Block, e)
      /\ \A i \in 1 .. full :
           Frame(SubSeq(all, (i - 1) * Block + 1, ((i - 1) + 1) * Block), m + i - 1) = FrameOf(m + i)
  <2>1. m \in Nat /\ e \in Int /\ m * Block <= e /\ e <= plain
    <3>1. b \in Nat /\ b <= enc.fed
      BY <1>2, <1>4, Times
    <3> QED
      BY <1>4, <3>1
  <2> HIDE DEF m, e
  <2> QED
    BY <2>1, WholeBlocks
<1>8. /\ cipher' = cipher \o FlattenSeq(frames)
      /\ enc' = [enc EXCEPT !.fed = e, !.idx = m + full, !.buf = SubSeq(all, full * Block + 1, Len(all))]
      /\ UNCHANGED <<plain, declared, wanted, damage, dec>>
  BY <1>1, <1>6
<1>9. FlattenSeq(frames) = Joined(frames, full)
  <2>1. [i \in 1 .. full |-> frames[i]] = frames
    OBVIOUS
  <2> HIDE DEF frames, full
  <2> QED
    BY <2>1 DEF Joined
<1>10. \A i \in 1 .. full : frames[i] = FrameOf(m + i)
  BY <1>7
<1>21. m \in Nat /\ m + full \in Nat /\ e \in Nat /\ e <= plain /\ (m + full) * Block \in Nat
  <2>1. m \in Nat /\ e \in Nat /\ e <= plain
    BY <1>4
  <2> HIDE DEF full, m, e
  <2>2. m + full \in Nat
    BY <1>7, <2>1
  <2> QED
    BY <2>1, <2>2, Times
<1> HIDE DEF m, b, e, all, full, frames
<1>11. cipher = SealedTo(m)
  BY <1>2, <1>5 DEF m
<1>12. Then(SealedTo(m), Joined(frames, full)) = SealedTo(m + full)
  BY <1>4, <1>7, <1>10, SealedAdds DEF m
<1>13. cipher' = SealedTo(m + full)
  BY <1>8, <1>9, <1>11, <1>12 DEF Then
<1>14. SealedTo(m + full) \in Seq(Genuine)
  BY <1>3, <1>7, <1>21, SealedSeq
<1>15. Positions((m + full) * Block, e) \in Seq(Int)
  <2> DEFINE t == (m + full) * Block
  <2>1. t \in Nat
    BY <1>21
  <2> HIDE DEF t
  <2>2. Positions(t, e) \in Seq(Int)
    BY <1>21, <2>1, PositionsAre
  <2> QED
    BY <2>2 DEF t
<1> DEFINE r == SubSeq(all, full * Block + 1, Len(all))
           f == m + full
<1>16. enc' = [enc EXCEPT !.fed = e, !.idx = f, !.buf = r]
  BY <1>8
<1>22. r = Positions(f * Block, e) /\ f \in Nat /\ r \in Seq(Int)
  BY <1>7, <1>15, <1>21
<1> HIDE DEF r
<1>17. e \in Nat /\ e <= plain /\ f * Block <= e /\ e < f * Block + Block /\ cipher' = SealedTo(f) /\ SealedTo(f) \in Seq(Genuine)
  BY <1>7, <1>13, <1>14, <1>21
<1> HIDE DEF f
<1>18. /\ enc' \in [fed : Nat, buf : Seq(Int), idx : Nat, done : BOOLEAN]
       /\ enc'.fed = e /\ enc'.idx = f /\ enc'.buf = r /\ enc'.done = FALSE
  BY <1>2, <1>5, <1>16, <1>17, <1>22
<1>19. damage' = "none" /\ dec' = FirstDec /\ plain' = plain
  BY <1>2, <1>5, <1>8
<1>20. FirstDec' = FirstDec
  BY DEF FirstDec
<1> HIDE DEF FirstDec
<1> QED
  BY <1>17, <1>18, <1>19, <1>20, <1>22, SamePlain DEF EncOK

LEMMA EncFinalizeKeeps ==
  ASSUME Inputs, EncOK, EncFinalize
  PROVE  EncOK'
<1>1. /\ enc.fed = plain /\ ~enc.done
      /\ cipher' = IF enc.buf = <<>> THEN cipher ELSE cipher \o Frame(enc.buf, enc.idx)
      /\ enc' = [enc EXCEPT !.done = TRUE, !.buf = <<>>]
      /\ UNCHANGED <<plain, declared, wanted, damage, dec>>
  BY DEF EncFinalize
<1>2. /\ enc \in [fed : Nat, buf : Seq(Int), idx : Nat, done : BOOLEAN]
      /\ enc.idx * Block <= plain /\ plain < enc.idx * Block + Block
      /\ enc.buf = Positions(enc.idx * Block, plain)
      /\ cipher = SealedTo(enc.idx) /\ damage = "none"
  BY <1>1 DEF EncOK
<1>3. plain \in Nat /\ Block \in Nat /\ Block > 0 /\ Blocks \in Nat
  BY InputsAre
<1> DEFINE m == enc.idx
           b == m * Block
<1>4. m \in Nat /\ b \in Nat /\ (m + 1) * Block = b + Block /\ b <= plain /\ plain < b + Block
  BY <1>2, Times
<1>5. ~(m + 1 < Blocks)
  <2>1. m + 1 \in Nat /\ ~((m + 1) * Block < plain)
    BY <1>3, <1>4
  <2> QED
    BY <1>3, <2>1, BlocksAre
<1>6. cipher' = SealedTo(Blocks)
  <2>1. CASE b = plain
    <3>1. enc.buf = <<>>
      BY <1>2, <1>3, <2>1, PositionsAre
    <3>2. m = Blocks
      <4>1. ~(m < Blocks)
        BY <1>3, <1>4, <2>1, BlocksAre
      <4>2. CASE m = 0
        BY <1>3, <4>1, <4>2
      <4>3. CASE m # 0
        <5>1. m - 1 \in Nat /\ (m - 1) + 1 = m
          BY <1>4, <4>3
        <5>2. ((m - 1) + 1) * Block = (m - 1) * Block + Block /\ (m - 1) * Block \in Nat
          BY <5>1, Times
        <5>3. (m - 1) * Block < plain
          BY <1>3, <2>1, <5>1, <5>2
        <5>4. m - 1 < Blocks
          BY <1>3, <5>1, <5>3, BlocksAre
        <5> QED
          BY <1>3, <1>4, <4>1, <5>4
      <4> QED
        BY <4>2, <4>3
    <3> QED
      BY <1>1, <1>2, <3>1, <3>2
  <2>2. CASE b < plain
    <3>1. m < Blocks
      BY <1>3, <1>4, <2>2, BlocksAre
    <3>2. m + 1 = Blocks
      BY <1>3, <1>4, <1>5, <3>1
    <3>3. BlockSize(m) = plain - b
      <4>1. BlockSize(m) = (IF m * Block + Block <= plain THEN Block ELSE plain - m * Block)
        BY <1>3, <1>4, <3>1, SizesAre
      <4> QED
        BY <1>3, <1>4, <4>1
    <3>4. FrameOf(m + 1) = Frame(Positions(b, b + BlockSize(m)), m)
      BY <1>4, <3>1, FrameOfBlock
    <3>5. FrameOf(m + 1) = Frame(enc.buf, enc.idx)
      <4> HIDE DEF b
      <4>1. b + BlockSize(m) = plain
        BY <1>3, <1>4, <3>3
      <4> QED
        BY <1>2, <3>4, <4>1 DEF b
    <3>6. SealedTo(m + 1) = SealedTo(m) \o FrameOf(m + 1)
      BY <1>4, <3>1, SealedMore
    <3>7. enc.buf # <<>>
      <4>1. Len(enc.buf) = plain - b
        <5> HIDE DEF b
        <5>1. enc.buf = Positions(b, plain)
          BY <1>2 DEF b
        <5> QED
          BY <1>3, <1>4, <5>1, PositionsAre
      <4> QED
        BY <1>3, <1>4, <2>2, <4>1
    <3> HIDE DEF b, m
    <3>8. cipher' = cipher \o Frame(enc.buf, enc.idx)
      BY <1>1, <3>7
    <3>9. cipher = SealedTo(m)
      BY <1>2 DEF m
    <3> QED
      BY <3>2, <3>5, <3>6, <3>8, <3>9
  <2> QED
    <3> HIDE DEF b
    <3> QED
      BY <1>3, <1>4, <2>1, <2>2
<1>7. SealedTo(Blocks) \in Seq(Genuine)
  BY <1>3, SealedSeq
<1>8. enc' = [fed |-> plain, buf |-> <<>>, idx |-> enc.idx, done |-> TRUE]
  BY <1>1, <1>2
<1>9. enc' \in [fed : Nat, buf : Seq(Int), idx : Nat, done : BOOLEAN]
  BY <1>2, <1>3, <1>8
<1>10. damage' = "none" /\ plain' = plain
  BY <1>1, <1>2
<1> HIDE DEF m, b
<1> QED
  BY <1>2, <1>6, <1>7, <1>8, <1>9, <1>10, SamePlain DEF EncOK

-----------------------------------------------------------------------------
(* What a decryptor makes of a block *)

\* Where the members of a sequence are.
LEMMA SeqAlso ==
  ASSUME NEW S, NEW T, NEW s \in Seq(S), \A j \in 1 .. Len(s) : s[j] \in T
  PROVE  s \in Seq(T)
OBVIOUS

\* A frame that opens is one that was sealed: its tag was made for a block.
LEMMA FrameOpened ==
  ASSUME Inputs, NEW i \in Nat, NEW ct \in Seq(Genuine), Verifies(ct, i)
  PROVE  /\ i < Blocks /\ Len(ct) = BlockSize(i) + 1
         /\ \A j \in 1 .. BlockSize(i) : ct[j].n = i * Block + j - 1
<1>1. i * Block \in Nat /\ Block \in Nat
  BY Times
<1>2. PICK k \in 1 .. Block : ct = Tail(Frame(Positions(i * Block, i * Block + k), i))
  BY DEF Verifies
<1> DEFINE b == i * Block
           p == Positions(b, b + k)
           f == Frame(p, i)
<1>3. k \in Nat /\ k >= 1 /\ b \in Nat
  BY <1>1, <1>2
<1>4. p \in Seq(Int) /\ Len(p) = k /\ \A j \in 1 .. k : p[j] = b + j - 1
  <2> HIDE DEF b
  <2>1. b \in Int /\ b + k \in Int /\ b <= b + k /\ (b + k) - b = k
    BY <1>3
  <2> QED
    BY <2>1, PositionsAre
<1> HIDE DEF b, p
<1>5. /\ f \in Seq(AnyUnit) /\ Len(f) = k + 2
      /\ \A j \in 1 .. k : f[j + 1] = ByteUnit(p[j], i)
      /\ f[k + 2] = TagUnit(k, i)
  <2>1. p \in Seq(Int) /\ i \in Int
    BY <1>4
  <2>2. /\ Frame(p, i) \in Seq(AnyUnit) /\ Len(Frame(p, i)) = Len(p) + 2
        /\ \A j \in 1 .. Len(p) : Frame(p, i)[j + 1] = ByteUnit(p[j], i)
        /\ Frame(p, i)[Len(p) + 2] = TagUnit(Len(p), i)
    BY <2>1, FrameIs
  <2> QED
    BY <1>4, <2>2
<1>6. ct = Tail(f)
  BY <1>2 DEF p, b
<1> HIDE DEF f
<1>7. Len(ct) = k + 1 /\ \A j \in 1 .. k + 1 : ct[j] = f[j + 1]
  <2>1. f # <<>>
    BY <1>3, <1>5
  <2>2. Len(Tail(f)) = Len(f) - 1 /\ \A j \in 1 .. Len(Tail(f)) : Tail(f)[j] = f[j + 1]
    BY <1>5, <2>1, HeadTailProperties
  <2> QED
    BY <1>3, <1>5, <1>6, <2>2
<1>8. ct[k + 1] = TagUnit(k, i)
  BY <1>3, <1>5, <1>7, k + 1 \in 1 .. k + 1, (k + 1) + 1 = k + 2
<1>9. TagUnit(k, i) \in Genuine
  BY <1>3, <1>7, <1>8, k + 1 \in 1 .. Len(ct)
<1>10. i < Blocks /\ k = BlockSize(i)
  BY <1>9 DEF Genuine, TagUnit
<1>11. ASSUME NEW j \in 1 .. k PROVE ct[j].n = b + j - 1
  <2>1. j \in 1 .. k + 1
    BY <1>3
  <2>2. ct[j] = ByteUnit(p[j], i)
    BY <1>5, <1>7, <2>1
  <2>3. ct[j] = ByteUnit(b + j - 1, i)
    BY <1>4, <2>2
  <2> QED
    BY <2>3 DEF ByteUnit
<1> QED
  BY <1>7, <1>10, <1>11 DEF b

\* How much has come out: before the range nothing, after it all of it.
LEMMA OutToIs ==
  ASSUME Inputs, NEW i \in Nat
  PROVE  /\ wanted.from \in Nat /\ WantedTo \in Nat /\ WantedTo <= plain /\ wanted.from <= WantedTo
         /\ OutTo(i) = LET b == i * Block
                           u == IF WantedTo <= b THEN WantedTo ELSE b
                       IN  IF wanted.from <= u THEN u ELSE wanted.from
<1>1. plain \in Nat /\ i * Block \in Nat
  BY InputsAre, Times
<1>2. wanted.from \in Nat /\ WantedTo \in Nat /\ WantedTo <= plain /\ wanted.from <= WantedTo
  BY <1>1 DEF Inputs, WantedTo
<1> DEFINE b == i * Block
           u == IF WantedTo <= b THEN WantedTo ELSE b
<1>3. Min({WantedTo, b}) = u
  BY <1>1, <1>2, MinIs
<1>4. u \in Nat
  BY <1>1, <1>2
<1>5. Max({wanted.from, u}) = IF wanted.from <= u THEN u ELSE wanted.from
  <2> HIDE DEF u
  <2> QED
    BY <1>2, <1>4, MaxIs
<1> QED
  BY <1>2, <1>3, <1>5 DEF OutTo

\* A block that is passed over has nothing of the range.
LEMMA SkippedOut ==
  ASSUME Inputs, NEW i \in Nat, Skips(i)
  PROVE  OutTo(i + 1) = OutTo(i)
<1> DEFINE b == i * Block
           c == (i + 1) * Block
<1>1. b \in Nat /\ c = b + Block /\ Block \in Nat /\ c <= wanted.from
  BY Times DEF Skips
<1>2. /\ wanted.from \in Nat /\ WantedTo \in Nat
      /\ OutTo(i) = LET u == IF WantedTo <= b THEN WantedTo ELSE b
                    IN  IF wanted.from <= u THEN u ELSE wanted.from
      /\ wanted.from <= WantedTo
  BY OutToIs
<1>3. OutTo(i + 1) = LET u == IF WantedTo <= c THEN WantedTo ELSE c
                     IN  IF wanted.from <= u THEN u ELSE wanted.from
  BY OutToIs, i + 1 \in Nat
<1> HIDE DEF b, c
<1> QED
  BY <1>1, <1>2, <1>3

\* The slice of a block that was opened is what comes next of the range.
LEMMA SliceIs ==
  ASSUME Inputs, NEW i \in Nat, NEW ct \in Seq(Genuine), Verifies(ct, i), ~Skips(i)
  PROVE  /\ Slice(ct, i) \in Seq(0 .. MaxPlain)
         /\ Stated => Then(Positions(wanted.from, OutTo(i)), Slice(ct, i)) = Positions(wanted.from, OutTo(i + 1))
<1> DEFINE b == i * Block
           c == (i + 1) * Block
           n == BlockSize(i)
           lo == IF b <= wanted.from THEN wanted.from - b ELSE 0
           end == LastUnit(n, i)
           hi == IF n <= end THEN n ELSE end
<1>1. /\ i < Blocks /\ Len(ct) = n + 1 /\ \A j \in 1 .. n : ct[j].n = b + j - 1
  BY FrameOpened
<1>2. /\ b \in Nat /\ c = b + Block /\ Block \in Nat /\ Block > 0 /\ wanted.from < c
      /\ plain \in Nat /\ plain <= MaxPlain /\ MaxPlain \in Nat /\ declared \in Nat
  <2>1. b \in Nat /\ c = b + Block
    BY Times
  <2>2. Block \in Nat /\ Block > 0 /\ plain \in Nat /\ plain <= MaxPlain /\ MaxPlain \in Nat
    BY InputsAre
  <2>3. wanted.from \in Nat /\ declared \in Nat
    BY <2>2 DEF Inputs
  <2> QED
    BY <2>1, <2>2, <2>3 DEF Skips
<1>3. n \in 1 .. Block /\ n = (IF b + Block <= plain THEN Block ELSE plain - b) /\ b < plain
  BY <1>1, <1>2, SizesAre, BlocksAre
<1>4. /\ wanted.from \in Nat /\ WantedTo \in Nat /\ WantedTo <= plain /\ wanted.from <= WantedTo
      /\ OutTo(i) = LET u == IF WantedTo <= b THEN WantedTo ELSE b
                    IN  IF wanted.from <= u THEN u ELSE wanted.from
  BY OutToIs
<1>5. OutTo(i + 1) = LET u == IF WantedTo <= c THEN WantedTo ELSE c
                     IN  IF wanted.from <= u THEN u ELSE wanted.from
  BY OutToIs, i + 1 \in Nat
<1>6. wanted.to \in Int /\ WantedTo = (IF wanted.to = -1 THEN plain ELSE wanted.to)
  BY DEF Inputs, WantedTo
<1>7. FirstUnit(i) = lo
  <2>1. wanted.from - b \in Int
    BY <1>2, <1>4
  <2>2. Max({0, wanted.from - b}) = IF 0 <= wanted.from - b THEN wanted.from - b ELSE 0
    <3> HIDE DEF b
    <3> QED
      BY <2>1, MaxIs
  <2> QED
    BY <1>2, <1>4, <2>2 DEF FirstUnit
<1>8. end = IF wanted.to = -1 THEN declared ELSE IF n <= wanted.to - b THEN n ELSE wanted.to - b
  <2>1. n \in Int /\ wanted.to - b \in Int
    BY <1>2, <1>3, <1>6
  <2>2. Min({n, wanted.to - b}) = IF n <= wanted.to - b THEN n ELSE wanted.to - b
    <3> HIDE DEF b, n
    <3> QED
      BY <2>1, MinIs
  <2> QED
    BY <2>2 DEF LastUnit
<1>9. end \in Int /\ lo \in Nat /\ hi \in Int /\ hi <= n
  <2> HIDE DEF b, n, end
  <2> QED
    BY <1>2, <1>3, <1>4, <1>6, <1>8
<1>10. Slice(ct, i) = IF hi > lo THEN [j \in 1 .. hi - lo |-> ct[lo + j].n] ELSE <<>>
  <2>1. Len(ct) - 1 = n
    BY <1>1, <1>3
  <2>2. Min({n, end}) = hi
    <3> HIDE DEF n, end
    <3> QED
      BY <1>3, <1>9, MinIs
  <2> HIDE DEF n, lo, hi
  <2> QED
    BY <1>7, <2>1, <2>2 DEF Slice
<1> DEFINE p == Positions(b + lo, b + hi)
<1> HIDE DEF b, c, n, lo, hi, end
<1>11. /\ p \in Seq(Int) /\ Len(p) = (IF hi > lo THEN hi - lo ELSE 0)
       /\ \A j \in 1 .. hi - lo : p[j] = b + lo + j - 1
       /\ hi <= lo => p = <<>>
  <2>1. b + lo \in Int /\ b + hi \in Int /\ (b + hi) - (b + lo) = hi - lo
    BY <1>2, <1>9
  <2>2. /\ p \in Seq(Int) /\ Len(p) = (IF b + lo <= b + hi THEN (b + hi) - (b + lo) ELSE 0)
        /\ \A j \in 1 .. (b + hi) - (b + lo) : p[j] = (b + lo) + j - 1
        /\ b + hi <= b + lo => p = <<>>
    BY <2>1, PositionsAre
  <2> HIDE DEF p
  <2> QED
    BY <1>2, <1>9, <2>1, <2>2
<1> HIDE DEF p
<1>12. Slice(ct, i) = p
  <2>1. CASE hi > lo
    <3>1. ASSUME NEW j \in 1 .. hi - lo PROVE ct[lo + j].n = p[j]
      <4>1. lo + j \in 1 .. n
        BY <1>3, <1>9
      <4>2. ct[lo + j].n = b + (lo + j) - 1
        BY <1>1, <4>1
      <4> QED
        BY <1>2, <1>9, <1>11, <4>2
    <3>2. [j \in 1 .. hi - lo |-> ct[lo + j].n] = [j \in 1 .. hi - lo |-> p[j]]
      BY <3>1
    <3>3. p = [j \in 1 .. hi - lo |-> p[j]]
      BY <1>9, <1>11, <2>1
    <3> QED
      BY <1>10, <2>1, <3>2, <3>3
  <2>2. CASE ~(hi > lo)
    BY <1>9, <1>10, <1>11, <2>2
  <2> QED
    BY <2>1, <2>2
<1>13. p \in Seq(0 .. MaxPlain)
  <2>1. ASSUME NEW j \in 1 .. Len(p) PROVE p[j] \in 0 .. MaxPlain
    <3>1. j \in 1 .. hi - lo
      BY <1>9, <1>11
    <3>2. b + lo + j - 1 \in 0 .. MaxPlain
      BY <1>2, <1>3, <1>9, <3>1
    <3> QED
      BY <1>11, <3>1, <3>2
  <2> QED
    BY <1>11, <2>1, SeqAlso
<1>14. ASSUME Stated PROVE Then(Positions(wanted.from, OutTo(i)), p) = Positions(wanted.from, OutTo(i + 1))
  <2>1. declared >= n
    <3>1. declared >= Min({plain, Block})
      BY <1>14 DEF Stated
    <3>2. Min({plain, Block}) = IF plain <= Block THEN plain ELSE Block
      BY <1>2, MinIs
    <3> QED
      BY <1>2, <1>3, <3>1, <3>2
  <2>2. hi = IF n <= WantedTo - b THEN n ELSE WantedTo - b
    BY <1>2, <1>3, <1>4, <1>6, <1>8, <2>1 DEF hi
  <2>3. CASE WantedTo <= b
    <3>1. hi <= lo
      BY <1>2, <1>3, <1>4, <1>9, <2>2, <2>3
    <3>2. OutTo(i) = WantedTo /\ OutTo(i + 1) = WantedTo
      BY <1>2, <1>4, <1>5, <2>3
    <3>3. Positions(wanted.from, WantedTo) \in Seq(Int) /\ p = <<>>
      <4>1. wanted.from \in Int /\ WantedTo \in Int
        BY <1>4
      <4>2. Positions(wanted.from, WantedTo) \in Seq(Int)
        BY <4>1, PositionsAre
      <4> QED
        BY <1>11, <3>1, <4>2
    <3>4. Then(Positions(wanted.from, WantedTo), <<>>) = Positions(wanted.from, WantedTo)
      BY <3>3, ConcatEmptySeq DEF Then
    <3> QED
      BY <3>2, <3>3, <3>4
  <2>4. CASE ~(WantedTo <= b)
    <3>1. OutTo(i) = b + lo
      BY <1>2, <1>4, <2>4 DEF lo
    <3>2. OutTo(i + 1) = b + hi
      BY <1>2, <1>3, <1>4, <1>5, <2>2, <2>4
    <3>3. wanted.from <= b + lo /\ b + lo <= b + hi /\ b + lo \in Int /\ b + hi \in Int
      BY <1>2, <1>3, <1>4, <1>9, <2>2, <2>4 DEF lo
    <3>4. Then(Positions(wanted.from, b + lo), Positions(b + lo, b + hi)) = Positions(wanted.from, b + hi)
      BY <1>4, <3>3, PositionsThen
    <3> QED
      BY <3>1, <3>2, <3>4 DEF p
  <2> QED
    BY <2>3, <2>4
<1> QED
  BY <1>12, <1>13, <1>14

-----------------------------------------------------------------------------
(* StreamingDecryptor, turn by turn *)

\* What is left of the fed units from the frame of block i on.
Left(buf, i, fed) == buf = SubSeq(cipher, Offset(i) + 1, fed)

\* What StreamingDecryptor holds and has given out: so far, nothing but the beginning of
\* the range; and of an undamaged object, it is always at the beginning of a frame.
Consumed(e) ==
  /\ e.state # "error" /\ e.idx <= Blocks
  /\ e.state = "head" => e.idx = 0 /\ e.buf = SubSeq(cipher, 1, e.fed)
  /\ e.state = "blocks" => Offset(e.idx) <= e.fed /\ Left(e.buf, e.idx, e.fed)
  /\ e.state = "closed" => OutTo(e.idx) = WantedTo
\* Its states, and what holds in all of them.
DecStates == [state : {"head", "blocks", "done", "closed", "error"}, fed : Nat, buf : Seq(Genuine), idx : Nat,
              out : Seq(0 .. MaxPlain)]
DecOK(e) ==
  /\ e \in DecStates /\ e.fed <= Len(cipher)
  /\ Stated => e.out = Positions(wanted.from, OutTo(e.idx))
  /\ e.state = "done" => wanted.to # -1 /\ wanted.to <= e.idx * Block
  /\ damage = "none" => Consumed(e)
\* What is stored.
Stored == cipher \in Seq(Genuine) /\ (damage = "none" => cipher = SealedTo(Blocks))

\* The end of a stretch is a stretch.
LEMMA SubSeqAgain ==
  ASSUME NEW T, NEW s \in Seq(T), NEW a \in Nat, NEW b \in Nat, NEW m \in Nat, a + m <= b, b <= Len(s)
  PROVE  SubSeq(SubSeq(s, a + 1, b), m + 1, b - a) = SubSeq(s, a + m + 1, b)
<1> DEFINE t == SubSeq(s, a + 1, b)
           x == SubSeq(t, m + 1, b - a)
           y == SubSeq(s, a + m + 1, b)
<1>1. t \in Seq(T) /\ Len(t) = b - a /\ \A j \in 1 .. b - a : t[j] = s[a + j]
  <2>1. /\ t \in Seq(T) /\ Len(t) = (IF a + 1 <= b THEN b - (a + 1) + 1 ELSE 0)
        /\ \A j \in 1 .. b - (a + 1) + 1 : t[j] = s[(a + 1) + j - 1]
    BY SubSeqIs
  <2>2. ASSUME NEW j \in 1 .. b - a PROVE t[j] = s[a + j]
    <3>1. j \in 1 .. b - (a + 1) + 1 /\ (a + 1) + j - 1 = a + j
      OBVIOUS
    <3> HIDE DEF t
    <3> QED
      BY <2>1, <3>1
  <2> HIDE DEF t
  <2> QED
    BY <2>1, <2>2
<1> HIDE DEF t
<1>2. /\ x \in Seq(T) /\ Len(x) = (IF m + 1 <= b - a THEN (b - a) - (m + 1) + 1 ELSE 0)
      /\ \A j \in 1 .. (b - a) - (m + 1) + 1 : x[j] = t[(m + 1) + j - 1]
  BY <1>1, SubSeqIs
<1>3. /\ y \in Seq(T) /\ Len(y) = (IF a + m + 1 <= b THEN b - (a + m + 1) + 1 ELSE 0)
      /\ \A j \in 1 .. b - (a + m + 1) + 1 : y[j] = s[(a + m + 1) + j - 1]
  BY SubSeqIs
<1> HIDE DEF x, y
<1>4. Len(x) = Len(y)
  BY <1>2, <1>3
<1>5. ASSUME NEW j \in 1 .. Len(x) PROVE x[j] = y[j]
  <2>1. /\ j \in 1 .. (b - a) - (m + 1) + 1 /\ j \in 1 .. b - (a + m + 1) + 1
        /\ (m + 1) + j - 1 \in 1 .. b - a /\ a + ((m + 1) + j - 1) = (a + m + 1) + j - 1
    BY <1>2
  <2>2. t[(m + 1) + j - 1] = s[a + ((m + 1) + j - 1)]
    BY <1>1, <2>1
  <2> QED
    BY <1>2, <1>3, <2>1, <2>2
<1>6. x = y
  BY <1>2, <1>3, <1>4, <1>5, SeqEqual
<1> QED
  BY <1>6 DEF x, y, t

\* At the beginning of a frame of an undamaged object its length is read, and once there
\* is enough of it, the tag verifies what follows.
LEMMA WholeFrame ==
  ASSUME Inputs, cipher = SealedTo(Blocks), NEW i \in Nat, i <= Blocks, NEW fed \in Nat,
         Offset(i) <= fed, fed <= Len(cipher), NEW buf, Left(buf, i, fed), buf # <<>>
  PROVE  /\ i < Blocks /\ buf[1].n = BlockSize(i) + 1 /\ BlockSize(i) \in Nat /\ BlockSize(i) >= 1
         /\ BlockSize(i) + 2 <= Len(buf) =>
              /\ Verifies(SubSeq(buf, 2, BlockSize(i) + 2), i)
              /\ Offset(i + 1) <= fed
              /\ Left(SubSeq(buf, BlockSize(i) + 3, Len(buf)), i + 1, fed)
         /\ fed = Len(cipher) => BlockSize(i) + 2 <= Len(buf)
<1>1. plain \in Nat /\ Blocks \in Nat
  BY InputsAre
<1>2. cipher \in Seq(Genuine) /\ Len(cipher) = Offset(Blocks) /\ Offset(i) \in Nat /\ Offset(Blocks) \in Nat
  BY <1>1, SealedSeq, SealedLen, OffsetsUp
<1> DEFINE o == Offset(i)
           n == BlockSize(i)
<1>3. /\ buf \in Seq(Genuine) /\ Len(buf) = (IF o + 1 <= fed THEN fed - o ELSE 0)
      /\ \A j \in 1 .. fed - o : buf[j] = cipher[o + j]
  <2>1. o + 1 \in Int /\ fed \in Int /\ 1 <= o + 1 /\ fed <= Len(cipher)
    BY <1>2
  <2> HIDE DEF o
  <2>2. /\ SubSeq(cipher, o + 1, fed) \in Seq(Genuine)
        /\ Len(SubSeq(cipher, o + 1, fed)) = (IF o + 1 <= fed THEN fed - (o + 1) + 1 ELSE 0)
        /\ \A j \in 1 .. fed - (o + 1) + 1 : SubSeq(cipher, o + 1, fed)[j] = cipher[(o + 1) + j - 1]
    BY <1>2, <2>1, SubSeqIs
  <2>3. fed - (o + 1) + 1 = fed - o /\ \A j \in 1 .. fed - o : (o + 1) + j - 1 = o + j
    BY <1>2 DEF o
  <2>4. buf = SubSeq(cipher, o + 1, fed)
    BY DEF o, Left
  <2> QED
    BY <2>2, <2>3, <2>4
<1>4. o + 1 <= fed
  BY <1>3
<1>5. i < Blocks
  BY <1>1, <1>2, <1>4
<1>6. n \in Nat /\ n >= 1 /\ Offset(i + 1) = o + n + 2
  <2>1. Offset(i + 1) = Offset(i) + BlockSize(i) + 2 /\ BlockSize(i) \in 1 .. Block /\ Block \in Nat
    BY <1>1, <1>5, SizesAre, InputsAre
  <2> QED
    BY <2>1
<1>7. \A j \in 1 .. n + 2 : cipher[o + j] = UnitAt(i, j)
  BY <1>1, <1>5, SealedAt
<1>8. buf[1].n = n + 1
  <2>1. 1 \in 1 .. fed - o /\ 1 \in 1 .. n + 2
    BY <1>2, <1>4, <1>6
  <2>2. buf[1] = UnitAt(i, 1)
    BY <1>3, <1>7, <2>1
  <2>3. UnitAt(i, 1) = LengthUnit(n)
    BY DEF UnitAt
  <2>4. LengthUnit(n).n = n + 1
    BY DEF LengthUnit
  <2> HIDE DEF n
  <2> QED
    BY <2>2, <2>3, <2>4
<1>9. ASSUME n + 2 <= Len(buf)
      PROVE  /\ Verifies(SubSeq(buf, 2, n + 2), i)
             /\ Offset(i + 1) <= fed
             /\ Left(SubSeq(buf, n + 3, Len(buf)), i + 1, fed)
  <2>1. o + n + 2 <= fed /\ Len(buf) = fed - o
    BY <1>2, <1>3, <1>4, <1>6, <1>9
  <2> DEFINE f == FrameOf(i + 1)
             ct == SubSeq(buf, 2, n + 2)
  <2>2. /\ f \in Seq(Genuine) /\ Len(f) = n + 2 /\ \A j \in 1 .. n + 2 : f[j] = UnitAt(i, j)
        /\ f = Frame(Positions(i * Block, i * Block + n), i)
    BY <1>5, FrameOfBlock
  <2> HIDE DEF f, n, o
  <2>3. ct \in Seq(Genuine) /\ Len(ct) = n + 1 /\ \A j \in 1 .. n + 1 : ct[j] = buf[j + 1]
    <3>1. /\ ct \in Seq(Genuine) /\ Len(ct) = (IF 2 <= n + 2 THEN (n + 2) - 2 + 1 ELSE 0)
          /\ \A j \in 1 .. (n + 2) - 2 + 1 : ct[j] = buf[2 + j - 1]
      <4>1. 2 \in Int /\ n + 2 \in Int /\ 1 <= 2 /\ n + 2 <= Len(buf)
        BY <1>6, <1>9
      <4> QED
        BY <1>3, <4>1, SubSeqIs
    <3>2. (n + 2) - 2 + 1 = n + 1 /\ 2 <= n + 2 /\ \A j \in 1 .. n + 1 : 2 + j - 1 = j + 1
      BY <1>6
    <3> QED
      BY <3>1, <3>2
  <2>4. Tail(f) \in Seq(Genuine) /\ Len(Tail(f)) = n + 1 /\ \A j \in 1 .. n + 1 : Tail(f)[j] = f[j + 1]
    <3>1. f # <<>>
      BY <1>6, <2>2
    <3>2. Tail(f) \in Seq(Genuine) /\ Len(Tail(f)) = Len(f) - 1 /\ \A j \in 1 .. Len(Tail(f)) : Tail(f)[j] = f[j + 1]
      BY <2>2, <3>1, HeadTailProperties
    <3> QED
      BY <1>6, <2>2, <3>2
  <2> HIDE DEF ct
  <2>5. ASSUME NEW j \in 1 .. n + 1 PROVE ct[j] = Tail(f)[j]
    <3>1. j + 1 \in 1 .. fed - o /\ j + 1 \in 1 .. n + 2
      BY <1>2, <1>6, <2>1 DEF o
    <3>2. buf[j + 1] = f[j + 1]
      BY <1>3, <1>7, <2>2, <3>1
    <3> QED
      BY <2>3, <2>4, <3>2
  <2>6. ct = Tail(f)
    BY <2>3, <2>4, <2>5, SeqEqual
  <2>7. n \in 1 .. Block
    BY <1>1, <1>5, SizesAre DEF n
  <2>8. Verifies(ct, i)
    BY <2>2, <2>6, <2>7 DEF Verifies
  <2>9. SubSeq(buf, n + 3, Len(buf)) = SubSeq(cipher, Offset(i + 1) + 1, fed)
    <3>0. o \in Nat /\ fed \in Nat /\ n + 2 \in Nat /\ o + (n + 2) <= fed /\ fed <= Len(cipher)
      BY <1>2, <1>6, <2>1 DEF o
    <3> DEFINE m == n + 2
    <3>4. m \in Nat /\ o + m <= fed
      BY <3>0
    <3> HIDE DEF m
    <3>5. SubSeq(SubSeq(cipher, o + 1, fed), m + 1, fed - o) = SubSeq(cipher, o + m + 1, fed)
      BY <1>2, <3>0, <3>4, SubSeqAgain
    <3>1. SubSeq(SubSeq(cipher, o + 1, fed), (n + 2) + 1, fed - o) = SubSeq(cipher, o + (n + 2) + 1, fed)
      BY <3>5 DEF m
    <3>2. (n + 2) + 1 = n + 3 /\ o + (n + 2) + 1 = Offset(i + 1) + 1
      BY <1>6, <3>0
    <3>3. buf = SubSeq(cipher, o + 1, fed)
      BY DEF o, Left
    <3> QED
      BY <2>1, <3>1, <3>2, <3>3
  <2> QED
    BY <1>6, <2>1, <2>8, <2>9 DEF ct, Left
<1>10. ASSUME fed = Len(cipher) PROVE n + 2 <= Len(buf)
  <2>1. Offset(i + 1) <= Offset(Blocks)
    BY <1>1, <1>5, OffsetsUp, i + 1 \in Nat, i + 1 <= Blocks
  <2> HIDE DEF o, n
  <2> QED
    BY <1>2, <1>3, <1>4, <1>6, <1>10, <2>1 DEF o
<1> QED
  BY <1>5, <1>6, <1>8, <1>9, <1>10

\* Reading the header.
LEMMA HeadTurn ==
  ASSUME Inputs, Stored, NEW e, DecOK(e), e.state = "head", Len(e.buf) >= HeadUnits
  PROVE  DecOK(Turn(e)) /\ (Turn(e).state = "error" \/ Len(Turn(e).buf) < Len(e.buf))
<1>1. e \in DecStates /\ e.fed <= Len(cipher) /\ HeadUnits = 2
  BY DEF DecOK, HeadUnits
<1>2. cipher \in Seq(Genuine)
  BY DEF Stored
<1> DEFINE head == SubSeq(e.buf, 1, HeadUnits)
           rest == SubSeq(e.buf, HeadUnits + 1, Len(e.buf))
<1>3. Turn(e) = IF HeadOpens(head) THEN [e EXCEPT !.state = "blocks", !.buf = rest] ELSE [e EXCEPT !.state = "error"]
  BY <1>1 DEF Turn, DecStates
<1>4. e.buf \in Seq(Genuine) /\ e.fed \in Nat /\ Len(e.buf) \in Nat
  BY <1>1 DEF DecStates
<1>5. rest \in Seq(Genuine) /\ Len(rest) = Len(e.buf) - 2
  <2>1. /\ rest \in Seq(Genuine)
        /\ Len(rest) = IF HeadUnits + 1 <= Len(e.buf) THEN Len(e.buf) - (HeadUnits + 1) + 1 ELSE 0
    BY <1>1, <1>4, SubSeqIs
  <2> HIDE DEF rest
  <2> QED
    BY <1>1, <1>4, <2>1
<1>6. damage = "none" => HeadOpens(head) /\ e.fed >= 2 /\ rest = SubSeq(cipher, 2 + 1, e.fed)
  <2> SUFFICES ASSUME damage = "none" PROVE HeadOpens(head) /\ e.fed >= 2 /\ rest = SubSeq(cipher, 2 + 1, e.fed)
    OBVIOUS
  <2>1. e.buf = SubSeq(cipher, 1, e.fed) /\ cipher = SealedTo(Blocks)
    BY DEF DecOK, Consumed, Stored
  <2>2. Len(e.buf) = e.fed
    <3>1. Len(SubSeq(cipher, 1, e.fed)) = IF 1 <= e.fed THEN e.fed - 1 + 1 ELSE 0
      BY <1>1, <1>2, <1>4, SubSeqIs
    <3> QED
      BY <1>4, <2>1, <3>1
  <2>3. rest = SubSeq(cipher, 2 + 1, e.fed)
    <3> DEFINE n == e.fed
               s == cipher
    <3>1. n \in Nat /\ 2 <= n /\ n <= Len(s) /\ s \in Seq(Genuine)
      BY <1>1, <1>2, <1>4, <2>2
    <3>2. e.buf = SubSeq(s, 1, n) /\ Len(e.buf) = n
      BY <2>1, <2>2
    <3> HIDE DEF n, s
    <3>3. SubSeq(SubSeq(s, 0 + 1, n), 2 + 1, n - 0) = SubSeq(s, 0 + 2 + 1, n)
      <4> DEFINE a == 0
                 m == 2
      <4>1. a \in Nat /\ m \in Nat /\ a + m <= n
        BY <3>1
      <4> HIDE DEF a, m
      <4>2. SubSeq(SubSeq(s, a + 1, n), m + 1, n - a) = SubSeq(s, a + m + 1, n)
        BY <3>1, <4>1, SubSeqAgain
      <4> QED
        BY <4>2 DEF a, m
    <3>4. 0 + 1 = 1 /\ 2 + 1 = HeadUnits + 1 /\ n - 0 = n /\ 0 + 2 + 1 = 2 + 1
      BY <1>1, <3>1
    <3>5. SubSeq(SubSeq(s, 1, n), HeadUnits + 1, n) = SubSeq(s, 2 + 1, n)
      BY <3>3, <3>4
    <3> QED
      BY <3>2, <3>5 DEF n, s
  <2>4. head = Header
    <3>1. Header \in Seq(Genuine) /\ Len(Header) = 2
      BY <1>1, HeaderIs
    <3>2. /\ head \in Seq(Genuine) /\ Len(head) = 2
          /\ \A j \in 1 .. 2 : head[j] = e.buf[j]
      <4>1. /\ head \in Seq(Genuine) /\ Len(head) = (IF 1 <= HeadUnits THEN HeadUnits - 1 + 1 ELSE 0)
            /\ \A j \in 1 .. HeadUnits - 1 + 1 : head[j] = e.buf[1 + j - 1]
        BY <1>1, <1>4, SubSeqIs
      <4> HIDE DEF head
      <4> QED
        BY <1>1, <4>1
    <3>3. \A j \in 1 .. 2 : e.buf[j] = cipher[j]
      <4>1. \A j \in 1 .. e.fed - 1 + 1 : SubSeq(cipher, 1, e.fed)[j] = cipher[1 + j - 1]
        BY <1>1, <1>2, <1>4, SubSeqIs
      <4>2. \A j \in 1 .. 2 : j \in 1 .. e.fed - 1 + 1 /\ 1 + j - 1 = j
        BY <1>1, <1>4, <2>2
      <4> QED
        BY <2>1, <4>1, <4>2
    <3>4. \A j \in 1 .. 2 : cipher[j] = Header[j]
      <4>1. Blocks \in Nat /\ Blocks <= Blocks /\ HeadUnits = 2
        BY InputsAre DEF HeadUnits
      <4>2. \A j \in 1 .. HeadUnits : SealedTo(Blocks)[j] = Header[j]
        BY <4>1, SealedAt
      <4> QED
        BY <2>1, <4>1, <4>2
    <3> HIDE DEF head
    <3>5. \A j \in 1 .. 2 : head[j] = Header[j]
      BY <3>2, <3>3, <3>4
    <3> QED
      BY <3>1, <3>2, <3>5, SeqEqual
  <2> HIDE DEF head, rest
  <2> QED
    BY <1>1, <1>4, <2>2, <2>3, <2>4 DEF HeadOpens
<1> HIDE DEF head, rest
<1>7. CASE HeadOpens(head)
  <2> DEFINE t == Turn(e)
  <2>1. t = [e EXCEPT !.state = "blocks", !.buf = rest]
    BY <1>3, <1>7
  <2>2. t \in DecStates /\ t.state = "blocks" /\ t.buf = rest /\ t.fed = e.fed /\ t.idx = e.idx /\ t.out = e.out
    BY <1>1, <1>5, <2>1 DEF DecStates
  <2> HIDE DEF t
  <2>3. damage = "none" => Consumed(t)
    <3> SUFFICES ASSUME damage = "none" PROVE Consumed(t)
      OBVIOUS
    <3>1. e.idx = 0
      BY DEF DecOK, Consumed
    <3>2. Offset(0) = 2
      <4>1. 0 * Block = 0 /\ plain \in Nat
        BY InputsAre
      <4> QED
        BY <1>1, <4>1, MinIs DEF Offset
    <3>3. Left(rest, 0, e.fed)
      BY <1>6, <3>2 DEF Left
    <3> QED
      BY <1>6, <2>2, <3>1, <3>2, <3>3, InputsAre DEF Consumed
  <2>4. DecOK(t)
    BY <1>1, <2>2, <2>3 DEF DecOK
  <2> QED
    BY <1>4, <1>5, <2>2, <2>4 DEF t
<1>8. CASE ~HeadOpens(head)
  <2> DEFINE t == Turn(e)
  <2>1. t = [e EXCEPT !.state = "error"]
    BY <1>3, <1>8
  <2>2. t \in DecStates /\ t.state = "error" /\ t.fed = e.fed /\ t.idx = e.idx /\ t.out = e.out
    BY <1>1, <2>1 DEF DecStates
  <2> HIDE DEF t
  <2>3. DecOK(t)
    BY <1>1, <1>6, <1>8, <2>2 DEF DecOK
  <2> QED
    BY <2>2, <2>3 DEF t
<1> QED
  BY <1>7, <1>8

\* Opening one frame, or passing over it.
LEMMA FrameTurn ==
  ASSUME Inputs, Stored, NEW e, DecOK(e), e.state = "blocks", e.buf # <<>>
  PROVE  /\ DecOK(Turn(e)) /\ (Turn(e) = e \/ Turn(e).state = "error" \/ Len(Turn(e).buf) < Len(e.buf))
         /\ damage = "none" /\ e.fed = Len(cipher) => Turn(e) # e
<1>1. e \in DecStates /\ e.fed <= Len(cipher) /\ cipher \in Seq(Genuine)
  BY DEF DecOK, Stored
<1>2. e.buf \in Seq(Genuine) /\ e.fed \in Nat /\ Len(e.buf) \in Nat /\ Len(e.buf) >= 1 /\ e.idx \in Nat
      /\ e.out \in Seq(0 .. MaxPlain)
  BY <1>1 DEF DecStates
<1> DEFINE ln == e.buf[1].n
           i == e.idx
           ct == SubSeq(e.buf, 2, ln + 1)
           rb == SubSeq(e.buf, ln + 2, Len(e.buf))
           t == Turn(e)
           end == IF wanted.to # -1 /\ (i + 1) * Block >= wanted.to THEN "done" ELSE e.state
<1>3. ln \in Nat
  <2>1. e.buf[1] \in Genuine
    BY <1>2
  <2>2. MaxPlain + Block + HeadUnits \in Nat
    BY InputsAre DEF HeadUnits
  <2>3. e.buf[1] \in Units
    BY <2>1 DEF Genuine
  <2> QED
    BY <2>2, <2>3 DEF Units
<1>4. t = IF ln < 1 \/ Len(e.buf) < ln + 1 THEN e
          ELSE IF Skips(i) THEN [e EXCEPT !.buf = rb, !.idx = i + 1]
          ELSE IF ~Verifies(ct, i) THEN [e EXCEPT !.state = "error"]
          ELSE [e EXCEPT !.buf = rb, !.idx = i + 1, !.out = e.out \o Slice(ct, i), !.state = end]
  BY <1>1 DEF Turn, DecStates
<1>5. damage = "none" =>
        /\ i < Blocks /\ ln = BlockSize(i) + 1 /\ BlockSize(i) \in Nat /\ BlockSize(i) >= 1
        /\ ln + 1 <= Len(e.buf) => Verifies(ct, i) /\ Offset(i + 1) <= e.fed /\ Left(rb, i + 1, e.fed)
        /\ e.fed = Len(cipher) => ln + 1 <= Len(e.buf)
  <2> SUFFICES ASSUME damage = "none"
               PROVE  /\ i < Blocks /\ ln = BlockSize(i) + 1 /\ BlockSize(i) \in Nat /\ BlockSize(i) >= 1
                      /\ ln + 1 <= Len(e.buf) => Verifies(ct, i) /\ Offset(i + 1) <= e.fed /\ Left(rb, i + 1, e.fed)
                      /\ e.fed = Len(cipher) => ln + 1 <= Len(e.buf)
    OBVIOUS
  <2> DEFINE fed == e.fed
             buf == e.buf
  <2>1. /\ cipher = SealedTo(Blocks) /\ i \in Nat /\ i <= Blocks /\ fed \in Nat /\ Offset(i) <= fed /\ fed <= Len(cipher)
        /\ Left(buf, i, fed) /\ buf # <<>>
    BY <1>1, <1>2 DEF DecOK, Consumed, Stored
  <2> HIDE DEF fed, buf, i
  <2>2. /\ i < Blocks /\ buf[1].n = BlockSize(i) + 1 /\ BlockSize(i) \in Nat /\ BlockSize(i) >= 1
        /\ BlockSize(i) + 2 <= Len(buf) =>
             /\ Verifies(SubSeq(buf, 2, BlockSize(i) + 2), i)
             /\ Offset(i + 1) <= fed
             /\ Left(SubSeq(buf, BlockSize(i) + 3, Len(buf)), i + 1, fed)
        /\ fed = Len(cipher) => BlockSize(i) + 2 <= Len(buf)
    BY <2>1, WholeFrame
  <2>3. ln = BlockSize(i) + 1 /\ ln + 1 = BlockSize(i) + 2 /\ ln + 2 = BlockSize(i) + 3
    BY <2>2 DEF buf
  <2> HIDE DEF ln
  <2> QED
    BY <2>2, <2>3 DEF fed, buf
<1> HIDE DEF ln, t, ct, rb, end, i
<1>6. CASE ln < 1 \/ Len(e.buf) < ln + 1
  <2>1. t = e
    BY <1>4, <1>6
  <2>2. ~(damage = "none" /\ e.fed = Len(cipher))
    BY <1>2, <1>3, <1>5, <1>6
  <2> QED
    BY <2>1, <2>2 DEF t
<1>7. CASE ~(ln < 1 \/ Len(e.buf) < ln + 1)
  <2>1. rb \in Seq(Genuine) /\ Len(rb) < Len(e.buf)
    <3>1. ln + 2 \in Int /\ Len(e.buf) \in Int /\ 1 <= ln + 2 /\ Len(e.buf) <= Len(e.buf)
      BY <1>2, <1>3
    <3>2. /\ SubSeq(e.buf, ln + 2, Len(e.buf)) \in Seq(Genuine)
          /\ Len(SubSeq(e.buf, ln + 2, Len(e.buf))) = IF ln + 2 <= Len(e.buf) THEN Len(e.buf) - (ln + 2) + 1 ELSE 0
      BY <1>2, <3>1, SubSeqIs
    <3>3. Len(rb) = IF ln + 2 <= Len(e.buf) THEN Len(e.buf) - (ln + 2) + 1 ELSE 0
      BY <3>2 DEF rb
    <3> QED
      BY <1>2, <1>3, <1>7, <3>2, <3>3 DEF rb
  <2>2. ct \in Seq(Genuine)
    <3>1. 2 \in Int /\ ln + 1 \in Int /\ 1 <= 2 /\ ln + 1 <= Len(e.buf)
      BY <1>2, <1>3, <1>7
    <3> QED
      BY <1>2, <3>1, SubSeqIs DEF ct
  <2>3. i \in Nat /\ i + 1 \in Nat /\ e.idx = i
    BY <1>2 DEF i
  <2>4. damage = "none" => i + 1 <= Blocks /\ Verifies(ct, i) /\ Offset(i + 1) <= e.fed /\ Left(rb, i + 1, e.fed)
    <3>1. ln + 1 <= Len(e.buf)
      BY <1>2, <1>3, <1>7
    <3> QED
      BY <1>5, <2>3, <3>1, InputsAre
  <2>5. Stated => e.out = Positions(wanted.from, OutTo(i))
    BY <2>3 DEF DecOK
  <2>6. CASE Skips(i)
    <3>1. t = [e EXCEPT !.buf = rb, !.idx = i + 1]
      BY <1>4, <1>7, <2>6
    <3>2. t \in DecStates /\ t.state = "blocks" /\ t.buf = rb /\ t.idx = i + 1 /\ t.fed = e.fed /\ t.out = e.out
      BY <1>1, <2>1, <2>3, <3>1 DEF DecStates
    <3>3. OutTo(i + 1) = OutTo(i)
      BY <2>3, <2>6, SkippedOut
    <3>4. damage = "none" => Consumed(t)
      BY <2>4, <3>2 DEF Consumed
    <3>5. Stated => t.out = Positions(wanted.from, OutTo(t.idx))
      BY <2>5, <3>2, <3>3
    <3>6. DecOK(t)
      BY <1>1, <3>2, <3>4, <3>5 DEF DecOK
    <3>7. t # e /\ Len(t.buf) < Len(e.buf)
      BY <1>2, <2>1, <3>2
    <3> QED
      BY <3>6, <3>7 DEF t
  <2>7. CASE ~Skips(i) /\ ~Verifies(ct, i)
    <3>1. t = [e EXCEPT !.state = "error"]
      BY <1>4, <1>7, <2>7
    <3>2. t \in DecStates /\ t.state = "error" /\ t.fed = e.fed /\ t.idx = i /\ t.out = e.out
      BY <1>1, <2>3, <3>1 DEF DecStates
    <3>3. DecOK(t)
      BY <1>1, <2>4, <2>5, <2>7, <3>2 DEF DecOK
    <3> QED
      BY <2>4, <2>7, <3>2, <3>3 DEF t
  <2>8. CASE ~Skips(i) /\ Verifies(ct, i)
    <3> DEFINE sl == Slice(ct, i)
               out == Then(e.out, sl)
    <3>1. sl \in Seq(0 .. MaxPlain) /\ (Stated => Then(Positions(wanted.from, OutTo(i)), sl) = Positions(wanted.from, OutTo(i + 1)))
      BY <2>2, <2>3, <2>8, SliceIs
    <3>2. t = [e EXCEPT !.buf = rb, !.idx = i + 1, !.out = e.out \o sl, !.state = end]
      BY <1>4, <1>7, <2>8
    <3>3. t = [e EXCEPT !.buf = rb, !.idx = i + 1, !.out = out, !.state = end]
      BY <3>2 DEF Then
    <3> HIDE DEF sl
    <3>4. out \in Seq(0 .. MaxPlain)
      BY <1>2, <3>1, ConcatProperties DEF Then
    <3>5. end \in {"done", "blocks"} /\ (end = "done" => wanted.to # -1 /\ wanted.to <= (i + 1) * Block)
      <4>1. (i + 1) * Block \in Nat /\ wanted.to \in Int
        BY <2>3, Times DEF Inputs
      <4> QED
        BY <4>1 DEF end
    <3>8. Stated => out = Positions(wanted.from, OutTo(i + 1))
      BY <2>5, <3>1
    <3> HIDE DEF out
    <3>6. t \in DecStates /\ t.state = end /\ t.buf = rb /\ t.idx = i + 1 /\ t.fed = e.fed /\ t.out = out
      BY <1>1, <2>1, <2>3, <3>3, <3>4, <3>5 DEF DecStates
    <3>7. damage = "none" => Consumed(t)
      BY <2>4, <3>5, <3>6 DEF Consumed
    <3>9. DecOK(t)
      BY <1>1, <3>5, <3>6, <3>7, <3>8 DEF DecOK
    <3>10. t # e /\ Len(t.buf) < Len(e.buf)
      BY <1>2, <2>1, <3>6
    <3> QED
      BY <3>9, <3>10 DEF t
  <2> QED
    BY <2>6, <2>7, <2>8
<1> QED
  BY <1>6, <1>7

\* A turn of the loop takes something from what it holds, or stops the loop.
LEMMA TurnKeeps ==
  ASSUME Inputs, Stored, NEW e, DecOK(e)
  PROVE  /\ DecOK(Turn(e)) /\ (Turn(e) = e \/ Turn(e).state = "error" \/ Len(Turn(e).buf) < Len(e.buf))
         /\ e.state = "error" \/ Len(e.buf) = 0 => Turn(e) = e
<1>1. e.buf \in Seq(Genuine) /\ e.state \in {"head", "blocks", "done", "closed", "error"}
  BY DEF DecOK, DecStates
<1>2. e.state = "error" \/ Len(e.buf) = 0 => Turn(e) = e
  <2>1. Len(e.buf) = 0 => e.buf = <<>>
    BY <1>1
  <2> QED
    BY <2>1 DEF Turn, HeadUnits
<1>3. CASE e.state = "head" /\ Len(e.buf) >= HeadUnits
  BY <1>2, <1>3, HeadTurn
<1>4. CASE e.state = "blocks" /\ e.buf # <<>>
  BY <1>2, <1>4, FrameTurn
<1>5. CASE ~(e.state = "head" /\ Len(e.buf) >= HeadUnits) /\ ~(e.state = "blocks" /\ e.buf # <<>>)
  <2>1. Turn(e) = e
    BY <1>5 DEF Turn
  <2> QED
    BY <1>2, <2>1
<1> QED
  BY <1>3, <1>4, <1>5

\* f gives what n turns make of d.
Turns(f, d, n) == f = [i \in 0 .. n |-> IF i = 0 THEN d ELSE Turn(f[i - 1])]

\* Turn after turn.
LEMMA TurnsAt ==
  ASSUME NEW f, NEW d, NEW n \in Nat, Turns(f, d, n)
  PROVE  f[0] = d /\ \A i \in 1 .. n : f[i] = Turn(f[i - 1])
<1>1. \A i \in 0 .. n : f[i] = IF i = 0 THEN d ELSE Turn(f[i - 1])
  <2>1. \A i \in 0 .. n : [j \in 0 .. n |-> IF j = 0 THEN d ELSE Turn(f[j - 1])][i] = IF i = 0 THEN d ELSE Turn(f[i - 1])
    OBVIOUS
  <2>2. f = [j \in 0 .. n |-> IF j = 0 THEN d ELSE Turn(f[j - 1])]
    BY DEF Turns
  <2> QED
    BY <2>1, <2>2, Zenon
<1>2. 0 \in 0 .. n
  OBVIOUS
<1>3. ASSUME NEW i \in 1 .. n PROVE f[i] = Turn(f[i - 1])
  <2>1. i \in 0 .. n /\ i # 0
    OBVIOUS
  <2> QED
    BY <1>1, <2>1
<1> QED
  BY <1>1, <1>2, <1>3

\* The recursive function of feed's loop exists.
LEMMA TurnsExist ==
  ASSUME NEW d, NEW n \in Nat
  PROVE  \E f : Turns(f, d, n)
<1> DEFINE S == {m \in Nat : \E f : Turns(f, d, m)}
<1>1. 0 \in S
  <2> DEFINE f == [i \in 0 .. 0 |-> d]
  <2>1. f = [i \in 0 .. 0 |-> IF i = 0 THEN d ELSE Turn(f[i - 1])]
    OBVIOUS
  <2> HIDE DEF f
  <2>2. Turns(f, d, 0)
    BY <2>1 DEF Turns
  <2> QED
    BY <2>2
<1>2. ASSUME NEW m \in Nat, m \in S PROVE m + 1 \in S
  <2>1. PICK g : Turns(g, d, m)
    BY <1>2
  <2>2. g[0] = d /\ \A i \in 1 .. m : g[i] = Turn(g[i - 1])
    BY <2>1, TurnsAt
  <2> DEFINE f == [i \in 0 .. m + 1 |-> IF i = m + 1 THEN Turn(g[m]) ELSE g[i]]
  <2>3. \A i \in 0 .. m + 1 : f[i] = IF i = m + 1 THEN Turn(g[m]) ELSE g[i]
    OBVIOUS
  <2>4. f = [i \in 0 .. m + 1 |-> f[i]]
    OBVIOUS
  <2> HIDE DEF f
  <2>5. ASSUME NEW i \in 0 .. m + 1 PROVE f[i] = IF i = 0 THEN d ELSE Turn(f[i - 1])
    <3>1. CASE i = 0
      <4>1. 0 \in 0 .. m + 1 /\ 0 # m + 1
        OBVIOUS
      <4> QED
        BY <2>2, <2>3, <3>1, <4>1
    <3>2. CASE i = m + 1
      <4>1. i - 1 = m /\ m \in 0 .. m + 1 /\ m # m + 1 /\ i # 0
        BY <3>2
      <4>2. f[m] = g[m]
        BY <2>3, <4>1
      <4>3. f[i] = Turn(g[m])
        BY <2>3, <3>2
      <4> QED
        BY <4>1, <4>2, <4>3
    <3>3. CASE i # 0 /\ i # m + 1
      <4>1. i \in 1 .. m /\ i - 1 \in 0 .. m + 1 /\ i - 1 # m + 1
        BY <3>3
      <4>2. f[i] = g[i] /\ f[i - 1] = g[i - 1]
        BY <2>3, <3>3, <4>1
      <4>3. g[i] = Turn(g[i - 1])
        BY <2>2, <4>1
      <4> QED
        BY <3>3, <4>2, <4>3
    <3> QED
      BY <3>1, <3>2, <3>3
  <2>6. [i \in 0 .. m + 1 |-> f[i]] = [i \in 0 .. m + 1 |-> IF i = 0 THEN d ELSE Turn(f[i - 1])]
    BY <2>5
  <2>7. Turns(f, d, m + 1)
    BY <2>4, <2>6 DEF Turns
  <2> QED
    BY <2>7
<1> HIDE DEF S
<1>3. Nat \subseteq S
  BY <1>1, <1>2, Climb
<1> QED
  BY <1>3 DEF S

\* The loop is as many turns as it holds units.
LEMMA LoopIs ==
  ASSUME NEW d, Len(d.buf) \in Nat
  PROVE  \E f : Turns(f, d, Len(d.buf)) /\ Loop(d) = f[Len(d.buf)]
<1> DEFINE n == Len(d.buf)
           f == CHOOSE g : Turns(g, d, n)
<1>1. Turns(f, d, n)
  BY TurnsExist
<1>2. Loop(d) = (CHOOSE g : g = [i \in 0 .. n |-> IF i = 0 THEN d ELSE Turn(g[i - 1])])[n]
  BY DEF Loop
<1>3. Loop(d) = f[n]
  BY <1>2 DEF Turns
<1> QED
  BY <1>1, <1>3

\* feed leaves its loop where nothing changes any more.
LEMMA LoopKeeps ==
  ASSUME Inputs, Stored, NEW e, DecOK(e)
  PROVE  DecOK(Loop(e)) /\ Turn(Loop(e)) = Loop(e)
<1> DEFINE n == Len(e.buf)
<1>1. n \in Nat
  BY DEF DecOK, DecStates
<1>2. PICK f : Turns(f, e, n) /\ Loop(e) = f[n]
  BY <1>1, LoopIs
<1> HIDE DEF n
<1>3. f[0] = e /\ \A i \in 1 .. n : f[i] = Turn(f[i - 1])
  BY <1>1, <1>2, TurnsAt
<1> DEFINE Good(i) == DecOK(f[i]) /\ (Turn(f[i]) = f[i] \/ Len(f[i].buf) <= n - i)
           S == {i \in Nat : i <= n => Good(i)}
<1>4. 0 \in S
  <2>1. DecOK(f[0]) /\ Len(f[0].buf) <= n - 0
    BY <1>1, <1>3 DEF n
  <2> QED
    BY <2>1
<1>5. ASSUME NEW i \in Nat, i \in S PROVE i + 1 \in S
  <2>1. SUFFICES ASSUME i + 1 <= n PROVE Good(i + 1)
    OBVIOUS
  <2>2. i <= n /\ i + 1 \in 1 .. n /\ (i + 1) - 1 = i
    BY <1>1, <2>1
  <2>3. Good(i)
    BY <1>5, <2>2
  <2>4. f[i + 1] = Turn(f[i])
    BY <1>3, <2>2
  <2> DEFINE u == f[i]
             v == f[i + 1]
  <2>5. DecOK(u) /\ (Turn(u) = u \/ Len(u.buf) <= n - i) /\ v = Turn(u)
    BY <2>3, <2>4
  <2> HIDE DEF u, v, S, Good
  <2>6. DecOK(v) /\ (v = u \/ v.state = "error" \/ Len(v.buf) < Len(u.buf))
    BY <2>5, TurnKeeps
  <2>7. v.state = "error" => Turn(v) = v
    BY <2>6, TurnKeeps
  <2>8. Len(u.buf) \in Nat /\ Len(v.buf) \in Nat
    BY <2>5, <2>6 DEF DecOK, DecStates
  <2>9. Turn(v) = v \/ Len(v.buf) <= n - (i + 1)
    <3>1. CASE v = u
      <4>1. Turn(u) = u
        BY <2>5, <3>1
      <4> QED
        BY <3>1, <4>1
    <3>2. CASE v # u /\ v.state # "error"
      BY <1>1, <2>5, <2>6, <2>8, <3>2
    <3> QED
      BY <2>7, <3>1, <3>2
  <2> QED
    BY <2>6, <2>9 DEF Good, v
<1>6. Good(n)
  <2> HIDE DEF Good
  <2>1. Nat \subseteq S
    <3> HIDE DEF S
    <3> QED
      BY <1>4, <1>5, Climb
  <2> QED
    BY <1>1, <2>1
<1>7. DecOK(f[n]) /\ (Turn(f[n]) = f[n] \/ Len(f[n].buf) <= 0)
  BY <1>1, <1>6
<1> HIDE DEF Good, S
<1>8. Len(f[n].buf) <= 0 => Turn(f[n]) = f[n]
  <2> DEFINE u == f[n]
  <2>1. DecOK(u)
    BY <1>7
  <2> HIDE DEF u
  <2>2. Len(u.buf) \in Nat
    BY <2>1 DEF DecOK, DecStates
  <2>3. Len(u.buf) = 0 => Turn(u) = u
    BY <2>1, TurnKeeps
  <2> QED
    BY <2>2, <2>3 DEF u
<1> QED
  BY <1>2, <1>7, <1>8

-----------------------------------------------------------------------------
(* The invariant, and what keeps it *)

\* The inductive invariant; feed never leaves a turn undone.
CipherIInv == Inputs /\ EncOK /\ DecOK(dec) /\ Turn(dec) = dec

\* What depends on the inputs alone stays.
LEMMA SameInputs ==
  ASSUME plain' = plain, declared' = declared, wanted' = wanted
  PROVE  /\ Genuine' = Genuine /\ Blocks' = Blocks /\ DecStates' = DecStates /\ Inputs' = Inputs
         /\ Stated' = Stated /\ WantedTo' = WantedTo
         /\ \A i : OutTo(i)' = OutTo(i) /\ Offset(i)' = Offset(i)
         /\ \A d : Turn(d)' = Turn(d)
<1>1. Genuine' = Genuine /\ Blocks' = Blocks
  BY SamePlain
<1>2. DecStates' = DecStates
  BY <1>1 DEF DecStates
<1>3. Inputs' = Inputs
  BY DEF Inputs
<1>4. Stated' = Stated /\ WantedTo' = WantedTo
  BY DEF Stated, WantedTo
<1>5. \A i : OutTo(i)' = OutTo(i) /\ Offset(i)' = Offset(i)
  BY <1>4 DEF OutTo, Offset
<1>6. \A d : Turn(d)' = Turn(d)
  BY DEF Turn, Skips, Slice, FirstUnit, LastUnit, Verifies, HeadOpens
<1> QED
  BY <1>1, <1>2, <1>3, <1>4, <1>5, <1>6

\* What is claimed of the decryptor stays as long as what it reads stays.
LEMMA SameDec ==
  ASSUME plain' = plain, declared' = declared, wanted' = wanted, cipher' = cipher, damage' = damage, NEW d
  PROVE  DecOK(d)' = DecOK(d)
<1>1. Left(d.buf, d.idx, d.fed)' = Left(d.buf, d.idx, d.fed)
  BY SameInputs DEF Left
<1>2. Consumed(d)' = Consumed(d)
  BY <1>1, SameInputs DEF Consumed
<1> QED
  BY <1>2, SameInputs DEF DecOK

\* Before anything has been read.
LEMMA FirstDecIs ==
  ASSUME Inputs
  PROVE  /\ FirstDec \in DecStates /\ FirstDec.fed = 0 /\ FirstDec.idx = 0 /\ FirstDec.buf = <<>>
         /\ FirstDec.state = "head" /\ FirstDec.out = <<>> /\ Turn(FirstDec) = FirstDec
         /\ Positions(wanted.from, OutTo(0)) = <<>>
<1>1. /\ FirstDec \in DecStates /\ FirstDec.fed = 0 /\ FirstDec.idx = 0 /\ FirstDec.buf = <<>>
      /\ FirstDec.state = "head" /\ FirstDec.out = <<>>
  BY DEF FirstDec, DecStates
<1>2. Turn(FirstDec) = FirstDec
  <2>1. Len(FirstDec.buf) = 0
    BY <1>1
  <2> QED
    BY <1>1, <2>1 DEF Turn, HeadUnits
<1>3. 0 * Block = 0
  BY InputsAre
<1>4. OutTo(0) = wanted.from /\ wanted.from \in Int
  BY <1>3, OutToIs, 0 \in Nat
<1>5. Positions(wanted.from, wanted.from) = <<>>
  <2> DEFINE a == wanted.from
  <2>1. a \in Int
    BY <1>4
  <2> HIDE DEF a
  <2>2. Positions(a, a) = <<>>
    BY <2>1, PositionsAre
  <2> QED
    BY <2>2 DEF a
<1> QED
  BY <1>1, <1>2, <1>4, <1>5

LEMMA CipherStarts ==
  ASSUME CipherInit
  PROVE  CipherIInv
<1>1. Inputs
  BY DEF CipherInit, Inputs
<1>2. EncOK
  BY EncInit
<1>3. dec = FirstDec
  BY DEF CipherInit, FirstDec
<1>4. Consumed(FirstDec)
  <2>1. FirstDec.buf = SubSeq(cipher, 1, FirstDec.fed)
    <3>1. SubSeq(cipher, 1, 0) = <<>>
      BY SubSeqEmpty
    <3> QED
      BY <1>1, <3>1, FirstDecIs
  <2> QED
    BY <1>1, <2>1, FirstDecIs, InputsAre DEF Consumed
<1>5. Len(cipher) \in Nat
  BY <1>2 DEF EncOK
<1>6. DecOK(FirstDec)
  BY <1>1, <1>4, <1>5, FirstDecIs DEF DecOK
<1> QED
  BY <1>1, <1>2, <1>3, <1>6, FirstDecIs DEF CipherIInv

\* While the object is being written nothing has been read of it.
LEMMA WritingKeeps ==
  ASSUME CipherIInv, dec = FirstDec, EncOK', damage' = "none", UNCHANGED <<plain, declared, wanted, dec>>
  PROVE  CipherIInv'
<1>1. Inputs /\ Inputs'
  BY SameInputs DEF CipherIInv
<1>2. cipher' \in Seq(Genuine)
  BY SameInputs DEF EncOK
<1>3. Len(cipher') \in Nat
  BY <1>2
<1>4. SubSeq(cipher', 1, 0) = <<>>
  BY SubSeqEmpty
<1>5. dec' = FirstDec /\ FirstDec' = FirstDec
  BY DEF FirstDec
<1> DEFINE d == dec'
<1>6. /\ d \in DecStates /\ d.fed = 0 /\ d.idx = 0 /\ d.buf = <<>> /\ d.state = "head" /\ d.out = <<>> /\ Turn(d) = d
      /\ Positions(wanted.from, OutTo(0)) = <<>>
  BY <1>1, <1>5, FirstDecIs
<1> HIDE DEF d
<1>7. Blocks \in Nat
  BY <1>1, InputsAre
<1>8. Consumed(dec)'
  BY <1>4, <1>6, <1>7, SameInputs DEF Consumed, d
<1>9. DecOK(dec)'
  BY <1>3, <1>6, <1>8, SameInputs DEF DecOK, d
<1>10. (Turn(dec) = dec)'
  BY <1>6, SameInputs DEF d
<1> QED
  BY <1>1, <1>9, <1>10 DEF CipherIInv

\* Whatever happens to the object, no tag comes into being.
LEMMA DamageKeeps ==
  ASSUME CipherIInv, Damage
  PROVE  CipherIInv'
<1>1. Inputs /\ EncOK /\ DecOK(dec) /\ Turn(dec) = dec
  BY DEF CipherIInv
<1>2. enc.done /\ damage = "none" /\ dec.fed = 0 /\ UNCHANGED <<plain, declared, wanted, enc, dec>>
  BY DEF Damage
<1>3. cipher \in Seq(Genuine) /\ HeadUnits = 2
  BY <1>1 DEF EncOK, HeadUnits
<1>4. cipher' \in Seq(Genuine) /\ damage' # "none"
  <2>1. CASE \E n \in 0 .. Len(cipher) - 1 : cipher' = SubSeq(cipher, 1, n) /\ damage' = "cut"
    BY <1>3, <2>1, SubSeqIs
  <2>2. CASE \E a \in HeadUnits + 1 .. Len(cipher), b \in HeadUnits + 1 .. Len(cipher) :
               a < b /\ cipher' = SubSeq(cipher, 1, a - 1) \o SubSeq(cipher, b, Len(cipher)) /\ damage' = "lost"
    <3>1. PICK a \in HeadUnits + 1 .. Len(cipher), b \in HeadUnits + 1 .. Len(cipher) :
            cipher' = SubSeq(cipher, 1, a - 1) \o SubSeq(cipher, b, Len(cipher)) /\ damage' = "lost"
      BY <2>2
    <3>2. SubSeq(cipher, 1, a - 1) \in Seq(Genuine) /\ SubSeq(cipher, b, Len(cipher)) \in Seq(Genuine)
      BY <1>3, SubSeqIs
    <3> QED
      BY <3>1, <3>2, ConcatProperties
  <2>3. CASE \E a \in HeadUnits + 1 .. Len(cipher) : cipher' = cipher \o SubSeq(cipher, a, Len(cipher)) /\ damage' = "doubled"
    <3>1. PICK a \in HeadUnits + 1 .. Len(cipher) : cipher' = cipher \o SubSeq(cipher, a, Len(cipher)) /\ damage' = "doubled"
      BY <2>3
    <3>2. SubSeq(cipher, a, Len(cipher)) \in Seq(Genuine)
      BY <1>3, SubSeqIs
    <3> QED
      BY <1>3, <3>1, <3>2, ConcatProperties
  <2>4. CASE \E a \in 1 .. Len(cipher), n \in 0 .. Block :
               cipher' = [cipher EXCEPT ![a] = [kind |-> "wrong", n |-> n, at |-> @.at]] /\ damage' = "changed"
    <3>1. PICK a \in 1 .. Len(cipher), n \in 0 .. Block :
            cipher' = [cipher EXCEPT ![a] = [kind |-> "wrong", n |-> n, at |-> cipher[a].at]] /\ damage' = "changed"
      BY <2>4
    <3>2. cipher[a].at \in 0 .. MaxPlain
      BY <1>3 DEF Genuine, Units
    <3>3. n \in 0 .. MaxPlain + Block + HeadUnits
      BY <1>1, <1>3, InputsAre
    <3> DEFINE u == [kind |-> "wrong", n |-> n, at |-> cipher[a].at]
    <3>4. u \in Genuine
      BY <3>2, <3>3 DEF Genuine, Units
    <3>5. cipher' = [cipher EXCEPT ![a] = u]
      BY <3>1
    <3> HIDE DEF u
    <3>6. [cipher EXCEPT ![a] = u] \in Seq(Genuine)
      BY <1>3, <3>4, ExceptSeq
    <3> QED
      BY <3>1, <3>5, <3>6
  <2> QED
    BY <2>1, <2>2, <2>3, <2>4 DEF Damage
<1>5. EncOK'
  BY <1>1, <1>2, <1>4, SameInputs DEF EncOK
<1>6. DecOK(dec)'
  <2>1. Len(cipher') \in Nat
    BY <1>4
  <2> QED
    BY <1>1, <1>2, <1>4, <2>1, SameInputs DEF DecOK
<1>7. (Turn(dec) = dec)' /\ Inputs'
  BY <1>1, <1>2, SameInputs
<1> QED
  BY <1>5, <1>6, <1>7 DEF CipherIInv

\* Two stretches that meet are one.
LEMMA Adjacent ==
  ASSUME NEW T, NEW s \in Seq(T), NEW a \in Nat, NEW b \in Nat, NEW c \in Nat, a <= b, b <= c, c <= Len(s)
  PROVE  Then(SubSeq(s, a + 1, b), SubSeq(s, b + 1, c)) = SubSeq(s, a + 1, c)
<1>1. a + 1 \in 1 .. Len(s) + 1 /\ b \in (a + 1) - 1 .. Len(s) /\ c \in b .. Len(s)
  OBVIOUS
<1>2. SubSeq(s, a + 1, b) \o SubSeq(s, b + 1, c) = SubSeq(s, a + 1, c)
  BY <1>1, ConcatAdjacentSubSeq
<1> QED
  BY <1>2 DEF Then

\* However the stored text is cut into pieces.
LEMMA DecFeedKeeps ==
  ASSUME CipherIInv, DecFeed
  PROVE  CipherIInv'
<1>1. Inputs /\ EncOK /\ DecOK(dec) /\ Turn(dec) = dec
  BY DEF CipherIInv
<1>2. enc.done /\ dec.state \in {"head", "blocks", "done"} /\ UNCHANGED <<plain, declared, wanted, enc, cipher, damage>>
  BY DEF DecFeed
<1>3. Stored
  BY <1>1, <1>2 DEF EncOK, Stored
<1>4. PICK k \in Piece \cap 1 .. Len(cipher) - dec.fed :
        dec' = Loop([dec EXCEPT !.fed = @ + k, !.buf = @ \o SubSeq(cipher, dec.fed + 1, dec.fed + k)])
  BY DEF DecFeed
<1>5. cipher \in Seq(Genuine) /\ Len(cipher) \in Nat
  BY <1>3 DEF Stored
<1>6. dec \in DecStates /\ dec.fed \in Nat /\ dec.buf \in Seq(Genuine) /\ dec.idx \in Nat
  BY <1>1 DEF DecOK, DecStates
<1> DEFINE f == dec.fed
           g == dec.fed + k
           more == SubSeq(cipher, f + 1, g)
           e == [dec EXCEPT !.fed = g, !.buf = Then(dec.buf, more)]
<1>7. f \in Nat /\ g \in Nat /\ f <= g /\ g <= Len(cipher)
  BY <1>5, <1>6 DEF Piece
<1>8. dec' = Loop(e)
  BY <1>4 DEF Then
<1> HIDE DEF f, g
<1>9. Then(dec.buf, more) \in Seq(Genuine)
  <2>1. more \in Seq(Genuine)
    BY <1>5, <1>7, SubSeqIs
  <2> HIDE DEF more
  <2> QED
    BY <1>6, <2>1, ConcatProperties DEF Then
<1>10. /\ e \in DecStates /\ e.fed = g /\ e.buf = Then(dec.buf, more) /\ e.state = dec.state /\ e.idx = dec.idx
       /\ e.out = dec.out
  <2> HIDE DEF more
  <2> QED
    BY <1>6, <1>7, <1>9 DEF DecStates
<1> HIDE DEF e
<1>11. ASSUME damage = "none" PROVE Consumed(e)
  <2>1. Consumed(dec) /\ cipher = SealedTo(Blocks)
    BY <1>1, <1>3, <1>11 DEF DecOK, Stored
  <2>2. dec.state = "head" => e.buf = SubSeq(cipher, 1, e.fed)
    <3>1. Then(SubSeq(cipher, 0 + 1, f), SubSeq(cipher, f + 1, g)) = SubSeq(cipher, 0 + 1, g)
      <4> DEFINE a == 0
      <4>1. a \in Nat /\ a <= f
        BY <1>7
      <4> HIDE DEF a
      <4>2. Then(SubSeq(cipher, a + 1, f), SubSeq(cipher, f + 1, g)) = SubSeq(cipher, a + 1, g)
        BY <1>5, <1>7, <4>1, Adjacent
      <4> QED
        BY <4>2 DEF a
    <3>2. 0 + 1 = 1
      OBVIOUS
    <3>3. dec.state = "head" => dec.buf = SubSeq(cipher, 1, f)
      BY <2>1 DEF Consumed, f
    <3> QED
      BY <1>10, <3>1, <3>2, <3>3
  <2>3. dec.state = "blocks" => Offset(e.idx) <= e.fed /\ Left(e.buf, e.idx, e.fed)
    <3> SUFFICES ASSUME dec.state = "blocks" PROVE Offset(e.idx) <= e.fed /\ Left(e.buf, e.idx, e.fed)
      OBVIOUS
    <3> DEFINE o == Offset(dec.idx)
    <3>1. o <= f /\ dec.buf = SubSeq(cipher, o + 1, f)
      BY <2>1 DEF Consumed, Left, f
    <3>2. o \in Nat
      <4> DEFINE i == dec.idx
      <4>1. i \in Nat /\ i <= i
        BY <1>6
      <4> HIDE DEF i
      <4>2. Offset(i) \in Nat
        BY <1>1, <4>1, OffsetsUp
      <4> QED
        BY <4>2 DEF i
    <3> HIDE DEF o
    <3>3. Then(SubSeq(cipher, o + 1, f), SubSeq(cipher, f + 1, g)) = SubSeq(cipher, o + 1, g)
      BY <1>5, <1>7, <3>1, <3>2, Adjacent
    <3>4. e.buf = SubSeq(cipher, o + 1, g)
      BY <1>10, <3>1, <3>3
    <3> QED
      BY <1>7, <1>10, <3>1, <3>2, <3>4 DEF Left, o
  <2> QED
    BY <1>2, <1>10, <2>1, <2>2, <2>3 DEF Consumed
<1>12. DecOK(e)
  BY <1>1, <1>7, <1>10, <1>11 DEF DecOK
<1>13. DecOK(Loop(e)) /\ Turn(Loop(e)) = Loop(e)
  BY <1>1, <1>3, <1>12, LoopKeeps
<1>14. DecOK(dec)'
  <2> DEFINE d == dec'
  <2>1. DecOK(d)
    BY <1>8, <1>13
  <2>2. \A x : DecOK(x)' = DecOK(x)
    BY <1>2, SameDec
  <2> QED
    BY <2>1, <2>2
<1>15. (Turn(dec) = dec)'
  BY <1>2, <1>8, <1>13, SameInputs
<1>16. Inputs' /\ EncOK'
  BY <1>1, <1>2, SameInputs, SamePlain DEF EncOK
<1> QED
  BY <1>14, <1>15, <1>16 DEF CipherIInv

\* At the end of the blocks, or past the end of the range, all of it has come out.
LEMMA AllOut ==
  ASSUME Inputs, NEW i \in Nat, WantedTo <= i * Block
  PROVE  OutTo(i) = WantedTo
BY OutToIs, Times

\* At the end nothing is left over of an undamaged object.
LEMMA DecFinalizeKeeps ==
  ASSUME CipherIInv, DecFinalize
  PROVE  CipherIInv'
<1>1. Inputs /\ EncOK /\ DecOK(dec) /\ Turn(dec) = dec
  BY DEF CipherIInv
<1>2. /\ enc.done /\ dec.fed = Len(cipher) /\ dec.state \in {"head", "blocks", "done"}
      /\ UNCHANGED <<plain, declared, wanted, enc, cipher, damage>>
  BY DEF DecFinalize
<1>3. Stored
  BY <1>1, <1>2 DEF EncOK, Stored
<1>4. dec \in DecStates /\ dec.fed \in Nat /\ dec.buf \in Seq(Genuine) /\ dec.idx \in Nat /\ cipher \in Seq(Genuine)
  BY <1>1, <1>3 DEF DecOK, DecStates, Stored
<1> DEFINE st == IF dec.state = "head" \/ (dec.state = "blocks" /\ dec.buf # <<>>) THEN "error" ELSE "closed"
           d == [dec EXCEPT !.state = st]
<1>5. dec' = d
  BY DEF DecFinalize
<1>6. d \in DecStates /\ d.state = st /\ d.fed = dec.fed /\ d.buf = dec.buf /\ d.idx = dec.idx /\ d.out = dec.out
  BY <1>4 DEF DecStates
<1>7. ASSUME damage = "none" PROVE st = "closed" /\ dec.idx <= Blocks /\ OutTo(dec.idx) = WantedTo
  <2>1. Consumed(dec) /\ cipher = SealedTo(Blocks)
    BY <1>1, <1>3, <1>7 DEF DecOK, Stored
  <2>2. plain \in Nat /\ Blocks \in Nat /\ Len(cipher) = Offset(Blocks) /\ Offset(Blocks) \in Nat
    BY <1>1, <2>1, InputsAre, SealedLen, OffsetsUp
  <2>3. dec.idx <= Blocks
    BY <2>1 DEF Consumed
  <2>4. dec.state # "head"
    <3> SUFFICES ASSUME dec.state = "head" PROVE FALSE
      OBVIOUS
    <3>1. dec.buf = SubSeq(cipher, 1, Len(cipher))
      BY <1>2, <2>1 DEF Consumed
    <3>2. dec.buf = cipher
      BY <1>4, <3>1, SubSeqFull
    <3>3. Len(cipher) >= HeadUnits
      <4>1. Offset(0) <= Offset(Blocks)
        BY <1>1, <2>2, OffsetsUp
      <4>2. Offset(0) = HeadUnits
        <5>1. 0 * Block = 0
          BY <1>1, InputsAre
        <5> QED
          BY <2>2, <5>1, MinIs DEF Offset, HeadUnits
      <4> QED
        BY <2>2, <4>1, <4>2
    <3>4. dec.state = "error" \/ Len(dec.buf) < Len(dec.buf)
      BY <1>1, <1>3, <3>2, <3>3, HeadTurn
    <3> QED
      BY <1>4, <3>4
  <2>5. dec.state = "blocks" => dec.buf = <<>>
    BY <1>1, <1>2, <1>3, <1>7, FrameTurn
  <2>6. CASE dec.state = "blocks"
    <3> DEFINE i == dec.idx
               o == Offset(i)
    <3>1. SubSeq(cipher, o + 1, Len(cipher)) = <<>>
      BY <1>2, <2>1, <2>5, <2>6 DEF Consumed, Left
    <3>2. o \in Nat
      BY <1>1, <1>4, OffsetsUp
    <3>3. Len(cipher) <= o
      <4> HIDE DEF o
      <4>1. o + 1 \in Int /\ 1 <= o + 1 /\ Len(cipher) \in Int
        BY <2>2, <3>2
      <4>2. Len(SubSeq(cipher, o + 1, Len(cipher))) = IF o + 1 <= Len(cipher) THEN Len(cipher) - (o + 1) + 1 ELSE 0
        BY <1>4, <4>1, SubSeqIs
      <4> DEFINE n == Len(cipher)
                 l == Len(SubSeq(cipher, o + 1, Len(cipher)))
      <4>3. Len(<<>>) = 0
        OBVIOUS
      <4>4. l = 0
        BY <3>1, <4>3
      <4>5. n \in Nat /\ l = IF o + 1 <= n THEN n - (o + 1) + 1 ELSE 0
        BY <2>2, <4>2
      <4> HIDE DEF n, l
      <4>6. n <= o
        BY <3>2, <4>4, <4>5
      <4> QED
        BY <4>6 DEF n
    <3>4. ~(i < Blocks)
      <4> SUFFICES ASSUME i < Blocks PROVE FALSE
        OBVIOUS
      <4>1. Offset(i + 1) = Offset(i) + BlockSize(i) + 2 /\ BlockSize(i) \in Nat
        BY <1>4, <2>2, OffsetAfter
      <4>2. Offset(i + 1) <= Offset(Blocks)
        BY <1>1, <1>4, <2>2, OffsetsUp, i + 1 \in Nat, i + 1 <= Blocks
      <4> HIDE DEF i
      <4> QED
        BY <2>2, <3>2, <3>3, <4>1, <4>2
    <3>5. i = Blocks
      BY <1>4, <2>2, <2>3, <3>4
    <3>6. plain <= Blocks * Block
      BY <2>2, LastBlock
    <3>7. WantedTo <= Blocks * Block
      <4>1. WantedTo \in Nat /\ WantedTo <= plain /\ Blocks * Block \in Nat
        BY <1>1, <2>2, OutToIs, Times
      <4> QED
        BY <2>2, <3>6, <4>1
    <3>8. OutTo(Blocks) = WantedTo
      BY <1>1, <2>2, <3>7, AllOut
    <3> QED
      BY <2>3, <2>5, <2>6, <3>5, <3>8
  <2>7. CASE dec.state = "done"
    <3>1. WantedTo <= dec.idx * Block
      BY <1>1, <2>7 DEF DecOK, WantedTo
    <3>2. OutTo(dec.idx) = WantedTo
      BY <1>1, <1>4, <3>1, AllOut
    <3> QED
      BY <2>3, <2>7, <3>2
  <2> QED
    BY <1>2, <2>4, <2>6, <2>7
<1>8. st \in {"closed", "error"}
  OBVIOUS
<1> HIDE DEF st, d
<1>9. damage = "none" => Consumed(d)
  BY <1>6, <1>7 DEF Consumed
<1>10. DecOK(d)
  BY <1>1, <1>6, <1>8, <1>9 DEF DecOK
<1>11. Turn(d) = d
  BY <1>6, <1>8 DEF Turn
<1>12. DecOK(dec)' /\ (Turn(dec) = dec)'
  <2>1. \A x : DecOK(x)' = DecOK(x)
    BY <1>2, SameDec
  <2>2. DecOK(dec)'
    BY <1>5, <1>10, <2>1
  <2> QED
    BY <1>2, <1>5, <1>11, <2>2, SameInputs
<1>13. Inputs' /\ EncOK'
  BY <1>1, <1>2, SameInputs, SamePlain DEF EncOK
<1> QED
  BY <1>12, <1>13 DEF CipherIInv

-----------------------------------------------------------------------------
(* The range that was asked for *)

\* Whole blocks in a number of bytes.
LEMMA DivIs ==
  ASSUME NEW a \in Int, NEW i \in Nat, a >= -1
  PROVE  i <= a \div Block <=> i * Block <= a
<1>1. Block \in Nat /\ Block > 0
  BY CipherBounds
<1>2. CASE a = -1
  <2>1. a \div Block = -1
    BY <1>1, <1>2, Z3
  <2>2. i * Block \in Nat
    BY Times
  <2> QED
    BY <1>2, <2>1, <2>2
<1>3. CASE a # -1
  <2> DEFINE q == a \div Block
  <2>1. a \in Nat
    BY <1>3
  <2>2. q \in Nat /\ q * Block <= a /\ a < q * Block + Block
    BY <1>1, <2>1, Z3
  <2> HIDE DEF q
  <2>3. i * Block \in Nat /\ q * Block \in Nat /\ (q + 1) * Block = q * Block + Block
    BY <2>2, Times
  <2>4. i <= q => i * Block <= q * Block
    BY <2>2, TimesUp
  <2>5. ~(i <= q) => (q + 1) * Block <= i * Block
    BY <2>2, TimesUp, ~(i <= q) => q + 1 <= i, q + 1 \in Nat
  <2>6. i <= q <=> i * Block <= a
    BY <1>1, <2>1, <2>2, <2>3, <2>4, <2>5
  <2> QED
    BY <2>6 DEF q
<1> QED
  BY <1>2, <1>3

\* What decrypt_range takes of the block at i.
FirstOpened(from) == from \div Block
LastOpened(from, to) == (Max({from, to}) - 1) \div Block
TakenOf(from, to, i) == Positions(Max({from, i * Block}), Min({to, (i + 1) * Block, plain}))
TakenBlocks(from, to) ==
  [i \in 1 .. Blocks |-> IF i - 1 \in FirstOpened(from) .. LastOpened(from, to) THEN TakenOf(from, to, i - 1) ELSE <<>>]

\* It is what comes between the end of one block and of the next.
LEMMA TakenIs ==
  ASSUME Inputs, NEW i \in Nat, i < Blocks
  PROVE  TakenBlocks(wanted.from, WantedTo)[i + 1] = Positions(OutTo(i), OutTo(i + 1))
<1> DEFINE from == wanted.from
           to == WantedTo
           b == i * Block
           c == (i + 1) * Block
<1>1. from \in Nat /\ to \in Nat /\ from <= to /\ to <= plain /\ plain \in Nat /\ Blocks \in Nat
  BY OutToIs, InputsAre
<1>2. b \in Nat /\ c \in Nat /\ c = b + Block /\ Block \in Nat /\ Block > 0
  BY Times
<1>3. OutTo(i) = LET u == IF to <= b THEN to ELSE b IN IF from <= u THEN u ELSE from
  BY OutToIs
<1>4. OutTo(i + 1) = LET u == IF to <= c THEN to ELSE c IN IF from <= u THEN u ELSE from
  BY OutToIs, i + 1 \in Nat
<1>5. FirstOpened(from) <= i <=> from < c
  <2>1. i + 1 <= from \div Block <=> c <= from
    BY <1>1, DivIs, i + 1 \in Nat
  <2>2. from \div Block \in Int
    BY <1>1, <1>2
  <2> HIDE DEF from, c
  <2> DEFINE q == from \div Block
  <2>3. q \in Int /\ (i + 1 <= q <=> c <= from)
    BY <2>1, <2>2
  <2> HIDE DEF q
  <2>4. q <= i <=> from < c
    BY <1>1, <1>2, <2>3
  <2> QED
    BY <2>4 DEF FirstOpened, q
<1>6. i <= LastOpened(from, to) <=> b < to
  <2>1. Max({from, to}) = to
    BY <1>1, MaxIs
  <2>2. to - 1 \in Int /\ to - 1 >= -1
    BY <1>1
  <2>3. i <= (to - 1) \div Block <=> b <= to - 1
    BY <2>2, DivIs
  <2> HIDE DEF to, b
  <2> QED
    BY <1>1, <1>2, <2>1, <2>3 DEF LastOpened
<1>7. FirstOpened(from) \in Int /\ LastOpened(from, to) \in Int
  <2>1. Max({from, to}) = to
    BY <1>1, MaxIs
  <2> QED
    BY <1>1, <1>2, <2>1 DEF FirstOpened, LastOpened
<1>8. i \in FirstOpened(from) .. LastOpened(from, to) <=> from < c /\ b < to
  BY <1>5, <1>6, <1>7
<1>9. TakenBlocks(from, to)[i + 1] = IF i \in FirstOpened(from) .. LastOpened(from, to) THEN TakenOf(from, to, i) ELSE <<>>
  <2>1. i + 1 \in 1 .. Blocks /\ (i + 1) - 1 = i
    BY <1>1
  <2> HIDE DEF from, to
  <2> QED
    BY <2>1 DEF TakenBlocks
<1>10. Max({from, b}) = IF from <= b THEN b ELSE from
  BY <1>1, <1>2, MaxIs
<1>11. Min({to, c, plain}) = IF to <= c THEN to ELSE c
  <2> HIDE DEF to, c
  <2> QED
    BY <1>1, <1>2 DEF Min
<1> DEFINE x == OutTo(i)
           y == OutTo(i + 1)
<1>12. x \in Int /\ y \in Int
  <2> HIDE DEF from, to, b, c
  <2> QED
    BY <1>1, <1>2, <1>3, <1>4
<1>13. CASE from < c /\ b < to
  <2>1. Max({from, b}) = x /\ Min({to, c, plain}) = y
    <3> HIDE DEF from, to, b, c
    <3> QED
      BY <1>1, <1>2, <1>3, <1>4, <1>10, <1>11, <1>13
  <2> QED
    BY <1>8, <1>9, <1>13, <2>1 DEF TakenOf
<1>14. CASE ~(from < c /\ b < to)
  <2>1. x = y
    <3> HIDE DEF from, to, b, c
    <3> QED
      BY <1>1, <1>2, <1>3, <1>4, <1>14
  <2> HIDE DEF x, y
  <2>2. Positions(x, y) = <<>>
    BY <1>12, <2>1, PositionsAre
  <2> QED
    BY <1>8, <1>9, <1>14, <2>2 DEF x, y
<1> QED
  BY <1>13, <1>14

\* What has come out grows within the range.
LEMMA OutToUp ==
  ASSUME Inputs, NEW i \in Nat
  PROVE  wanted.from <= OutTo(i) /\ OutTo(i) <= OutTo(i + 1) /\ OutTo(i) <= WantedTo /\ OutTo(i) \in Nat
         /\ OutTo(i + 1) \in Nat
<1> DEFINE from == wanted.from
           to == WantedTo
           b == i * Block
           c == (i + 1) * Block
<1>1. from \in Nat /\ to \in Nat /\ from <= to
  BY OutToIs
<1>2. b \in Nat /\ c \in Nat /\ c = b + Block /\ Block \in Nat /\ Block > 0
  BY Times
<1>3. OutTo(i) = LET u == IF to <= b THEN to ELSE b IN IF from <= u THEN u ELSE from
  BY OutToIs
<1>4. OutTo(i + 1) = LET u == IF to <= c THEN to ELSE c IN IF from <= u THEN u ELSE from
  BY OutToIs, i + 1 \in Nat
<1> HIDE DEF from, to, b, c
<1>5. from <= OutTo(i) /\ OutTo(i) <= OutTo(i + 1) /\ OutTo(i) <= to /\ OutTo(i) \in Nat /\ OutTo(i + 1) \in Nat
  BY <1>1, <1>2, <1>3, <1>4
<1> QED
  BY <1>5 DEF from, to

\* What the whole range is, block after block.
LEMMA WantedIs ==
  ASSUME Inputs
  PROVE  WantedBytes = Positions(wanted.from, WantedTo)
<1> DEFINE f == TakenBlocks(wanted.from, WantedTo)
           S == {n \in Nat : n <= Blocks => Joined(f, n) = Positions(wanted.from, OutTo(n))}
<1>1. Blocks \in Nat /\ wanted.from \in Nat /\ plain \in Nat /\ WantedTo \in Nat /\ WantedTo <= plain
  BY InputsAre, OutToIs, 0 \in Nat
<1>2. \A i \in Nat : i < Blocks => f[i + 1] = Positions(OutTo(i), OutTo(i + 1))
  BY TakenIs
<1>3. WantedBytes = Joined(f, Blocks)
  <2> DEFINE from == wanted.from
             to == WantedTo
  <2>1. Decrypted(from, to) = FlattenSeq(TakenBlocks(from, to))
    <3> HIDE DEF from, to
    <3> QED
      BY DEF Decrypted, TakenBlocks, FirstOpened, LastOpened, TakenOf
  <2>2. TakenBlocks(from, to) = [i \in 1 .. Blocks |-> TakenBlocks(from, to)[i]]
    <3> HIDE DEF from, to
    <3> QED
      BY DEF TakenBlocks
  <2>3. WantedBytes = Decrypted(from, to)
    BY DEF WantedBytes, WantedTo
  <2> QED
    BY <2>1, <2>2, <2>3 DEF Joined
<1> HIDE DEF f
<1>4. 0 \in S
  <2>1. Positions(wanted.from, OutTo(0)) = <<>>
    BY FirstDecIs
  <2> QED
    BY <2>1, JoinedNone
<1>5. ASSUME NEW n \in Nat, n \in S PROVE n + 1 \in S
  <2> SUFFICES ASSUME n + 1 <= Blocks PROVE Joined(f, n + 1) = Positions(wanted.from, OutTo(n + 1))
    OBVIOUS
  <2> DEFINE m == n + 1
             x == OutTo(n)
             y == OutTo(m)
             a == wanted.from
  <2>1. m \in Nat /\ m # 0 /\ m - 1 = n /\ n < Blocks /\ n <= Blocks
    BY <1>1
  <2>2. x \in Nat /\ y \in Nat /\ a <= x /\ x <= y /\ a \in Nat
    BY <1>1, OutToUp
  <2>3. f[m] = Positions(x, y)
    BY <1>2, <2>1
  <2>4. Joined(f, n) = Positions(a, x)
    BY <1>5, <2>1
  <2> HIDE DEF m, x, y, a
  <2>5. f[m] \in Seq(Int)
    BY <2>2, <2>3, PositionsAre
  <2>6. Joined(f, m) = Then(Joined(f, n), f[m])
    BY <2>1, <2>5, JoinedMore DEF Then
  <2>7. Then(Positions(a, x), Positions(x, y)) = Positions(a, y)
    BY <2>2, PositionsThen
  <2>8. Joined(f, m) = Positions(a, y)
    BY <2>3, <2>4, <2>6, <2>7
  <2> QED
    BY <2>8 DEF m, y, a
<1>6. Blocks \in S
  <2>1. Nat \subseteq S
    <3> HIDE DEF S
    <3> QED
      BY <1>4, <1>5, Climb
  <2> QED
    BY <1>1, <2>1
<1>7. OutTo(Blocks) = WantedTo
  <2>1. plain <= Blocks * Block /\ Blocks * Block \in Nat
    BY <1>1, LastBlock, Times
  <2>2. WantedTo <= Blocks * Block
    BY <1>1, <2>1
  <2> QED
    BY <1>1, <2>2, AllOut
<1> QED
  BY <1>1, <1>3, <1>6, <1>7

\* What has come out is the beginning of it.
LEMMA BeginsWith ==
  ASSUME NEW a \in Nat, NEW x \in Nat, NEW t \in Nat, a <= x, x <= t
  PROVE  IsPrefix(Positions(a, x), Positions(a, t))
<1> DEFINE s == Positions(a, x)
           w == Positions(a, t)
<1>1. Len(s) = x - a /\ Len(w) = t - a /\ s \in Seq(Int) /\ w \in Seq(Int)
  BY PositionsAre
<1>2. SubSeq(w, 1, x - a) = s
  <2> DEFINE m == 1
             n == x - a
  <2>1. m \in Int /\ n \in Int /\ 1 <= m /\ n <= t - a /\ 0 <= t - a /\ a + m - 1 = a /\ a + n = x
    OBVIOUS
  <2> HIDE DEF m, n, s, w
  <2>2. SubSeq(Positions(a, t), m, n) = Positions(a + m - 1, a + n)
    <3>1. a \in Int /\ t \in Int
      OBVIOUS
    <3> QED
      BY <2>1, <3>1, PositionsPart
  <2>3. SubSeq(Positions(a, t), m, n) = Positions(a, x)
    BY <2>1, <2>2
  <2> QED
    BY <2>3 DEF m, n, s, w
<1>3. SubSeq(s, 1, Len(s)) = s
  BY <1>1, SubSeqFull
<1> HIDE DEF s, w
<1>4. Len(s) <= Len(w) /\ SubSeq(s, 1, Len(s)) = SubSeq(w, 1, Len(s))
  BY <1>1, <1>2, <1>3
<1>5. IsPrefix(s, w)
  BY <1>4 DEF IsPrefix
<1> QED
  BY <1>5 DEF s, w

-----------------------------------------------------------------------------
(* The theorems *)

\* Every step.
LEMMA CipherKeeps ==
  ASSUME CipherIInv, [CipherNext]_cipherVars
  PROVE  CipherIInv'
<1>1. Inputs /\ EncOK
  BY DEF CipherIInv
<1>2. CASE EncFeed
  <2>1. ~enc.done
    BY <1>1, <1>2 DEF EncFeed, EncOK, Piece, Inputs
  <2>2. dec = FirstDec /\ damage = "none"
    BY <1>1, <2>1 DEF EncOK
  <2>3. UNCHANGED <<plain, declared, wanted, damage, dec>>
    BY <1>2 DEF EncFeed
  <2>4. EncOK'
    BY <1>1, <1>2, EncFeedKeeps
  <2> QED
    BY <2>2, <2>3, <2>4, WritingKeeps
<1>3. CASE EncFinalize
  <2>1. ~enc.done /\ UNCHANGED <<plain, declared, wanted, damage, dec>>
    BY <1>3 DEF EncFinalize
  <2>2. dec = FirstDec /\ damage = "none"
    BY <1>1, <2>1 DEF EncOK
  <2>3. EncOK'
    BY <1>1, <1>3, EncFinalizeKeeps
  <2> QED
    BY <2>1, <2>2, <2>3, WritingKeeps
<1>4. CASE Damage
  BY <1>4, DamageKeeps
<1>5. CASE DecFeed
  BY <1>5, DecFeedKeeps
<1>6. CASE DecFinalize
  BY <1>6, DecFinalizeKeeps
<1>7. CASE UNCHANGED cipherVars
  <2>1. plain' = plain /\ declared' = declared /\ wanted' = wanted /\ enc' = enc /\ cipher' = cipher
        /\ damage' = damage /\ dec' = dec
    BY <1>7 DEF cipherVars
  <2>2. DecOK(dec)'
    <3>1. \A d : DecOK(d)' = DecOK(d)
      BY <2>1, SameDec
    <3> QED
      BY <2>1, <3>1 DEF CipherIInv
  <2>3. Inputs' /\ (Turn(dec) = dec)'
    BY <2>1, SameInputs DEF CipherIInv
  <2>4. EncOK'
    BY <1>1, <2>1, SamePlain DEF EncOK, FirstDec
  <2> QED
    BY <2>2, <2>3, <2>4 DEF CipherIInv
<1> QED
  BY <1>2, <1>3, <1>4, <1>5, <1>6, <1>7 DEF CipherNext

\* The members of a sequence.
LEMMA RangeIn ==
  ASSUME NEW T, NEW s \in Seq(T)
  PROVE  Range(s) \subseteq T
BY DEF Range

\* The invariant gives the types and the property.
LEMMA CipherTypes ==
  ASSUME CipherIInv
  PROVE  CipherTypeOK
<1>1. Inputs /\ EncOK /\ DecOK(dec)
  BY DEF CipherIInv
<1>2. plain \in Nat /\ plain <= MaxPlain /\ MaxPlain \in Nat /\ Block \in Nat /\ Block > 0
  BY <1>1, InputsAre
<1>3. /\ plain \in 0 .. MaxPlain /\ declared \in 0 .. MaxPlain
      /\ wanted.from \in 0 .. MaxPlain /\ wanted.to \in -1 .. MaxPlain
  BY <1>1, <1>2 DEF Inputs
<1>4. enc.fed \in 0 .. plain /\ enc.idx \in 0 .. MaxPlain /\ Len(enc.buf) < Block
  <2> DEFINE i == enc.idx
             e == enc.fed
             b == i * Block
  <2>1. i \in Nat /\ e \in Nat /\ e <= plain /\ b <= e /\ e < b + Block
    BY <1>1 DEF EncOK
  <2>2. enc.buf = IF enc.done THEN <<>> ELSE Positions(b, e)
    BY <1>1 DEF EncOK
  <2>3. b \in Nat /\ i <= b
    BY <1>2, <2>1, Times, Z3
  <2> HIDE DEF i, e, b
  <2>4. i \in 0 .. MaxPlain
    BY <1>2, <2>1, <2>3
  <2>5. Len(Positions(b, e)) = e - b
    BY <2>1, <2>3, PositionsAre
  <2>6. Len(<<>>) = 0
    OBVIOUS
  <2>7. Len(enc.buf) < Block
    BY <1>2, <2>1, <2>2, <2>3, <2>5, <2>6
  <2> QED
    BY <2>1, <2>4, <2>7 DEF i, e
<1>5. Range(cipher) \subseteq Units
  BY <1>1, RangeIn DEF EncOK, Genuine
<1>6. /\ dec.state \in {"head", "blocks", "done", "closed", "error"}
      /\ dec.fed \in 0 .. Len(cipher) /\ Range(dec.out) \subseteq 0 .. MaxPlain
  <2>1. dec \in DecStates /\ dec.fed <= Len(cipher)
    BY <1>1 DEF DecOK
  <2>2. Len(cipher) \in Nat
    BY <1>1 DEF EncOK
  <2>3. dec.out \in Seq(0 .. MaxPlain)
    BY <2>1 DEF DecStates
  <2>4. Range(dec.out) \subseteq 0 .. MaxPlain
    BY <2>3, RangeIn
  <2> QED
    BY <2>1, <2>2, <2>4 DEF DecStates
<1> QED
  BY <1>3, <1>4, <1>5, <1>6 DEF CipherTypeOK

LEMMA CipherFaithful ==
  ASSUME CipherIInv
  PROVE  StreamsFaithful
<1>1. Inputs /\ EncOK /\ DecOK(dec)
  BY DEF CipherIInv
<1>2. enc.done /\ damage = "none" => cipher = Encrypted
  BY <1>1, EncryptedIs DEF EncOK
<1>3. ASSUME Stated
      PROVE  /\ IsPrefix(dec.out, WantedBytes)
             /\ dec.state \in {"closed", "error"} /\ damage = "none" => dec.state = "closed" /\ dec.out = WantedBytes
  <2> DEFINE a == wanted.from
             x == OutTo(dec.idx)
             t == WantedTo
  <2>1. dec.out = Positions(a, x)
    BY <1>1, <1>3 DEF DecOK
  <2>2. a \in Nat /\ x \in Nat /\ t \in Nat /\ a <= x /\ x <= t
    <3>1. dec.idx \in Nat
      BY <1>1 DEF DecOK, DecStates
    <3> QED
      BY <1>1, <3>1, OutToUp, OutToIs
  <2>3. WantedBytes = Positions(a, t)
    BY <1>1, WantedIs
  <2>4. dec.state \in {"closed", "error"} /\ damage = "none" => dec.state = "closed" /\ x = t
    BY <1>1 DEF DecOK, Consumed
  <2> HIDE DEF a, x, t
  <2>5. IsPrefix(Positions(a, x), Positions(a, t))
    BY <2>2, BeginsWith
  <2> QED
    BY <2>1, <2>3, <2>4, <2>5
<1> QED
  BY <1>2, <1>3 DEF StreamsFaithful, Stated

\* The invariant holds in every state.
THEOREM CipherInvariant == CipherSpec => []CipherIInv
<1>1. CipherInit => CipherIInv
  BY CipherStarts
<1>2. CipherIInv /\ [CipherNext]_cipherVars => CipherIInv'
  BY CipherKeeps
<1> QED
  BY <1>1, <1>2, PTL DEF CipherSpec

\* Units, counters and the states of both ends keep their types.  (StreamingEncryptor,
\* StreamingDecryptor)
THEOREM CipherTypeCorrect == CipherSpec => []CipherTypeOK
<1>1. CipherIInv => CipherTypeOK
  BY CipherTypes
<1> QED
  BY <1>1, CipherInvariant, PTL

\* For every block size and every length: however the streams are cut, what is stored is what
\* encrypt makes of the bytes, what comes out is the beginning of the range, and of an
\* undamaged object all of it.  (StreamingEncryptor, StreamingDecryptor, encrypt,
\* decrypt_range)
THEOREM StreamsAreFaithful == CipherSpec => []StreamsFaithful
<1>1. CipherIInv => StreamsFaithful
  BY CipherFaithful
<1> QED
  BY <1>1, CipherInvariant, PTL

=============================================================================
