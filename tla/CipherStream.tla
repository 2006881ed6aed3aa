---------------------------- MODULE CipherStream ----------------------------
(***************************************************************************)
(* The streamed encryption of storage/crypto.py: a plain text goes through *)
(* StreamingEncryptor in pieces of any size, is stored, and comes back     *)
(* through StreamingDecryptor in pieces of any size, whole or as a range.  *)
(* The cipher text is a header and one frame per block: its length, the    *)
(* block, its tag.                                                         *)
(*                                                                         *)
(* Simplifications, by name.                                               *)
(*  - A byte of plain text is its position; a frame's length and its tag   *)
(*    are one unit each (4 and 16 bytes), the header two (63 or 66 bytes). *)
(*  - A tag verifies when its block is the one that was sealed, at the     *)
(*    place it was sealed for: the nonce is the file's seed and the place. *)
(*  - Damage stands for whatever happens to the stored object; the header  *)
(*    has an HMAC of its own, so that damage to it ends in an error.       *)
(***************************************************************************)
EXTENDS Integers, SequencesExt

CONSTANTS
  Block,     \* bytes in a block
  MaxPlain   \* bound: bytes of plain text

ASSUME CipherBounds == Block \in Nat \ {0} /\ MaxPlain \in Nat

HeadUnits == 2
Piece == 1 .. 3   \* bound: units in one call of feed

VARIABLES
  plain,     \* bytes of plain text
  declared,  \* plaintext_len, as the header states it (0 when the caller has not said)
  wanted,    \* the range asked for, [from, to), to = -1 for the end
  enc,       \* StreamingEncryptor and how much it has been fed
  cipher,    \* the stored cipher text
  damage,    \* what has happened to it
  dec        \* StreamingDecryptor and how much it has been fed

cipherVars == <<plain, declared, wanted, enc, cipher, damage, dec>>

Positions(a, b) == [i \in 1 .. b - a |-> a + i - 1]
Header == [i \in 1 .. HeadUnits |-> [kind |-> "head", n |-> i, at |-> 0]]
\* One frame: the bytes as the block at idx.
Frame(bytes, idx) ==
  <<[kind |-> "length", n |-> Len(bytes) + 1, at |-> 0]>>
    \o [i \in 1 .. Len(bytes) |-> [kind |-> "byte", n |-> bytes[i], at |-> idx]]
    \o <<[kind |-> "tag", n |-> Len(bytes), at |-> idx]>>
\* The tag verifies the block at idx.
Verifies(ct, idx) ==
  \E b \in {Positions(idx * Block, idx * Block + k) : k \in 1 .. Block} : ct = Tail(Frame(b, idx))

Units == [kind : {"head", "length", "byte", "tag", "wrong"}, n : 0 .. MaxPlain + Block + HeadUnits, at : 0 .. MaxPlain]

CipherTypeOK ==
  /\ plain \in 0 .. MaxPlain /\ declared \in 0 .. MaxPlain
  /\ wanted.from \in 0 .. MaxPlain /\ wanted.to \in -1 .. MaxPlain
  /\ enc.fed \in 0 .. plain /\ enc.idx \in 0 .. MaxPlain /\ Len(enc.buf) < Block
  /\ Range(cipher) \subseteq Units
  /\ dec.state \in {"head", "blocks", "done", "closed", "error"}
  /\ dec.fed \in 0 .. Len(cipher) /\ Range(dec.out) \subseteq 0 .. MaxPlain

\* The caller states the length or not; what it compresses on the way may come out at
\* another length.
CipherInit ==
  /\ plain \in 0 .. MaxPlain
  /\ declared \in 0 .. MaxPlain
  /\ wanted \in {[from |-> 0, to |-> -1]} \cup
       IF declared = plain THEN {[from |-> a, to |-> b] : a \in 0 .. plain - 1, b \in 1 .. plain} ELSE {}
  /\ wanted.to # -1 => wanted.from < wanted.to
  /\ enc = [fed |-> 0, buf |-> <<>>, idx |-> 0, done |-> FALSE]
  /\ cipher = Header
  /\ damage = "none"
  /\ dec = [state |-> "head", fed |-> 0, buf |-> <<>>, idx |-> 0, out |-> <<>>]

-----------------------------------------------------------------------------
(* StreamingEncryptor *)

\* feed: every full block is sealed, the rest waits.
EncFeed ==
  \E k \in Piece \cap 1 .. plain - enc.fed :
    LET all == enc.buf \o Positions(enc.fed, enc.fed + k)
        full == Len(all) \div Block
        block(i) == SubSeq(all, i * Block + 1, (i + 1) * Block)
        frames == [i \in 1 .. full |-> Frame(block(i - 1), enc.idx + i - 1)]
    IN  /\ cipher' = cipher \o FlattenSeq(frames)
        /\ enc' = [enc EXCEPT !.fed = @ + k, !.idx = @ + full, !.buf = SubSeq(all, full * Block + 1, Len(all))]
        /\ UNCHANGED <<plain, declared, wanted, damage, dec>>

EncFinalize ==
  /\ enc.fed = plain /\ ~enc.done
  /\ cipher' = IF enc.buf = <<>> THEN cipher ELSE cipher \o Frame(enc.buf, enc.idx)
  /\ enc' = [enc EXCEPT !.done = TRUE, !.buf = <<>>]
  /\ UNCHANGED <<plain, declared, wanted, damage, dec>>

\* The stored object is cut, loses or doubles a stretch, or has a byte changed.
Damage ==
  /\ enc.done /\ damage = "none" /\ dec.fed = 0
  /\ \/ \E n \in 0 .. Len(cipher) - 1 : cipher' = SubSeq(cipher, 1, n) /\ damage' = "cut"
     \/ \E a \in HeadUnits + 1 .. Len(cipher), b \in HeadUnits + 1 .. Len(cipher) :
          a < b /\ cipher' = SubSeq(cipher, 1, a - 1) \o SubSeq(cipher, b, Len(cipher)) /\ damage' = "lost"
     \/ \E a \in HeadUnits + 1 .. Len(cipher) : cipher' = cipher \o SubSeq(cipher, a, Len(cipher)) /\ damage' = "doubled"
     \/ \E a \in 1 .. Len(cipher), n \in 0 .. Block :
          cipher' = [cipher EXCEPT ![a] = [kind |-> "wrong", n |-> n, at |-> @.at]] /\ damage' = "changed"
  /\ UNCHANGED <<plain, declared, wanted, enc, dec>>

-----------------------------------------------------------------------------
(* StreamingDecryptor *)

\* A frame that ends before the range is passed over without being opened.
\* Mutant: one that begins before it.
SkipsEarly(idx) == idx * Block + Block <= wanted.from + 1
Skips(idx) == idx * Block + Block <= wanted.from
LastUnit(bytes, idx) == IF wanted.to = -1 THEN declared ELSE Min({bytes, wanted.to - idx * Block})
FirstUnit(idx) == Max({0, wanted.from - idx * Block})

\* The bytes of one opened block that belong to the range; a slice stops at the block's end.
Slice(ct, idx) ==
  LET bytes == Len(ct) - 1
      lo == FirstUnit(idx)
      hi == Min({bytes, LastUnit(bytes, idx)})
  IN  IF hi > lo THEN [i \in 1 .. hi - lo |-> ct[lo + i].n] ELSE <<>>

HeadOpens(units) == units = Header

\* One turn of feed's loop; it stops where nothing changes.
Turn(d) ==
  IF d.state = "head" /\ Len(d.buf) >= HeadUnits THEN
    IF HeadOpens(SubSeq(d.buf, 1, HeadUnits))
    THEN [d EXCEPT !.state = "blocks", !.buf = SubSeq(@, HeadUnits + 1, Len(@))]
    ELSE [d EXCEPT !.state = "error"]
  ELSE IF d.state = "blocks" /\ d.buf # <<>> THEN
    LET ln == d.buf[1].n
        ct == SubSeq(d.buf, 2, ln + 1)
        rest == [d EXCEPT !.buf = SubSeq(@, ln + 2, Len(@)), !.idx = @ + 1]
    IN  IF ln < 1 \/ Len(d.buf) < ln + 1 THEN d
        ELSE IF Skips(d.idx) THEN rest
        ELSE IF ~Verifies(ct, d.idx) THEN [d EXCEPT !.state = "error"]
        ELSE [rest EXCEPT !.out = @ \o Slice(ct, d.idx),
                          !.state = IF wanted.to # -1 /\ (d.idx + 1) * Block >= wanted.to THEN "done" ELSE @]
  ELSE d

\* One turn for every unit it holds is as many as it can take.
Loop(d) ==
  LET turn[i \in 0 .. Len(d.buf)] == IF i = 0 THEN d ELSE Turn(turn[i - 1])
  IN  turn[Len(d.buf)]

DecFeed ==
  /\ enc.done /\ dec.state \in {"head", "blocks", "done"}
  /\ \E k \in Piece \cap 1 .. Len(cipher) - dec.fed :
       dec' = Loop([dec EXCEPT !.fed = @ + k, !.buf = @ \o SubSeq(cipher, dec.fed + 1, dec.fed + k)])
  /\ UNCHANGED <<plain, declared, wanted, enc, cipher, damage>>

\* finalize: no header, or a frame left over, is an error.
DecFinalize ==
  /\ enc.done /\ dec.fed = Len(cipher) /\ dec.state \in {"head", "blocks", "done"}
  /\ dec' = [dec EXCEPT !.state =
       IF @ = "head" \/ (@ = "blocks" /\ dec.buf # <<>>) THEN "error" ELSE "closed"]
  /\ UNCHANGED <<plain, declared, wanted, enc, cipher, damage>>

CipherNext == EncFeed \/ EncFinalize \/ Damage \/ DecFeed \/ DecFinalize

CipherSpec == CipherInit /\ [][CipherNext]_cipherVars

-----------------------------------------------------------------------------
(* The same on bytes: encrypt, and decrypt_full and decrypt_range. *)

Blocks == (plain + Block - 1) \div Block
Encrypted ==
  Header \o FlattenSeq([i \in 1 .. Blocks |-> Frame(Positions((i - 1) * Block, Min({i * Block, plain})), i - 1)])

\* decrypt_range opens the blocks first .. last and takes lo .. hi of each.
Decrypted(from, to) ==
  LET first == from \div Block
      last == (Max({from, to}) - 1) \div Block
      taken(i) == Positions(Max({from, i * Block}), Min({to, (i + 1) * Block, plain}))
  IN  FlattenSeq([i \in 1 .. Blocks |-> IF i - 1 \in first .. last THEN taken(i - 1) ELSE <<>>])

WantedBytes == Decrypted(wanted.from, IF wanted.to = -1 THEN plain ELSE wanted.to)

-----------------------------------------------------------------------------
\* However the stream is cut into pieces, in either direction: what is stored is what
\* encrypt makes of the bytes; what comes out is the beginning of the range that was asked
\* for, whatever has happened to the object; and undamaged, all of it comes out; provided
\* the header states the length, or no less than the first block.
\* (StreamingEncryptor, StreamingDecryptor, encrypt, decrypt_range)
StreamsFaithful ==
  /\ enc.done /\ damage = "none" => cipher = Encrypted
  /\ declared >= Min({plain, Block}) =>
       /\ IsPrefix(dec.out, WantedBytes)
       /\ dec.state \in {"closed", "error"} /\ damage = "none" => dec.state = "closed" /\ dec.out = WantedBytes
=============================================================================
