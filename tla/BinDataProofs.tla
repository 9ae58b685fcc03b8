----------------------------- MODULE BinDataProofs -----------------------------
(***************************************************************************)
(* Proofs about BinDataStream for any texts and any bounds: a BinnaryData  *)
(* stays within its memory, holds what was put into it, and gives words and *)
(* lines one after another.                                                *)
(***************************************************************************)
EXTENDS BinDataStream, SequenceTheorems, WellFoundedInduction, TLAPS

Byte == STRING \union {Nul}

Buffer == [data : Seq(Byte), usedLength : Nat, pget : Nat, pput : Nat]

\* What is in use has been allocated.
Fits(b) == b.usedLength <= maxLength(b)

-----------------------------------------------------------------------------
(* Allocation. *)

LEMMA ZerosType ==
  ASSUME NEW n \in Nat
  PROVE  Zeros(n) \in Seq(Byte) /\ Len(Zeros(n)) = n
<1>1. Nul \in Byte
  BY DEF Byte
<1>2. Zeros(n) \in [1 .. n -> Byte]
  BY <1>1 DEF Zeros
<1> QED  BY <1>2

LEMMA PrefixType ==
  ASSUME NEW s \in Seq(Byte), NEW n \in 0 .. Len(s)
  PROVE  SubSeq(s, 1, n) \in Seq(Byte) /\ Len(SubSeq(s, 1, n)) = n
OBVIOUS

LEMMA ConcatType ==
  ASSUME NEW s \in Seq(Byte), NEW t \in Seq(Byte)
  PROVE  s \o t \in Seq(Byte) /\ Len(s \o t) = Len(s) + Len(t)
OBVIOUS

LEMMA ConcatElements ==
  ASSUME NEW s \in Seq(Byte), NEW t \in Seq(Byte), NEW u, NEW n, Len(s) = u, Len(t) = n
  PROVE  \A i \in 1 .. (u + n) : (s \o t)[i] = IF i <= u THEN s[i] ELSE t[i - u]
BY ConcatProperties

LEMMA OverlayType ==
  ASSUME NEW s \in Seq(Byte), NEW t \in Seq(Byte), NEW at \in Nat
  PROVE  Overlay(s, at, t) \in Seq(Byte) /\ Len(Overlay(s, at, t)) = Len(s)
<1>1. \A i \in 1 .. Len(s) : i \in (at + 1) .. (at + Len(t)) => i - at \in 1 .. Len(t)
  OBVIOUS
<1>2. Overlay(s, at, t) \in [1 .. Len(s) -> Byte]
  BY <1>1 DEF Overlay
<1> QED  BY <1>2

\* reserve never takes memory away, gives what is asked for, and moves the
\* pointers only in a buffer with nothing in it.
LEMMA ReserveFits ==
  ASSUME NEW b \in Buffer, Fits(b), NEW len \in Nat
  PROVE  LET r == reserve(b, len)
         IN  /\ r \in Buffer /\ Fits(r)
             /\ maxLength(r) >= len /\ maxLength(r) >= maxLength(b)
             /\ r.usedLength = b.usedLength
             /\ \/ r.pget = b.pget /\ r.pput = b.pput
                \/ b.usedLength = 0 /\ r.pget = 0 /\ r.pput = 0
<1> DEFINE max == Len(b.data)
<1>1. max \in Nat /\ b.usedLength \in 0 .. max
  BY DEF Buffer, Fits, maxLength
<1>2. CASE len = max
  BY <1>1, <1>2 DEF reserve, maxLength, Buffer, Fits
<1>3. CASE len < max
  <2> DEFINE d == SubSeq(b.data, 1, len) \o Zeros(max - len)
  <2>1. /\ SubSeq(b.data, 1, len) \in Seq(Byte) /\ Len(SubSeq(b.data, 1, len)) = len
        /\ Zeros(max - len) \in Seq(Byte) /\ Len(Zeros(max - len)) = max - len
    <3>1. b.data \in Seq(Byte) /\ len \in 0 .. Len(b.data) /\ max - len \in Nat
      BY <1>1, <1>3 DEF Buffer
    <3> QED  BY <3>1, PrefixType, ZerosType
  <2>3. d \in Seq(Byte) /\ Len(d) = max
    BY <1>1, <2>1, ConcatType
  <2>2. reserve(b, len) = [b EXCEPT !.data = d]
    BY <1>1, <1>3 DEF reserve, maxLength
  <2> HIDE DEF d
  <2> QED  BY <1>1, <1>3, <2>2, <2>3 DEF maxLength, Buffer, Fits
<1>4. CASE len > max /\ b.usedLength > 0
  <2> DEFINE d == Contents(b) \o Zeros(len - b.usedLength)
  <2>1. /\ Contents(b) \in Seq(Byte) /\ Len(Contents(b)) = b.usedLength
        /\ Zeros(len - b.usedLength) \in Seq(Byte)
        /\ Len(Zeros(len - b.usedLength)) = len - b.usedLength
    <3>1. b.data \in Seq(Byte) /\ len - b.usedLength \in Nat
      BY <1>1, <1>4 DEF Buffer
    <3> QED  BY <1>1, <3>1, PrefixType, ZerosType DEF Contents
  <2>2. d \in Seq(Byte) /\ Len(d) = len
    BY <1>1, <2>1, ConcatType
  <2>3. reserve(b, len) = [b EXCEPT !.data = d]
    BY <1>1, <1>4 DEF reserve, maxLength
  <2> HIDE DEF d
  <2> QED  BY <1>1, <1>4, <2>2, <2>3 DEF maxLength, Buffer, Fits
<1>5. CASE len > max /\ b.usedLength = 0
  <2> DEFINE d == Zeros(len)
  <2>1. d \in Seq(Byte) /\ Len(d) = len
    BY ZerosType
  <2>2. reserve(b, len) = [b EXCEPT !.data = d, !.pget = 0, !.pput = 0]
    BY <1>1, <1>5 DEF reserve, maxLength
  <2> DEFINE b1 == [b EXCEPT !.data = d]
             b2 == [b1 EXCEPT !.pget = 0]
             b3 == [b2 EXCEPT !.pput = 0]
  <2> HIDE DEF d
  <2>3. b1 \in Buffer /\ b1.data = d /\ b1.usedLength = b.usedLength
    BY <2>1 DEF Buffer
  <2> HIDE DEF b1
  <2>4. b2 \in Buffer /\ b2.data = d /\ b2.usedLength = b.usedLength /\ b2.pget = 0
    BY <2>3 DEF Buffer
  <2> HIDE DEF b2
  <2>5. /\ b3 \in Buffer /\ b3.data = d /\ b3.usedLength = b.usedLength
        /\ b3.pget = 0 /\ b3.pput = 0
    BY <2>4 DEF Buffer
  <2>6. reserve(b, len) = b3
    BY <2>2 DEF b1, b2
  <2> HIDE DEF b3
  <2> QED  BY <1>1, <1>5, <2>1, <2>5, <2>6 DEF maxLength, Fits
<1> QED  BY <1>1, <1>2, <1>3, <1>4, <1>5

\* To grow by some bytes makes room for them.
LEMMA GrowFits ==
  ASSUME NEW b \in Buffer, Fits(b), NEW by \in Nat
  PROVE  LET g == grow(b, by)
         IN  /\ g \in Buffer /\ Fits(g) /\ maxLength(g) >= maxLength(b) + by
             /\ g.usedLength = b.usedLength
             /\ \/ g.pget = b.pget /\ g.pput = b.pput
                \/ b.usedLength = 0 /\ g.pget = 0 /\ g.pput = 0
<1>1. maxLength(b) \in Nat
  BY DEF Buffer, maxLength
<1>2. maxLength(b) + by \in Nat
  BY <1>1
<1> QED  BY <1>2, ReserveFits DEF grow

-----------------------------------------------------------------------------
(* Putting.  Bytes that are laid over the memory change no length but those *)
(* that are counted.                                                        *)

Appended(g, at, src) ==
  [g EXCEPT !.data = Overlay(@, at, src), !.usedLength = @ + Len(src)]
Inserted(g, at, src) ==
  [g EXCEPT !.data = Overlay(@, at, src), !.usedLength = @ + Len(src), !.pput = @ + Len(src)]

LEMMA OverlayFields ==
  ASSUME NEW g \in Buffer, NEW src \in Seq(Byte), NEW at \in Nat
  PROVE  LET a == Appended(g, at, src)  r == Inserted(g, at, src)
         IN  /\ a.data = Overlay(g.data, at, src) /\ r.data = Overlay(g.data, at, src)
             /\ a \in Buffer /\ maxLength(a) = maxLength(g)
             /\ a.usedLength = g.usedLength + Len(src) /\ a.pput = g.pput /\ a.pget = g.pget
             /\ r \in Buffer /\ maxLength(r) = maxLength(g)
             /\ r.usedLength = g.usedLength + Len(src) /\ r.pput = g.pput + Len(src)
             /\ r.pget = g.pget
<1> DEFINE d == Overlay(g.data, at, src)
           b1 == [g EXCEPT !.data = d]
           u == g.usedLength + Len(src)
           p == g.pput + Len(src)
           b2 == [b1 EXCEPT !.usedLength = u]
           b3 == [b2 EXCEPT !.pput = p]
<1>1. d \in Seq(Byte) /\ Len(d) = Len(g.data)
  BY OverlayType DEF Buffer
<1>2. u \in Nat /\ p \in Nat
  <2>1. Len(src) \in Nat
    OBVIOUS
  <2> QED  BY <2>1 DEF Buffer
<1>3. Appended(g, at, src) = b2
  BY DEF Appended
<1>4. Inserted(g, at, src) = b3
  BY DEF Inserted
<1> HIDE DEF d, u, p
<1>5. /\ b1 \in Buffer /\ b1.data = d /\ b1.usedLength = g.usedLength
      /\ b1.pput = g.pput /\ b1.pget = g.pget
  BY <1>1 DEF Buffer
<1> HIDE DEF b1
<1>6. /\ b2 \in Buffer /\ b2.data = d /\ b2.usedLength = u
      /\ b2.pput = g.pput /\ b2.pget = g.pget
  BY <1>2, <1>5 DEF Buffer
<1> HIDE DEF b2
<1>7. /\ b3 \in Buffer /\ b3.data = d /\ b3.usedLength = u /\ b3.pput = p /\ b3.pget = g.pget
  BY <1>2, <1>6 DEF Buffer
<1> HIDE DEF b3
<1> QED  BY <1>1, <1>3, <1>4, <1>6, <1>7 DEF maxLength, d, u, p

\* After a put the pointers are no further from the end than before.
Pointers(r, b) ==
  /\ b.pget <= b.usedLength => r.pget <= r.usedLength
  /\ b.pput <= b.usedLength => r.pput <= r.usedLength
  /\ r.pget = b.pget \/ (b.usedLength = 0 /\ r.pget = 0)

\* write and append ask for room first.
Room(b, n) == IF n + b.usedLength > maxLength(b) THEN grow(b, n) ELSE b

LEMMA RoomFits ==
  ASSUME NEW b \in Buffer, Fits(b), NEW n \in Nat
  PROVE  LET g == Room(b, n)
         IN  /\ g \in Buffer /\ maxLength(g) >= b.usedLength + n
             /\ g.usedLength = b.usedLength
             /\ \/ g.pget = b.pget /\ g.pput = b.pput
                \/ b.usedLength = 0 /\ g.pget = 0 /\ g.pput = 0
<1>1. maxLength(b) \in Nat /\ b.usedLength \in Nat
  BY DEF Buffer, maxLength
<1>2. CASE n + b.usedLength > maxLength(b)
  <2> DEFINE g == grow(b, n)
  <2>1. /\ g \in Buffer /\ maxLength(g) >= maxLength(b) + n /\ g.usedLength = b.usedLength
        /\ \/ g.pget = b.pget /\ g.pput = b.pput
           \/ b.usedLength = 0 /\ g.pget = 0 /\ g.pput = 0
    BY GrowFits
  <2> HIDE DEF g
  <2>2. maxLength(g) \in Nat
    BY <2>1 DEF Buffer, maxLength
  <2>3. maxLength(g) >= b.usedLength + n
    BY <1>1, <2>1, <2>2 DEF Fits
  <2> QED  BY <1>2, <2>1, <2>3 DEF Room, g
<1>3. CASE ~(n + b.usedLength > maxLength(b))
  BY <1>1, <1>3 DEF Room
<1> QED  BY <1>2, <1>3

LEMMA WriteFits ==
  ASSUME NEW b \in Buffer, Fits(b), NEW src \in Seq(Byte)
  PROVE  LET r == write(b, src)
         IN  /\ r \in Buffer /\ Fits(r) /\ Pointers(r, b)
             /\ b.pput = b.usedLength => r.pput = r.usedLength
<1>1. CASE src = <<>>
  BY <1>1 DEF write, Pointers
<1>2. CASE src # <<>>
  <2> DEFINE g == Room(b, Len(src))
             r == Inserted(g, g.pput, src)
  <2>1. /\ Len(src) \in Nat /\ maxLength(b) \in Nat
        /\ b.usedLength \in Nat /\ b.pget \in Nat /\ b.pput \in Nat
    BY DEF Buffer, maxLength
  <2>2. /\ g \in Buffer /\ maxLength(g) >= b.usedLength + Len(src)
        /\ g.usedLength = b.usedLength
        /\ \/ g.pget = b.pget /\ g.pput = b.pput
           \/ b.usedLength = 0 /\ g.pget = 0 /\ g.pput = 0
    BY <2>1, RoomFits
  <2>3. write(b, src) = r
    BY <1>2 DEF write, Inserted, Room
  <2> HIDE DEF g
  <2>4. g.pput \in Nat
    BY <2>2 DEF Buffer
  <2>5. /\ r \in Buffer /\ maxLength(r) = maxLength(g)
        /\ r.usedLength = g.usedLength + Len(src)
        /\ r.pput = g.pput + Len(src) /\ r.pget = g.pget
    BY <2>2, <2>4, OverlayFields
  <2> HIDE DEF r
  <2>6. /\ Fits(r) /\ Pointers(r, b)
        /\ b.pput = b.usedLength => r.pput = r.usedLength
    BY <2>1, <2>2, <2>5 DEF Fits, Pointers
  <2> QED  BY <2>3, <2>5, <2>6
<1> QED  BY <1>1, <1>2

\* The typed write makes the right room only where the put pointer is at the end.
LEMMA WriteTypedFits ==
  ASSUME NEW b \in Buffer, Fits(b), NEW src \in Seq(Byte), src # <<>>
  PROVE  LET r == writeTyped(b, src)
         IN  /\ r \in Buffer /\ Pointers(r, b)
             /\ b.pput = b.usedLength => Fits(r) /\ r.pput = r.usedLength
<1> DEFINE over == b.pput + Len(src) - b.usedLength
           g == IF over > 0 THEN grow(b, over) ELSE b
<1>1. /\ Len(src) \in Nat /\ Len(src) > 0 /\ maxLength(b) \in Nat
      /\ b.usedLength \in Nat /\ b.pget \in Nat /\ b.pput \in Nat /\ over \in Int
  BY DEF Buffer, maxLength
<1>2. /\ g \in Buffer /\ g.usedLength = b.usedLength
      /\ over > 0 => maxLength(g) >= maxLength(b) + over
      /\ \/ g.pget = b.pget /\ g.pput = b.pput
         \/ b.usedLength = 0 /\ g.pget = 0 /\ g.pput = 0
  <2>1. CASE over > 0
    <3>1. over \in Nat
      BY <1>1, <2>1
    <3> HIDE DEF over
    <3> QED  BY <2>1, <3>1, GrowFits
  <2>2. CASE ~(over > 0)
    BY <2>2
  <2> QED  BY <2>1, <2>2
<1>3. writeTyped(b, src) = Inserted(g, g.pput, src)
  BY DEF writeTyped, Inserted
<1> HIDE DEF g
<1> DEFINE r == Inserted(g, g.pput, src)
<1>4. g.pput \in Nat /\ maxLength(g) \in Nat
  BY <1>2 DEF Buffer, maxLength
<1>5. /\ r \in Buffer /\ maxLength(r) = maxLength(g)
      /\ r.usedLength = g.usedLength + Len(src)
      /\ r.pput = g.pput + Len(src) /\ r.pget = g.pget
  BY <1>2, <1>4, OverlayFields
<1> HIDE DEF r
<1>6. Pointers(r, b)
  BY <1>1, <1>2, <1>5 DEF Pointers
<1>7. b.pput = b.usedLength => Fits(r) /\ r.pput = r.usedLength
  BY <1>1, <1>2, <1>4, <1>5 DEF Fits
<1> QED  BY <1>3, <1>5, <1>6, <1>7 DEF r

LEMMA AppendFits ==
  ASSUME NEW b \in Buffer, Fits(b), NEW src \in Seq(Byte)
  PROVE  LET r == append(b, src) IN r \in Buffer /\ Fits(r) /\ Pointers(r, b)
<1>1. CASE src = <<>>
  BY <1>1 DEF append, Pointers
<1>2. CASE src # <<>>
  <2> DEFINE g == Room(b, Len(src))
             r == Appended(g, g.usedLength, src)
  <2>1. /\ Len(src) \in Nat /\ maxLength(b) \in Nat
        /\ b.usedLength \in Nat /\ b.pget \in Nat /\ b.pput \in Nat
    BY DEF Buffer, maxLength
  <2>2. /\ g \in Buffer /\ maxLength(g) >= b.usedLength + Len(src)
        /\ g.usedLength = b.usedLength
        /\ \/ g.pget = b.pget /\ g.pput = b.pput
           \/ b.usedLength = 0 /\ g.pget = 0 /\ g.pput = 0
    BY <2>1, RoomFits
  <2>3. append(b, src) = r
    BY <1>2 DEF append, Appended, Room
  <2> HIDE DEF g
  <2>4. g.usedLength \in Nat
    BY <2>2 DEF Buffer
  <2>5. /\ r \in Buffer /\ maxLength(r) = maxLength(g)
        /\ r.usedLength = g.usedLength + Len(src)
        /\ r.pput = g.pput /\ r.pget = g.pget
    BY <2>2, <2>4, OverlayFields
  <2> HIDE DEF r
  <2>6. Fits(r) /\ Pointers(r, b)
    BY <2>1, <2>2, <2>5 DEF Fits, Pointers
  <2> QED  BY <2>3, <2>5, <2>6
<1> QED  BY <1>1, <1>2

-----------------------------------------------------------------------------
(* What is in the buffer. *)

LEMMA ContentsType ==
  ASSUME NEW b \in Buffer, Fits(b)
  PROVE  /\ Contents(b) \in Seq(Byte) /\ Len(Contents(b)) = b.usedLength
         /\ \A i \in 1 .. b.usedLength : Contents(b)[i] = b.data[i]
<1>1. b.data \in Seq(Byte) /\ b.usedLength \in 0 .. Len(b.data)
  BY DEF Buffer, Fits, maxLength
<1> QED  BY <1>1 DEF Contents

\* Two buffers whose bytes in use are the same have the same contents.
LEMMA SameContents ==
  ASSUME NEW b \in Buffer, NEW r \in Buffer, Fits(b), Fits(r), r.usedLength = b.usedLength,
         \A i \in 1 .. b.usedLength : r.data[i] = b.data[i]
  PROVE  Contents(r) = Contents(b)
<1>1. /\ Contents(b) \in Seq(Byte) /\ Len(Contents(b)) = b.usedLength
      /\ Contents(r) \in Seq(Byte) /\ Len(Contents(r)) = b.usedLength
      /\ \A i \in 1 .. b.usedLength : Contents(r)[i] = Contents(b)[i]
  BY ContentsType
<1> QED  BY <1>1, SeqEqual

\* Allocation keeps what is there, unless less is asked for.
LEMMA ReserveContents ==
  ASSUME NEW b \in Buffer, Fits(b), NEW len \in Nat, b.usedLength <= len
  PROVE  Contents(reserve(b, len)) = Contents(b)
<1> DEFINE max == Len(b.data)
           r == reserve(b, len)
<1>1. /\ b.data \in Seq(Byte) /\ max \in Nat /\ b.usedLength \in 0 .. max
      /\ r \in Buffer /\ Fits(r) /\ r.usedLength = b.usedLength
  BY ReserveFits DEF Buffer, Fits, maxLength
<1>2. CASE len = max
  BY <1>2 DEF reserve, maxLength
<1>3. CASE len < max
  <2> DEFINE t == SubSeq(b.data, 1, len)
             z == Zeros(max - len)
  <2>1. r.data = t \o z
    <3>1. r = [b EXCEPT !.data = t \o z]
      BY <1>1, <1>3 DEF reserve, maxLength
    <3> HIDE DEF r, t, z
    <3> QED  BY <3>1 DEF Buffer
  <2>2. t \in Seq(Byte) /\ Len(t) = len /\ \A i \in 1 .. len : t[i] = b.data[i]
    BY <1>1, <1>3
  <2>3. max - len \in Nat
    BY <1>1, <1>3
  <2>4. z \in Seq(Byte)
    BY <2>3, ZerosType
  <2> HIDE DEF t, z
  <2>5. \A i \in 1 .. len : (t \o z)[i] = t[i]
    BY <2>2, <2>4
  <2>6. \A i \in 1 .. b.usedLength : r.data[i] = b.data[i]
    BY <1>1, <2>1, <2>2, <2>5
  <2> HIDE DEF r
  <2> QED  BY <1>1, <2>6, SameContents DEF r
<1>4. CASE len > max /\ b.usedLength > 0
  <2> DEFINE t == Contents(b)
             z == Zeros(len - b.usedLength)
  <2>1. r.data = t \o z
    <3>1. r = [b EXCEPT !.data = t \o z]
      BY <1>1, <1>4 DEF reserve, maxLength
    <3> HIDE DEF r, t, z
    <3> QED  BY <3>1 DEF Buffer
  <2>2. /\ t \in Seq(Byte) /\ Len(t) = b.usedLength
        /\ \A i \in 1 .. b.usedLength : t[i] = b.data[i]
    BY ContentsType
  <2>3. len - b.usedLength \in Nat
    BY <1>1, <1>4
  <2>4. z \in Seq(Byte)
    BY <2>3, ZerosType
  <2> HIDE DEF t, z
  <2>5. \A i \in 1 .. b.usedLength : (t \o z)[i] = t[i]
    BY <1>1, <2>2, <2>4
  <2>6. \A i \in 1 .. b.usedLength : r.data[i] = b.data[i]
    BY <2>1, <2>2, <2>5
  <2> HIDE DEF r
  <2> QED  BY <1>1, <2>6, SameContents DEF r
<1>5. CASE b.usedLength = 0
  <2> HIDE DEF r
  <2>1. \A i \in 1 .. b.usedLength : r.data[i] = b.data[i]
    BY <1>5
  <2> QED  BY <1>1, <2>1, SameContents DEF r
<1> QED  BY <1>1, <1>2, <1>3, <1>4, <1>5

LEMMA GrowContents ==
  ASSUME NEW b \in Buffer, Fits(b), NEW by \in Nat
  PROVE  Contents(grow(b, by)) = Contents(b)
<1>1. maxLength(b) + by \in Nat /\ b.usedLength <= maxLength(b) + by
  BY DEF Buffer, Fits, maxLength
<1> QED  BY <1>1, ReserveContents DEF grow

LEMMA RoomContents ==
  ASSUME NEW b \in Buffer, Fits(b), NEW n \in Nat
  PROVE  Contents(Room(b, n)) = Contents(b)
BY GrowContents DEF Room

\* Bytes laid after the last one in use come after the contents.
LEMMA OverlayContents ==
  ASSUME NEW g \in Buffer, NEW r \in Buffer, NEW src \in Seq(Byte),
         Fits(g), Fits(r), r.usedLength = g.usedLength + Len(src),
         r.data = Overlay(g.data, g.usedLength, src), maxLength(r) = maxLength(g)
  PROVE  Contents(r) = Contents(g) \o src
<1> DEFINE c == Contents(g)
           u == g.usedLength
           n == Len(src)
<1>1. /\ g.data \in Seq(Byte) /\ u \in Nat /\ n \in Nat /\ u + n <= Len(g.data)
      /\ Len(g.data) \in Nat
  BY DEF Buffer, Fits, maxLength
<1>2. /\ c \in Seq(Byte) /\ Len(c) = u /\ \A i \in 1 .. u : c[i] = g.data[i]
      /\ Contents(r) \in Seq(Byte) /\ Len(Contents(r)) = u + n
      /\ \A i \in 1 .. (u + n) : Contents(r)[i] = r.data[i]
  BY ContentsType
<1>3. \A i \in 1 .. (u + n) :
        r.data[i] = IF i \in (u + 1) .. (u + n) THEN src[i - u] ELSE g.data[i]
  <2>1. \A i \in 1 .. (u + n) : i \in DOMAIN g.data
    BY <1>1
  <2> QED  BY <2>1 DEF Overlay
<1> HIDE DEF c
<1>4. /\ c \o src \in Seq(Byte) /\ Len(c \o src) = u + n
      /\ \A i \in 1 .. (u + n) : (c \o src)[i] = IF i <= u THEN c[i] ELSE src[i - u]
  <2>1. c \in Seq(Byte) /\ src \in Seq(Byte) /\ Len(c) = u /\ Len(src) = n
    BY <1>2
  <2>2. c \o src \in Seq(Byte) /\ Len(c \o src) = u + n
    BY <2>1, ConcatType
  <2> HIDE DEF u, n
  <2>3. \A i \in 1 .. (u + n) : (c \o src)[i] = IF i <= u THEN c[i] ELSE src[i - u]
    BY <2>1, ConcatElements
  <2> QED  BY <2>2, <2>3
<1>5. \A i \in 1 .. (u + n) : Contents(r)[i] = (c \o src)[i]
  <2> HIDE DEF u, n
  <2> SUFFICES ASSUME NEW i \in 1 .. (u + n)
               PROVE  r.data[i] = (c \o src)[i]
    BY <1>2
  <2>1. CASE i <= u
    <3>1. i \in 1 .. u /\ i \notin (u + 1) .. (u + n)
      BY <1>1, <2>1
    <3>2. r.data[i] = g.data[i]
      BY <1>3, <3>1
    <3>3. (c \o src)[i] = c[i]
      BY <1>4, <2>1
    <3>4. c[i] = g.data[i]
      BY <1>2, <3>1
    <3> QED  BY <3>2, <3>3, <3>4
  <2>2. CASE ~(i <= u)
    <3>1. i \in (u + 1) .. (u + n)
      BY <1>1, <2>2
    <3>2. r.data[i] = src[i - u]
      BY <1>3, <3>1
    <3>3. (c \o src)[i] = src[i - u]
      BY <1>4, <2>2
    <3> QED  BY <3>2, <3>3
  <2> QED  BY <2>1, <2>2
<1> QED  BY <1>2, <1>4, <1>5, SeqEqual DEF c

\* What write, append and the typed write put comes after what was there; for the
\* writes, if the put pointer is at the end.
LEMMA InsertedContents ==
  ASSUME NEW b \in Buffer, NEW g \in Buffer, NEW src \in Seq(Byte), Fits(b),
         Contents(g) = Contents(b), maxLength(g) >= b.usedLength + Len(src),
         g.usedLength = b.usedLength
  PROVE  /\ Contents(Appended(g, g.usedLength, src)) = Contents(b) \o src
         /\ Contents(Inserted(g, g.usedLength, src)) = Contents(b) \o src
<1> DEFINE a == Appended(g, g.usedLength, src)
           r == Inserted(g, g.usedLength, src)
           n == Len(src)
<1>1. /\ maxLength(g) \in Nat /\ g.usedLength \in Nat /\ n \in Nat
  BY DEF Buffer, maxLength
<1>2. /\ a.data = Overlay(g.data, g.usedLength, src) /\ r.data = Overlay(g.data, g.usedLength, src)
      /\ a \in Buffer /\ maxLength(a) = maxLength(g) /\ a.usedLength = g.usedLength + n
      /\ r \in Buffer /\ maxLength(r) = maxLength(g) /\ r.usedLength = g.usedLength + n
  BY <1>1, OverlayFields
<1> HIDE DEF a, r
<1>3. Fits(g) /\ Fits(a) /\ Fits(r)
  BY <1>1, <1>2 DEF Fits
<1>4. Contents(a) = Contents(g) \o src
  BY <1>2, <1>3, OverlayContents
<1>5. Contents(r) = Contents(g) \o src
  BY <1>2, <1>3, OverlayContents
<1> QED  BY <1>4, <1>5 DEF a, r

LEMMA WriteContents ==
  ASSUME NEW b \in Buffer, Fits(b), NEW src \in Seq(Byte), b.pput = b.usedLength
  PROVE  Contents(write(b, src)) = Contents(b) \o src
<1>1. CASE src = <<>>
  <2>1. Contents(b) \o src = Contents(b)
    BY <1>1, ContentsType, ConcatEmptySeq
  <2> QED  BY <1>1, <2>1 DEF write
<1>2. CASE src # <<>>
  <2> DEFINE g == Room(b, Len(src))
  <2>1. Len(src) \in Nat /\ b.usedLength \in Nat
    BY DEF Buffer
  <2>2. /\ g \in Buffer /\ maxLength(g) >= b.usedLength + Len(src)
        /\ g.usedLength = b.usedLength /\ g.pput = g.usedLength /\ Contents(g) = Contents(b)
    BY <2>1, RoomFits, RoomContents
  <2>3. write(b, src) = Inserted(g, g.pput, src)
    BY <1>2 DEF write, Inserted, Room
  <2> HIDE DEF g
  <2> QED  BY <2>2, <2>3, InsertedContents
<1> QED  BY <1>1, <1>2

LEMMA AppendContents ==
  ASSUME NEW b \in Buffer, Fits(b), NEW src \in Seq(Byte)
  PROVE  Contents(append(b, src)) = Contents(b) \o src
<1>1. CASE src = <<>>
  <2>1. Contents(b) \o src = Contents(b)
    BY <1>1, ContentsType, ConcatEmptySeq
  <2> QED  BY <1>1, <2>1 DEF append
<1>2. CASE src # <<>>
  <2> DEFINE g == Room(b, Len(src))
  <2>1. Len(src) \in Nat
    OBVIOUS
  <2>2. /\ g \in Buffer /\ maxLength(g) >= b.usedLength + Len(src)
        /\ g.usedLength = b.usedLength /\ Contents(g) = Contents(b)
    BY <2>1, RoomFits, RoomContents
  <2>3. append(b, src) = Appended(g, g.usedLength, src)
    BY <1>2 DEF append, Appended, Room
  <2> HIDE DEF g
  <2> QED  BY <2>2, <2>3, InsertedContents
<1> QED  BY <1>1, <1>2

LEMMA WriteTypedContents ==
  ASSUME NEW b \in Buffer, Fits(b), NEW src \in Seq(Byte), src # <<>>, b.pput = b.usedLength
  PROVE  Contents(writeTyped(b, src)) = Contents(b) \o src
<1> DEFINE n == Len(src)
           g == grow(b, n)
<1>1. /\ n \in Nat /\ n > 0 /\ b.usedLength \in Nat /\ maxLength(b) \in Nat
      /\ b.pput + n - b.usedLength = n
  BY DEF Buffer, maxLength
<1>2. /\ g \in Buffer /\ maxLength(g) >= maxLength(b) + n
      /\ g.usedLength = b.usedLength /\ g.pput = g.usedLength /\ Contents(g) = Contents(b)
  BY <1>1, GrowFits, GrowContents
<1>3. writeTyped(b, src) = Inserted(g, g.pput, src)
  BY <1>1 DEF writeTyped, Inserted
<1> HIDE DEF g
<1>4. maxLength(g) \in Nat
  BY <1>2 DEF Buffer, maxLength
<1>5. maxLength(g) >= b.usedLength + n
  BY <1>1, <1>2, <1>4 DEF Fits
<1> QED  BY <1>2, <1>3, <1>5, InsertedContents

-----------------------------------------------------------------------------
(* Getting. *)

LEMMA MaxposType == maxpos \in Nat
BY SMT DEF maxpos

LEMMA LeastElement ==
  ASSUME NEW S, S \subseteq Nat, S # {}
  PROVE  \E i \in S : \A j \in S : i <= j
<1> DEFINE R == {ss \in Nat \X Nat : ss[1] < ss[2]}
<1>1. IsWellFoundedOn(R, Nat)
  BY NatLessThanWellFounded DEF OpToRel
<1> HIDE DEF R
<1>2. PICK i \in S : \A j \in S : ~ (<<j, i>> \in R)
  BY <1>1, WFMin
<1>3. \A j \in S : ~(j < i)
  BY <1>2 DEF R
<1> QED  BY <1>3

\* A byte that is found is in use, and not before the get pointer.
LEMMA FindInUse ==
  ASSUME NEW b \in Buffer, NEW ch, _find(b, ch) # maxpos
  PROVE  _find(b, ch) \in 0 .. (Remaining(b) - 1)
<1> DEFINE at == {i \in 0 .. (Remaining(b) - 1) : b.data[b.pget + i + 1] = ch}
<1>1. at # {} /\ at \subseteq Nat
  BY DEF _find
<1>2. \E i \in at : \A j \in at : i <= j
  BY <1>1, LeastElement
<1>3. _find(b, ch) = CHOOSE i \in at : \A j \in at : i <= j
  BY <1>1 DEF _find
<1> QED  BY <1>2, <1>3

\* What goes up to a byte in use is passed, and that byte with it.
LEMMA PassedFits ==
  ASSUME NEW b \in Buffer, Fits(b), NEW pos \in 0 .. (Remaining(b) - 1)
  PROVE  LET r == [readsome(b, pos) EXCEPT !.pget = @ + 1]
         IN  /\ r \in Buffer /\ r.data = b.data /\ r.usedLength = b.usedLength
             /\ r.pput = b.pput /\ r.pget <= r.usedLength
<1>1. /\ b.data \in Seq(Byte) /\ Len(b.data) \in Nat /\ b.usedLength \in Nat
      /\ b.pget \in Nat /\ b.pput \in Nat /\ pos \in Nat
      /\ b.pget + pos < b.usedLength /\ b.usedLength <= Len(b.data)
  BY DEF Buffer, Fits, maxLength, Remaining
<1>2. Len(Some(b, pos)) = pos
  <2>1. Some(b, pos) = SubSeq(b.data, b.pget + 1, b.pget + pos)
    <3>1. Remaining(b) > pos
      BY <1>1 DEF Remaining
    <3> QED  BY <3>1 DEF Some
  <2>2. \A i \in (b.pget + 1) .. (b.pget + pos) : b.data[i] \in Byte
    <3>1. \A i \in (b.pget + 1) .. (b.pget + pos) : i \in 1 .. Len(b.data)
      BY <1>1
    <3> QED  BY <1>1, <3>1
  <2>3. b.pget + 1 \in Int /\ b.pget + pos \in Int
    BY <1>1
  <2>4. Len(SubSeq(b.data, b.pget + 1, b.pget + pos))
          = IF b.pget + 1 <= b.pget + pos THEN (b.pget + pos) - (b.pget + 1) + 1 ELSE 0
    BY <2>2, <2>3, SubSeqProperties
  <2> QED  BY <1>1, <2>1, <2>4
<1> DEFINE s == readsome(b, pos)
<1>3. /\ s \in Buffer /\ s.data = b.data /\ s.usedLength = b.usedLength
      /\ s.pput = b.pput /\ s.pget = b.pget + pos
  BY <1>1, <1>2 DEF readsome, Buffer
<1> HIDE DEF s
<1>4. LET r == [s EXCEPT !.pget = @ + 1]
      IN  /\ r \in Buffer /\ r.data = b.data /\ r.usedLength = b.usedLength
          /\ r.pput = b.pput /\ r.pget = b.pget + pos + 1
  BY <1>1, <1>3 DEF Buffer
<1> QED  BY <1>1, <1>4 DEF s

\* So a get leaves the buffer as it was, with the get pointer within it.
Got(r, b) == /\ r \in Buffer /\ r.data = b.data /\ r.usedLength = b.usedLength
             /\ r.pput = b.pput /\ r.pget <= r.usedLength

\* The nearer of two bytes, of which one at least is found.
LEMMA NearerFits ==
  ASSUME NEW b \in Buffer, Fits(b), NEW c, NEW d, _find(b, c) # maxpos \/ _find(b, d) # maxpos
  PROVE  LET pos == IF _find(b, c) > _find(b, d) THEN _find(b, d) ELSE _find(b, c)
         IN  Got([readsome(b, pos) EXCEPT !.pget = @ + 1], b)
<1> DEFINE pos == IF _find(b, c) > _find(b, d) THEN _find(b, d) ELSE _find(b, c)
<1>1. /\ _find(b, c) # maxpos => _find(b, c) \in 0 .. (Remaining(b) - 1)
      /\ _find(b, d) # maxpos => _find(b, d) \in 0 .. (Remaining(b) - 1)
  BY FindInUse
<1>2. b.usedLength \in Nat /\ b.pget \in Nat
  BY DEF Buffer
<1>3. pos \in 0 .. (Remaining(b) - 1)
  BY <1>1, <1>2, MaxposType DEF Remaining
<1> HIDE DEF pos
<1>4. Got([readsome(b, pos) EXCEPT !.pget = @ + 1], b)
  BY <1>3, PassedFits DEF Got
<1> QED  BY <1>4 DEF pos

LEMMA ExtractFits ==
  ASSUME NEW b \in Buffer, Fits(b), _find(b, " ") # maxpos \/ _find(b, "\n") # maxpos
  PROVE  Got(extract(b).buffer, b)
BY NearerFits, Zenon DEF extract

LEMMA GetLineFits ==
  ASSUME NEW b \in Buffer, Fits(b), _find(b, "\n") # maxpos
  PROVE  Got(getline(b).buffer, b)
<1>1. _find(b, "\n") \in 0 .. (Remaining(b) - 1)
  BY FindInUse
<1>2. getline(b).buffer = [readsome(b, _find(b, "\n")) EXCEPT !.pget = @ + 1]
  BY DEF getline
<1> QED  BY <1>1, <1>2, PassedFits DEF Got

-----------------------------------------------------------------------------
(* The invariant.  Without an append the put pointer is at the end, which   *)
(* is what makes the room the typed write asks for the right one.           *)

TypeInv == buf \in Buffer /\ marks \subseteq Marks

PutAtEnd == Without({"appended", "putMoved", "typedInside"}) => buf.pput = buf.usedLength

IInv == TypeInv /\ InBounds /\ PutAtEnd

LEMMA TextType ==
  ASSUME NEW text \in Texts
  PROVE  text \in Seq(Byte)
<1>1. text \in Seq(STRING) /\ STRING \subseteq Byte
  BY TextsAssumption DEF Byte
<1> QED  BY <1>1, SeqMonotonic

LEMMA PlaceType ==
  ASSUME buf \in Buffer, NEW at \in Nat, NEW p \in Places(at), p >= 0
  PROVE  p \in Nat
<1>1. /\ buf.usedLength \in Nat /\ MaxBytes \in Nat
  BY StreamBounds DEF Buffer
<1> DEFINE D == {0, 1, MaxBytes}
<1>2. PICK d \in D : p \in {FromBeg(buf, d), FromEnd(buf, d), Back(buf, at, d)}
  BY DEF Places
<1>3. d \in Nat
  BY <1>1
<1>4. /\ FromBeg(buf, d) \in Int /\ FromEnd(buf, d) \in Int /\ Back(buf, at, d) \in Int
  BY <1>1, <1>3 DEF FromBeg, FromEnd, Back
<1> QED  BY <1>2, <1>4

LEMMA Initial == Init => IInv
<1> SUFFICES ASSUME Init PROVE IInv
  OBVIOUS
<1>1. NewBuffer \in Buffer
  BY DEF NewBuffer, Buffer
<1> QED  BY <1>1 DEF Init, IInv, TypeInv, InBounds, PutAtEnd, NewBuffer, maxLength

LEMMA Inductive == IInv /\ [Next]_vars => IInv'
<1> SUFFICES ASSUME IInv, [Next]_vars PROVE IInv'
  OBVIOUS
<1> USE DEF IInv, TypeInv
<1>0. /\ buf \in Buffer /\ Sound => Fits(buf)
      /\ buf.usedLength \in Nat /\ buf.pget \in Nat /\ buf.pput \in Nat
  BY DEF Sound, Fits, Buffer
<1>1. CASE Write
  <2>1. PICK text \in Texts : Put(write(buf, text), text, AfterAppend("overwritten"))
    BY <1>1 DEF Write
  <2>2. /\ Sound /\ buf' = write(buf, text)
        /\ marks' = marks \union AfterAppend("overwritten")
    BY <2>1 DEF Put, Mark
  <2>3. /\ buf' \in Buffer /\ Fits(buf') /\ Pointers(buf', buf)
        /\ buf.pput = buf.usedLength => buf'.pput = buf'.usedLength
    BY <1>0, <2>2, TextType, WriteFits
  <2>4. marks \subseteq marks' /\ marks' \subseteq Marks
    BY <2>2 DEF AfterAppend, Marks
  <2> QED  BY <1>0, <2>2, <2>3, <2>4 DEF InBounds, PutAtEnd, Without, Pointers, Fits
<1>2. CASE WriteTyped
  <2>1. PICK text \in Texts :
          text # <<>> /\ Put(writeTyped(buf, text), text, AfterAppend("typedInside"))
    BY <1>2 DEF WriteTyped
  <2>2. /\ Sound /\ buf' = writeTyped(buf, text)
        /\ marks' = marks \union AfterAppend("typedInside")
    BY <2>1 DEF Put, Mark
  <2>3. /\ buf' \in Buffer /\ Pointers(buf', buf)
        /\ buf.pput = buf.usedLength => Fits(buf') /\ buf'.pput = buf'.usedLength
    BY <1>0, <2>1, <2>2, TextType, WriteTypedFits
  <2>4. /\ marks \subseteq marks' /\ marks' \subseteq Marks
        /\ "appended" \in marks => "typedInside" \in marks'
    BY <2>2 DEF AfterAppend, Marks
  <2>5. Without({"putMoved", "typedInside"})' => buf.pput = buf.usedLength
    BY <2>4 DEF PutAtEnd, Without
  <2> QED  BY <1>0, <2>2, <2>3, <2>4, <2>5 DEF InBounds, PutAtEnd, Without, Pointers, Fits
<1>3. CASE AppendText
  <2>1. PICK text \in Texts : Put(append(buf, text), text, {"appended"})
    BY <1>3 DEF AppendText
  <2>2. Sound /\ buf' = append(buf, text) /\ marks' = marks \union {"appended"}
    BY <2>1 DEF Put, Mark
  <2>3. buf' \in Buffer /\ Fits(buf') /\ Pointers(buf', buf)
    BY <1>0, <2>2, TextType, AppendFits
  <2>4. marks' \subseteq Marks
    BY <2>2 DEF Marks
  <2> QED  BY <1>0, <2>2, <2>3, <2>4 DEF InBounds, PutAtEnd, Without, Pointers, Fits
<1>4. CASE Reserve
  <2>1. PICK len \in 0 .. MaxLength :
          /\ buf' = reserve(buf, len)
          /\ marks' = marks \union (IF len < buf.usedLength THEN {"shrunk"} ELSE {})
    BY <1>4 DEF Reserve, Mark
  <2>2. Sound /\ len \in Nat
    BY <1>4, <2>1, StreamBounds DEF Reserve
  <2>3. /\ buf' \in Buffer /\ Fits(buf') /\ buf'.usedLength = buf.usedLength
        /\ \/ buf'.pget = buf.pget /\ buf'.pput = buf.pput
           \/ buf.usedLength = 0 /\ buf'.pget = 0 /\ buf'.pput = 0
    BY <1>0, <2>1, <2>2, ReserveFits
  <2>4. marks \subseteq marks' /\ marks' \subseteq Marks
    BY <2>1 DEF Marks
  <2> QED  BY <1>0, <2>3, <2>4 DEF InBounds, PutAtEnd, Without, Fits
<1>5. CASE Clear
  <2>1. buf' = NewBuffer /\ marks' = {} /\ NewBuffer \in Buffer
    BY <1>5 DEF Clear, NewBuffer, Buffer
  <2> QED  BY <2>1 DEF InBounds, PutAtEnd, NewBuffer, maxLength
<1>6. CASE Extract
  <2>1. Sound /\ buf' = extract(buf).buffer /\ marks' = marks
    BY <1>6, Zenon DEF Extract, CanGet, Take
  <2>2. Got(buf', buf)
    BY <1>0, <1>6, <2>1, ExtractFits, Zenon DEF Extract
  <2> QED  BY <2>1, <2>2 DEF Got, InBounds, PutAtEnd, Without, maxLength
<1>7. CASE GetLine
  <2>1. Sound /\ buf' = getline(buf).buffer /\ marks' = marks
    BY <1>7, Zenon DEF GetLine, CanGet, Take
  <2>2. Got(buf', buf)
    BY <1>0, <1>7, <2>1, GetLineFits, Zenon DEF GetLine
  <2> QED  BY <2>1, <2>2 DEF Got, InBounds, PutAtEnd, Without, maxLength
<1>8. CASE ReadTyped
  <2>1. buf' = [buf EXCEPT !.pget = @ + 1] /\ marks' = marks \union {"getMoved"}
    BY <1>8 DEF ReadTyped, readTyped, Mark
  <2>2. /\ buf' \in Buffer /\ buf'.data = buf.data /\ buf'.usedLength = buf.usedLength
        /\ buf'.pput = buf.pput
    BY <2>1 DEF Buffer
  <2>3. marks' \subseteq Marks
    BY <2>1 DEF Marks
  <2> QED  BY <2>1, <2>2, <2>3 DEF InBounds, PutAtEnd, Without, maxLength
<1>9. CASE SeekG
  <2>1. PICK p \in Places(buf.pget) : p >= 0 /\ buf' = [buf EXCEPT !.pget = p]
    BY <1>9 DEF SeekG
  <2>2. p \in Nat
    BY <1>0, <2>1, PlaceType
  <2>3. /\ buf' \in Buffer /\ buf'.data = buf.data /\ buf'.usedLength = buf.usedLength
        /\ buf'.pput = buf.pput
    BY <2>1, <2>2 DEF Buffer
  <2>4. marks' = marks \union {"getMoved"} /\ marks' \subseteq Marks
    BY <1>9 DEF SeekG, Mark, Marks
  <2> QED  BY <2>3, <2>4 DEF InBounds, PutAtEnd, Without, maxLength
<1>10. CASE SeekP
  <2>1. PICK p \in Places(buf.pput) : p >= 0 /\ buf' = [buf EXCEPT !.pput = p]
    BY <1>10 DEF SeekP
  <2>2. p \in Nat
    BY <1>0, <2>1, PlaceType
  <2>3. buf' \in Buffer
    BY <2>1, <2>2 DEF Buffer
  <2>4. marks' = marks \union {"putMoved"} /\ marks' \subseteq Marks
    BY <1>10 DEF SeekP, Mark, Marks
  <2> QED  BY <2>3, <2>4 DEF InBounds, PutAtEnd, Without
<1>11. CASE UNCHANGED vars
  BY <1>11 DEF vars, InBounds, PutAtEnd, Without
<1> QED  BY <1>1, <1>2, <1>3, <1>4, <1>5, <1>6, <1>7, <1>8, <1>9, <1>10, <1>11 DEF Next

\* However BinnaryData is used, and however long: what counts as in use has been
\* allocated, and neither pointer is past it, but for the uses InBounds names
\* (write, append, reserve and the getters of DataArrays/binData.cpp).
THEOREM StaysInBounds == Spec => []InBounds
<1>1. IInv => InBounds
  BY DEF IInv
<1> QED  BY <1>1, Initial, Inductive, PTL DEF Spec

-----------------------------------------------------------------------------
(* What was put is what is there.  A put that misses the end, because an     *)
(* append left the put pointer behind, is marked as an overwriting one.      *)

FInv == /\ written \in Seq(Byte)
        /\ "typedInside" \in marks => "overwritten" \in marks
        /\ Faithful

\* A put at the end, or an append.
LEMMA PutFaithful ==
  ASSUME FInv, NEW text \in Seq(Byte), written' = written \o text,
         marks \subseteq marks', "typedInside" \in marks' => "overwritten" \in marks',
         Without({"putMoved", "overwritten", "shrunk"})' =>
           Contents(buf') = Contents(buf) \o text
  PROVE  FInv'
<1>1. written' \in Seq(Byte)
  BY ConcatType DEF FInv
<1>2. Faithful'
  <2> SUFFICES ASSUME Without({"putMoved", "overwritten", "shrunk"})'
               PROVE  Contents(buf') = written'
    BY DEF Faithful
  <2>1. Contents(buf) = written
    BY DEF FInv, Faithful, Without
  <2> QED  BY <2>1
<1> QED  BY <1>1, <1>2 DEF FInv

LEMMA FInvInductive == IInv /\ FInv /\ [Next]_vars => FInv'
<1> SUFFICES ASSUME IInv, FInv, [Next]_vars PROVE FInv'
  OBVIOUS
<1>0. /\ buf \in Buffer /\ marks \subseteq Marks /\ PutAtEnd
      /\ Sound => Fits(buf)
      /\ "typedInside" \in marks => "overwritten" \in marks
  BY DEF IInv, TypeInv, FInv, Sound, Fits
<1>a. ASSUME UNCHANGED <<written, marks>>,
             buf'.data = buf.data, buf'.usedLength = buf.usedLength
      PROVE  FInv'
  BY <1>a DEF FInv, Faithful, Without, Contents
<1>b. ASSUME UNCHANGED written,
             NEW mark, mark \in {"getMoved", "putMoved"}, marks' = marks \union {mark},
             mark = "getMoved" => buf'.data = buf.data /\ buf'.usedLength = buf.usedLength
      PROVE  FInv'
  BY <1>b DEF FInv, Faithful, Without, Contents
<1>1. CASE Write
  <2>1. PICK text \in Texts : Put(write(buf, text), text, AfterAppend("overwritten"))
    BY <1>1 DEF Write
  <2>2. /\ Sound /\ buf' = write(buf, text) /\ written' = written \o text
        /\ marks' = marks \union AfterAppend("overwritten") /\ text \in Seq(Byte)
    BY <2>1, TextType DEF Put, Mark
  <2>3. "overwritten" \notin marks' => buf.pput = buf.usedLength \/ "putMoved" \in marks
    BY <1>0, <2>2 DEF AfterAppend, PutAtEnd, Without
  <2>4. Without({"putMoved", "overwritten", "shrunk"})' =>
          Contents(buf') = Contents(buf) \o text
    BY <1>0, <2>2, <2>3, WriteContents DEF Without
  <2>5. /\ marks \subseteq marks'
        /\ "typedInside" \in marks' => "overwritten" \in marks'
    BY <1>0, <2>2 DEF AfterAppend
  <2> QED  BY <2>2, <2>4, <2>5, PutFaithful
<1>2. CASE WriteTyped
  <2>1. PICK text \in Texts :
          text # <<>> /\ Put(writeTyped(buf, text), text, AfterAppend("typedInside"))
    BY <1>2 DEF WriteTyped
  <2>2. /\ Sound /\ buf' = writeTyped(buf, text) /\ written' = written \o text
        /\ marks' = marks \union AfterAppend("typedInside") /\ text \in Seq(Byte)
    BY <2>1, TextType DEF Put, Mark
  <2>3. "overwritten" \notin marks' => buf.pput = buf.usedLength \/ "putMoved" \in marks
    BY <1>0, <2>2 DEF AfterAppend, PutAtEnd, Without
  <2>4. Without({"putMoved", "overwritten", "shrunk"})' =>
          Contents(buf') = Contents(buf) \o text
    BY <1>0, <2>1, <2>2, <2>3, WriteTypedContents DEF Without
  <2>5. /\ marks \subseteq marks'
        /\ "typedInside" \in marks' => "overwritten" \in marks'
    BY <1>0, <2>2 DEF AfterAppend
  <2> QED  BY <2>2, <2>4, <2>5, PutFaithful
<1>3. CASE AppendText
  <2>1. PICK text \in Texts : Put(append(buf, text), text, {"appended"})
    BY <1>3 DEF AppendText
  <2>2. /\ Sound /\ buf' = append(buf, text) /\ written' = written \o text
        /\ marks' = marks \union {"appended"} /\ text \in Seq(Byte)
    BY <2>1, TextType DEF Put, Mark
  <2>3. Contents(buf') = Contents(buf) \o text
    BY <1>0, <2>2, AppendContents
  <2>4. /\ marks \subseteq marks'
        /\ "typedInside" \in marks' => "overwritten" \in marks'
    BY <1>0, <2>2
  <2> QED  BY <2>2, <2>3, <2>4, PutFaithful
<1>4. CASE Reserve
  <2>1. PICK len \in 0 .. MaxLength :
          /\ Sound /\ buf' = reserve(buf, len) /\ written' = written
          /\ marks' = marks \union (IF len < buf.usedLength THEN {"shrunk"} ELSE {})
    BY <1>4 DEF Reserve, Mark
  <2>2. len \in Nat /\ buf.usedLength \in Nat
    BY <1>0, StreamBounds DEF Buffer
  <2>3. "shrunk" \notin marks' => buf.usedLength <= len
    BY <2>1, <2>2
  <2>4. "shrunk" \notin marks' => Contents(buf') = Contents(buf)
    BY <1>0, <2>1, <2>2, <2>3, ReserveContents
  <2>5. /\ marks \subseteq marks' /\ "overwritten" \in marks' <=> "overwritten" \in marks
        /\ "typedInside" \in marks' <=> "typedInside" \in marks
    BY <2>1
  <2> QED  BY <2>1, <2>4, <2>5 DEF FInv, Faithful, Without
<1>5. CASE Clear
  <2>1. buf' = NewBuffer /\ written' = <<>> /\ marks' = {}
    BY <1>5 DEF Clear
  <2>2. Contents(NewBuffer) = <<>> /\ <<>> \in Seq(Byte)
    BY DEF Contents, NewBuffer
  <2> QED  BY <2>1, <2>2 DEF FInv, Faithful
<1>6. CASE Extract
  <2>1. Sound /\ buf' = extract(buf).buffer /\ UNCHANGED <<written, marks>>
    BY <1>6, Zenon DEF Extract, CanGet, Take
  <2>2. Got(buf', buf)
    BY <1>0, <1>6, <2>1, ExtractFits, Zenon DEF Extract
  <2> QED  BY <1>a, <2>1, <2>2 DEF Got
<1>7. CASE GetLine
  <2>1. Sound /\ buf' = getline(buf).buffer /\ UNCHANGED <<written, marks>>
    BY <1>7, Zenon DEF GetLine, CanGet, Take
  <2>2. Got(buf', buf)
    BY <1>0, <1>7, <2>1, GetLineFits, Zenon DEF GetLine
  <2> QED  BY <1>a, <2>1, <2>2 DEF Got
<1>8. CASE ReadTyped
  <2>1. /\ buf' = [buf EXCEPT !.pget = @ + 1] /\ UNCHANGED written
        /\ marks' = marks \union {"getMoved"}
    BY <1>8 DEF ReadTyped, readTyped, Mark
  <2>2. buf'.data = buf.data /\ buf'.usedLength = buf.usedLength
    BY <1>0, <2>1 DEF Buffer
  <2> QED  BY <1>b, <2>1, <2>2
<1>9. CASE SeekG
  <2>1. PICK p \in Places(buf.pget) : buf' = [buf EXCEPT !.pget = p]
    BY <1>9 DEF SeekG
  <2>2. buf'.data = buf.data /\ buf'.usedLength = buf.usedLength
    BY <1>0, <2>1 DEF Buffer
  <2>3. UNCHANGED written /\ marks' = marks \union {"getMoved"}
    BY <1>9 DEF SeekG, Mark
  <2> QED  BY <1>b, <2>2, <2>3
<1>10. CASE SeekP
  <2>1. UNCHANGED written /\ marks' = marks \union {"putMoved"}
    BY <1>10 DEF SeekP, Mark
  <2> QED  BY <1>b, <2>1
<1>11. CASE UNCHANGED vars
  BY <1>11 DEF vars, FInv, Faithful, Without, Contents
<1> QED  BY <1>1, <1>2, <1>3, <1>4, <1>5, <1>6, <1>7, <1>8, <1>9, <1>10, <1>11 DEF Next

LEMMA FInitial == Init => FInv
<1> SUFFICES ASSUME Init PROVE FInv
  OBVIOUS
<1>1. buf = NewBuffer /\ written = <<>> /\ marks = {}
  BY DEF Init
<1>2. Contents(NewBuffer) = <<>> /\ <<>> \in Seq(Byte)
  BY DEF Contents, NewBuffer
<1> QED  BY <1>1, <1>2 DEF FInv, Faithful

\* However often the buffer had to grow, it holds what was put into it, in order,
\* but for the uses Faithful names (write, append and reserve of binData.cpp).
THEOREM HoldsWhatWasPut == Spec => []Faithful
<1>1. FInv => Faithful
  BY DEF FInv
<1> QED  BY <1>1, Initial, Inductive, FInitial, FInvInductive, PTL DEF Spec

-----------------------------------------------------------------------------
(* Words and lines.  A word that was taken stays where it was in what is     *)
(* written, which only grows behind it.                                      *)

Separators(line) == IF line THEN {"\n"} ELSE {" ", "\n"}

Word == [from : Nat, word : Seq(Byte), line : BOOLEAN]

\* Word t is what is in text at its place, up to its separator, at end.
WordAt(t, end, text) ==
  /\ end = t.from + Len(t.word) + 1 /\ end <= Len(text)
  /\ \A i \in 1 .. Len(t.word) :
       t.word[i] = text[t.from + i] /\ t.word[i] \notin Separators(t.line)
  /\ text[end] \in Separators(t.line)

\* Where word k of a list ends the next one begins, or the get pointer is.
EndOf(k, list, get) == IF k = Len(list) THEN get ELSE list[k + 1].from

WordsAt(list, get, text) == \A k \in 1 .. Len(list) : WordAt(list[k], EndOf(k, list, get), text)

WInv == /\ Len(written) <= MaxBytes
        /\ marks \intersect {"getMoved", "putMoved"} # {} => taken = <<>>
        /\ Without({"overwritten", "shrunk"}) =>
             taken \in Seq(Word) /\ WordsAt(taken, buf.pget, written)

\* _find gives the first place of a byte, if there is no more in use than a number
\* can say.
LEMMA FindFirst ==
  ASSUME NEW b \in Buffer, Remaining(b) <= maxpos, NEW ch
  PROVE  LET p == _find(b, ch)
         IN  /\ p \in Nat /\ p <= maxpos
             /\ p # maxpos => p < Remaining(b) /\ b.data[b.pget + p + 1] = ch
             /\ \A i \in 0 .. (Remaining(b) - 1) : i < p => b.data[b.pget + i + 1] # ch
<1> DEFINE at == {i \in 0 .. (Remaining(b) - 1) : b.data[b.pget + i + 1] = ch}
           p == _find(b, ch)
<1>1. Remaining(b) \in Int /\ at \subseteq Nat /\ maxpos \in Nat
  BY MaxposType DEF Remaining, Buffer
<1>2. CASE at = {}
  BY <1>1, <1>2 DEF _find
<1>3. CASE at # {}
  <2>1. \E i \in at : \A j \in at : i <= j
    BY <1>1, <1>3, LeastElement
  <2>2. p = CHOOSE i \in at : \A j \in at : i <= j
    BY <1>3 DEF _find
  <2>3. p \in at /\ \A j \in at : p <= j
    BY <2>1, <2>2
  <2> HIDE DEF p
  <2>4. \A i \in 0 .. (Remaining(b) - 1) : i < p => i \notin at
    BY <1>1, <2>3
  <2> QED  BY <1>1, <2>3, <2>4 DEF p
<1> QED  BY <1>2, <1>3

\* What is got up to a byte in use.
LEMMA GotWord ==
  ASSUME NEW b \in Buffer, Fits(b), NEW pos \in 0 .. (Remaining(b) - 1)
  PROVE  LET word == Some(b, pos)  r == [readsome(b, pos) EXCEPT !.pget = @ + 1]
         IN  /\ word \in Seq(Byte) /\ Len(word) = pos /\ r.pget = b.pget + pos + 1
             /\ \A i \in 1 .. pos : word[i] = b.data[b.pget + i]
<1>1. /\ b.data \in Seq(Byte) /\ Len(b.data) \in Nat /\ b.usedLength \in Nat
      /\ b.pget \in Nat /\ b.pput \in Nat /\ pos \in Nat
      /\ b.pget + pos < b.usedLength /\ b.usedLength <= Len(b.data)
  BY DEF Buffer, Fits, maxLength, Remaining
<1> DEFINE m == b.pget + 1
           n == b.pget + pos
<1>2. Some(b, pos) = SubSeq(b.data, m, n)
  <2>1. Remaining(b) > pos
    BY <1>1 DEF Remaining
  <2> QED  BY <2>1 DEF Some
<1>3. \A i \in m .. n : b.data[i] \in Byte
  <2>1. \A i \in m .. n : i \in 1 .. Len(b.data)
    BY <1>1
  <2> QED  BY <1>1, <2>1
<1>4. m \in Int /\ n \in Int /\ (m <= n => n - m + 1 = pos) /\ (~(m <= n) => pos = 0)
  BY <1>1
<1> HIDE DEF m, n
<1>5. /\ SubSeq(b.data, m, n) \in Seq(Byte)
      /\ Len(SubSeq(b.data, m, n)) = IF m <= n THEN n - m + 1 ELSE 0
      /\ \A i \in 1 .. (n - m + 1) : SubSeq(b.data, m, n)[i] = b.data[m + i - 1]
  BY <1>3, <1>4, SubSeqProperties
<1>6. Len(Some(b, pos)) = pos
  BY <1>2, <1>4, <1>5
<1>7. \A i \in 1 .. pos : Some(b, pos)[i] = b.data[b.pget + i]
  <2>1. \A i \in 1 .. pos : i \in 1 .. (n - m + 1) /\ m + i - 1 = b.pget + i
    BY <1>1 DEF m, n
  <2> QED  BY <1>2, <1>5, <2>1
<1>8. [readsome(b, pos) EXCEPT !.pget = @ + 1].pget = b.pget + pos + 1
  <2> DEFINE s == readsome(b, pos)
  <2>1. s \in Buffer /\ s.pget = b.pget + pos
    BY <1>1, <1>6 DEF readsome, Buffer
  <2> HIDE DEF s
  <2>2. [s EXCEPT !.pget = @ + 1].pget = b.pget + pos + 1
    BY <2>1 DEF Buffer
  <2> QED  BY <2>2 DEF s
<1> QED  BY <1>2, <1>5, <1>6, <1>7, <1>8

\* A word that goes up to the first separator is one that is written there.
LEMMA TakenWord ==
  ASSUME NEW b \in Buffer, Fits(b), Contents(b) = written, NEW line \in BOOLEAN,
         NEW pos \in 0 .. (Remaining(b) - 1),
         b.data[b.pget + pos + 1] \in Separators(line),
         \A i \in 0 .. (Remaining(b) - 1) :
           i < pos => b.data[b.pget + i + 1] \notin Separators(line)
  PROVE  LET t == [from |-> b.pget, word |-> Some(b, pos), line |-> line]
             r == [readsome(b, pos) EXCEPT !.pget = @ + 1]
         IN  t \in Word /\ WordAt(t, r.pget, written)
<1> DEFINE word == Some(b, pos)
           r == [readsome(b, pos) EXCEPT !.pget = @ + 1]
           t == [from |-> b.pget, word |-> word, line |-> line]
<1>1. /\ word \in Seq(Byte) /\ Len(word) = pos /\ r.pget = b.pget + pos + 1
      /\ \A i \in 1 .. pos : word[i] = b.data[b.pget + i]
  BY GotWord
<1>2. /\ b.pget \in Nat /\ pos \in Nat /\ b.usedLength \in Nat /\ b.pget + pos < b.usedLength
      /\ Remaining(b) = b.usedLength - b.pget
  BY DEF Buffer, Remaining
<1>3. Len(written) = b.usedLength /\ \A i \in 1 .. b.usedLength : written[i] = b.data[i]
  BY ContentsType
<1>4. \A i \in 1 .. pos : word[i] = written[b.pget + i] /\ word[i] \notin Separators(line)
  <2>1. \A i \in 1 .. pos : /\ b.pget + i \in 1 .. b.usedLength /\ i - 1 \in 0 .. (Remaining(b) - 1)
                            /\ i - 1 < pos /\ b.pget + (i - 1) + 1 = b.pget + i
    BY <1>2
  <2> QED  BY <1>1, <1>3, <2>1
<1>5. written[b.pget + pos + 1] = b.data[b.pget + pos + 1]
  <2>1. b.pget + pos + 1 \in 1 .. b.usedLength
    BY <1>2
  <2> QED  BY <1>3, <2>1
<1> HIDE DEF word, r
<1> QED  BY <1>1, <1>2, <1>3, <1>4, <1>5 DEF Word, WordAt, word, r

\* The nearer of two bytes, of which one at least is found, is the first of either.
LEMMA NearerFirst ==
  ASSUME NEW b \in Buffer, Remaining(b) <= maxpos, NEW c, NEW d,
         _find(b, c) # maxpos \/ _find(b, d) # maxpos
  PROVE  LET pos == IF _find(b, c) > _find(b, d) THEN _find(b, d) ELSE _find(b, c)
         IN  /\ pos \in 0 .. (Remaining(b) - 1) /\ b.data[b.pget + pos + 1] \in {c, d}
             /\ \A i \in 0 .. (Remaining(b) - 1) :
                  i < pos => b.data[b.pget + i + 1] \notin {c, d}
<1> DEFINE p == _find(b, c)
           q == _find(b, d)
           n == Remaining(b)
           pos == IF p > q THEN q ELSE p
<1>1. /\ p \in Nat /\ p <= maxpos
      /\ p # maxpos => p < n /\ b.data[b.pget + p + 1] = c
      /\ \A i \in 0 .. (n - 1) : i < p => b.data[b.pget + i + 1] # c
  BY FindFirst
<1>2. /\ q \in Nat /\ q <= maxpos
      /\ q # maxpos => q < n /\ b.data[b.pget + q + 1] = d
      /\ \A i \in 0 .. (n - 1) : i < q => b.data[b.pget + i + 1] # d
  BY FindFirst
<1>3. n \in Int
  BY DEF Remaining, Buffer
<1>4. p # maxpos \/ q # maxpos
  OBVIOUS
<1> HIDE DEF p, q, n
<1>5. /\ pos \in 0 .. (n - 1) /\ pos <= p /\ pos <= q
      /\ (pos = p /\ p # maxpos) \/ (pos = q /\ q # maxpos)
  BY <1>1, <1>2, <1>3, <1>4, MaxposType
<1> HIDE DEF pos
<1>6. \A i \in 0 .. (n - 1) : i < pos => i < p /\ i < q
  BY <1>1, <1>2, <1>3, <1>5
<1>7. \A i \in 0 .. (n - 1) : i < pos => b.data[b.pget + i + 1] \notin {c, d}
  BY <1>1, <1>2, <1>6
<1>8. b.data[b.pget + pos + 1] \in {c, d}
  BY <1>1, <1>2, <1>5
<1> QED  BY <1>5, <1>7, <1>8 DEF p, q, n, pos

LEMMA ExtractWord ==
  ASSUME NEW b \in Buffer, Fits(b), Contents(b) = written, Remaining(b) <= maxpos,
         _find(b, " ") # maxpos \/ _find(b, "\n") # maxpos
  PROVE  LET t == [from |-> b.pget, word |-> extract(b).word, line |-> FALSE]
         IN  t \in Word /\ WordAt(t, extract(b).buffer.pget, written)
<1> DEFINE pos == IF _find(b, " ") > _find(b, "\n") THEN _find(b, "\n") ELSE _find(b, " ")
<1>1. /\ pos \in 0 .. (Remaining(b) - 1) /\ b.data[b.pget + pos + 1] \in {" ", "\n"}
      /\ \A i \in 0 .. (Remaining(b) - 1) :
           i < pos => b.data[b.pget + i + 1] \notin {" ", "\n"}
  BY NearerFirst, Zenon
<1>2. /\ extract(b).word = Some(b, pos)
      /\ extract(b).buffer = [readsome(b, pos) EXCEPT !.pget = @ + 1]
  BY Zenon DEF extract
<1>3. Separators(FALSE) = {" ", "\n"}
  BY Zenon DEF Separators
<1> HIDE DEF pos
<1> QED  BY <1>1, <1>2, <1>3, TakenWord, Zenon

LEMMA GetLineWord ==
  ASSUME NEW b \in Buffer, Fits(b), Contents(b) = written, Remaining(b) <= maxpos,
         _find(b, "\n") # maxpos
  PROVE  LET t == [from |-> b.pget, word |-> getline(b).word, line |-> TRUE]
         IN  t \in Word /\ WordAt(t, getline(b).buffer.pget, written)
<1> DEFINE pos == _find(b, "\n")
<1>1. /\ pos \in Nat /\ pos < Remaining(b) /\ b.data[b.pget + pos + 1] = "\n"
      /\ \A i \in 0 .. (Remaining(b) - 1) : i < pos => b.data[b.pget + i + 1] # "\n"
  BY FindFirst
<1>2. /\ getline(b).word = Some(b, pos)
      /\ getline(b).buffer = [readsome(b, pos) EXCEPT !.pget = @ + 1]
  BY DEF getline
<1>3. Remaining(b) \in Int
  BY DEF Remaining, Buffer
<1> HIDE DEF pos
<1>4. /\ pos \in 0 .. (Remaining(b) - 1) /\ b.data[b.pget + pos + 1] \in Separators(TRUE)
      /\ \A i \in 0 .. (Remaining(b) - 1) :
           i < pos => b.data[b.pget + i + 1] \notin Separators(TRUE)
  BY <1>1, <1>3 DEF Separators
<1> QED  BY <1>2, <1>4, TakenWord

\* What is written behind words changes nothing about them.
LEMMA WordsStay ==
  ASSUME NEW list \in Seq(Word), NEW get, NEW w \in Seq(Byte), NEW text \in Seq(Byte),
         WordsAt(list, get, w)
  PROVE  WordsAt(list, get, w \o text)
<1> DEFINE more == w \o text
<1>1. /\ Len(w) \in Nat /\ Len(text) \in Nat /\ Len(more) = Len(w) + Len(text)
      /\ \A i \in 1 .. Len(w) : more[i] = w[i]
  BY ConcatType, ConcatElements
<1> HIDE DEF more
<1>2. ASSUME NEW t \in Word, NEW end, WordAt(t, end, w)
      PROVE  WordAt(t, end, more)
  <2>1. t.from \in Nat /\ Len(t.word) \in Nat
    BY DEF Word
  <2>2. \A i \in 1 .. Len(t.word) : t.from + i \in 1 .. Len(w)
    BY <1>1, <1>2, <2>1 DEF WordAt
  <2>3. end \in 1 .. Len(w) /\ end <= Len(more)
    BY <1>1, <1>2, <2>1 DEF WordAt
  <2> QED  BY <1>1, <1>2, <2>2, <2>3 DEF WordAt
<1>3. \A k \in 1 .. Len(list) : list[k] \in Word
  OBVIOUS
<1>4. WordsAt(list, get, more)
  BY <1>2, <1>3 DEF WordsAt
<1> QED  BY <1>4 DEF more

\* A word got where the last one ended follows on the others.
LEMMA OneMoreWord ==
  ASSUME NEW list \in Seq(Word), NEW get, NEW w, WordsAt(list, get, w),
         NEW t \in Word, t.from = get, NEW end, WordAt(t, end, w)
  PROVE  WordsAt(Append(list, t), end, w) /\ Append(list, t) \in Seq(Word)
<1> DEFINE all == Append(list, t)
           n == Len(list)
<1>1. /\ n \in Nat /\ all \in Seq(Word) /\ Len(all) = n + 1 /\ all[n + 1] = t
      /\ \A k \in 1 .. n : all[k] = list[k]
  OBVIOUS
<1> HIDE DEF all
<1>2. ASSUME NEW k \in 1 .. n
      PROVE  EndOf(k, all, end) = EndOf(k, list, get)
  <2>1. CASE k = n
    BY <1>1, <2>1 DEF EndOf
  <2>2. CASE k # n
    <3>1. k + 1 \in 1 .. n /\ k # n + 1
      BY <1>1, <2>2
    <3> QED  BY <1>1, <2>2, <3>1 DEF EndOf
  <2> QED  BY <2>1, <2>2
<1>3. EndOf(n + 1, all, end) = end
  BY <1>1 DEF EndOf
<1>4. \A k \in 1 .. (n + 1) : k \in 1 .. n \/ k = n + 1
  BY <1>1
<1>5. WordsAt(all, end, w)
  BY <1>1, <1>2, <1>3, <1>4 DEF WordsAt
<1> QED  BY <1>1, <1>5 DEF all

\* Until a pointer is moved or something is overwritten or cleared, the buffer is as
\* the words need it.
Regular == Without({"overwritten", "shrunk", "getMoved", "putMoved"})

LEMMA RegularBuffer ==
  ASSUME IInv, FInv, Len(written) <= MaxBytes, Regular
  PROVE  /\ buf \in Buffer /\ Fits(buf) /\ Contents(buf) = written
         /\ buf.pget \in Nat /\ buf.pget <= buf.usedLength /\ Remaining(buf) <= maxpos
<1>1. "typedInside" \notin marks
  BY DEF FInv, Regular, Without
<1>2. buf \in Buffer /\ Fits(buf) /\ buf.pget <= buf.usedLength
  BY <1>1 DEF IInv, TypeInv, InBounds, Fits, Regular, Without
<1>3. Contents(buf) = written
  BY DEF FInv, Faithful, Regular, Without
<1>4. /\ buf.usedLength = Len(written) /\ buf.usedLength \in Nat /\ buf.pget \in Nat
      /\ MaxBytes \in Nat /\ MaxBytes <= maxpos
  BY <1>2, <1>3, ContentsType, StreamBounds, MaxposType DEF Buffer
<1>5. Remaining(buf) <= maxpos
  BY <1>4, MaxposType DEF Remaining
<1> QED  BY <1>2, <1>3, <1>4, <1>5

\* Marks stay until the buffer is new.
LEMMA RegularBefore ==
  ASSUME WInv, marks \subseteq marks', Without({"overwritten", "shrunk"})', taken # <<>>
  PROVE  Regular
BY DEF WInv, Without, Regular

\* A put, and a reserve, leave the words as they are.
LEMMA PutWords ==
  ASSUME IInv, FInv, WInv, NEW text \in Seq(Byte), written' = written \o text,
         Len(written') <= MaxBytes, UNCHANGED taken, marks \subseteq marks',
         marks' \intersect {"getMoved", "putMoved"} = marks \intersect {"getMoved", "putMoved"},
         buf'.pget = buf.pget \/ (buf.usedLength = 0 /\ buf'.pget = 0)
  PROVE  WInv'
<1>1. marks' \intersect {"getMoved", "putMoved"} # {} => taken' = <<>>
  BY DEF WInv
<1>2. ASSUME Without({"overwritten", "shrunk"})'
      PROVE  taken' \in Seq(Word) /\ WordsAt(taken', buf'.pget, written')
  <2>1. CASE taken = <<>>
    BY <2>1 DEF WordsAt
  <2>2. CASE taken # <<>>
    <3>1. Regular
      BY <1>2, <2>2, RegularBefore
    <3>2. buf'.pget = buf.pget
      BY <3>1, RegularBuffer DEF WInv, Buffer
    <3>3. WordsAt(taken, buf.pget, written) /\ taken \in Seq(Word)
      BY <3>1 DEF WInv, Regular, Without
    <3>4. WordsAt(taken, buf.pget, written \o text)
      BY <3>3, WordsStay DEF FInv
    <3> QED  BY <3>2, <3>3, <3>4
  <2> QED  BY <2>1, <2>2
<1> QED  BY <1>1, <1>2 DEF WInv

\* A get takes the next word, or none once a pointer was moved.
LEMMA TakeWords ==
  ASSUME IInv, FInv, WInv, NEW line \in BOOLEAN, NEW r, Take(r, line), 
         Regular => LET t == [from |-> buf.pget, word |-> r.word, line |-> line]
                    IN  t \in Word /\ WordAt(t, r.buffer.pget, written)
  PROVE  WInv'
<1> DEFINE t == [from |-> buf.pget, word |-> r.word, line |-> line]
<1>1. written' = written /\ marks' = marks /\ buf' = r.buffer
  BY DEF Take
<1>2. CASE marks \intersect {"getMoved", "putMoved"} # {}
  <2>1. taken' = <<>>
    BY <1>2 DEF Take, WInv
  <2> QED  BY <1>1, <2>1 DEF WInv, WordsAt
<1>3. CASE marks \intersect {"getMoved", "putMoved"} = {}
  <2>1. taken' = Append(taken, t)
    BY <1>3 DEF Take
  <2>2. ASSUME Without({"overwritten", "shrunk"})'
        PROVE  taken' \in Seq(Word) /\ WordsAt(taken', buf'.pget, written')
    <3>1. Regular /\ taken \in Seq(Word) /\ WordsAt(taken, buf.pget, written)
      BY <1>1, <1>3, <2>2 DEF Regular, Without, WInv
    <3>2. t \in Word /\ WordAt(t, r.buffer.pget, written)
      BY <3>1
    <3>3. t.from = buf.pget
      OBVIOUS
    <3> HIDE DEF t
    <3> QED  BY <1>1, <2>1, <3>1, <3>2, <3>3, OneMoreWord
  <2> QED  BY <1>1, <1>3, <2>2 DEF WInv
<1> QED  BY <1>2, <1>3

LEMMA WInvInductive == IInv /\ FInv /\ WInv /\ [Next]_vars => WInv'
<1> SUFFICES ASSUME IInv, FInv, WInv, [Next]_vars PROVE WInv'
  OBVIOUS
<1>0. buf \in Buffer /\ (Sound => Fits(buf)) /\ written \in Seq(Byte)
  BY DEF IInv, TypeInv, FInv, Sound, Fits
<1>a. ASSUME NEW b, NEW text \in Texts, NEW mark, Put(b, text, mark),
             mark \intersect {"getMoved", "putMoved"} = {}, Pointers(b, buf)
      PROVE  WInv'
  <2>1. /\ written' = written \o text /\ marks' = marks \union mark /\ buf' = b
        /\ UNCHANGED taken /\ text \in Seq(Byte) /\ Len(written) + Len(text) <= MaxBytes
    BY <1>a, TextType DEF Put, Mark
  <2>2. Len(written') <= MaxBytes
    BY <1>0, <2>1, ConcatType
  <2>3. buf'.pget = buf.pget \/ (buf.usedLength = 0 /\ buf'.pget = 0)
    BY <1>a, <2>1 DEF Pointers
  <2>4. marks' \intersect {"getMoved", "putMoved"} = marks \intersect {"getMoved", "putMoved"}
    BY <1>a, <2>1
  <2> QED  BY <2>1, <2>2, <2>3, <2>4, PutWords
<1>b. ASSUME taken' = <<>>, UNCHANGED written
      PROVE  WInv'
  BY <1>b DEF WInv, WordsAt
<1>c. \A mark \in {"overwritten", "typedInside"} :
        AfterAppend(mark) \intersect {"getMoved", "putMoved"} = {}
  BY DEF AfterAppend
<1>1. CASE Write
  <2>1. PICK text \in Texts : Put(write(buf, text), text, AfterAppend("overwritten"))
    BY <1>1 DEF Write
  <2>2. Pointers(write(buf, text), buf)
    BY <1>0, <2>1, TextType, WriteFits DEF Put
  <2> QED  BY <1>a, <1>c, <2>1, <2>2
<1>2. CASE WriteTyped
  <2>1. PICK text \in Texts :
          text # <<>> /\ Put(writeTyped(buf, text), text, AfterAppend("typedInside"))
    BY <1>2 DEF WriteTyped
  <2>2. Pointers(writeTyped(buf, text), buf)
    BY <1>0, <2>1, TextType, WriteTypedFits DEF Put
  <2> QED  BY <1>a, <1>c, <2>1, <2>2
<1>3. CASE AppendText
  <2>1. PICK text \in Texts : Put(append(buf, text), text, {"appended"})
    BY <1>3 DEF AppendText
  <2>2. Pointers(append(buf, text), buf)
    BY <1>0, <2>1, TextType, AppendFits DEF Put
  <2>3. {"appended"} \intersect {"getMoved", "putMoved"} = {}
    OBVIOUS
  <2> QED  BY <1>a, <2>1, <2>2, <2>3
<1>4. CASE Reserve
  <2>1. PICK len \in 0 .. MaxLength :
          /\ Sound /\ buf' = reserve(buf, len) /\ UNCHANGED <<written, taken>>
          /\ marks' = marks \union (IF len < buf.usedLength THEN {"shrunk"} ELSE {})
    BY <1>4 DEF Reserve, Mark
  <2>2. len \in Nat
    BY StreamBounds
  <2>3. buf'.pget = buf.pget \/ (buf.usedLength = 0 /\ buf'.pget = 0)
    BY <1>0, <2>1, <2>2, ReserveFits
  <2>4. /\ marks \subseteq marks'
        /\ marks' \intersect {"getMoved", "putMoved"} = marks \intersect {"getMoved", "putMoved"}
    BY <2>1
  <2>5. <<>> \in Seq(Byte) /\ written' = written \o <<>> /\ Len(written') <= MaxBytes
    BY <1>0, <2>1 DEF WInv
  <2> QED  BY <2>1, <2>3, <2>4, <2>5, PutWords
<1>5. CASE Clear
  <2>1. taken' = <<>> /\ written' = <<>> /\ Len(<<>>) <= MaxBytes
    BY <1>5, StreamBounds, MaxposType DEF Clear
  <2> QED  BY <2>1 DEF WInv, WordsAt
<1>6. CASE Extract
  <2>1. Sound /\ (_find(buf, " ") # maxpos \/ _find(buf, "\n") # maxpos) /\ Take(extract(buf), FALSE)
    BY <1>6, Zenon DEF Extract, CanGet
  <2>2. Regular => /\ Fits(buf) /\ Contents(buf) = written /\ Remaining(buf) <= maxpos
    BY RegularBuffer DEF WInv
  <2>3. Regular => LET t == [from |-> buf.pget, word |-> extract(buf).word, line |-> FALSE]
                   IN  t \in Word /\ WordAt(t, extract(buf).buffer.pget, written)
    BY <1>0, <2>1, <2>2, ExtractWord, Zenon
  <2> QED  BY <2>1, <2>3, TakeWords, Zenon
<1>7. CASE GetLine
  <2>1. _find(buf, "\n") # maxpos /\ Take(getline(buf), TRUE)
    BY <1>7, Zenon DEF GetLine, CanGet
  <2>2. Regular => /\ Fits(buf) /\ Contents(buf) = written /\ Remaining(buf) <= maxpos
    BY RegularBuffer DEF WInv
  <2>3. Regular => LET t == [from |-> buf.pget, word |-> getline(buf).word, line |-> TRUE]
                   IN  t \in Word /\ WordAt(t, getline(buf).buffer.pget, written)
    BY <1>0, <2>1, <2>2, GetLineWord, Zenon
  <2> QED  BY <2>1, <2>3, TakeWords, Zenon
<1>8. CASE ReadTyped
  BY <1>b, <1>8 DEF ReadTyped
<1>9. CASE SeekG
  BY <1>b, <1>9 DEF SeekG
<1>10. CASE SeekP
  BY <1>b, <1>10 DEF SeekP
<1>11. CASE UNCHANGED vars
  BY <1>11 DEF vars, WInv, Without
<1> QED  BY <1>1, <1>2, <1>3, <1>4, <1>5, <1>6, <1>7, <1>8, <1>9, <1>10, <1>11 DEF Next

LEMMA WordWritten ==
  ASSUME NEW t \in Word, NEW end, NEW w \in Seq(Byte), WordAt(t, end, w)
  PROVE  SubSeq(w, t.from + 1, end - 1) = t.word
<1> DEFINE m == t.from + 1
           n == end - 1
           s == SubSeq(w, m, n)
<1>1. /\ t.from \in Nat /\ Len(t.word) \in Nat /\ t.word \in Seq(Byte) /\ Len(w) \in Nat
      /\ end = t.from + Len(t.word) + 1 /\ end <= Len(w)
      /\ \A i \in 1 .. Len(t.word) : t.word[i] = w[t.from + i]
  <2>1. t.from \in Nat /\ t.word \in Seq(Byte)
    BY DEF Word
  <2>2. Len(t.word) \in Nat /\ Len(w) \in Nat
    BY <2>1
  <2>3. /\ end = t.from + Len(t.word) + 1 /\ end <= Len(w)
        /\ \A i \in 1 .. Len(t.word) : t.word[i] = w[t.from + i]
    BY Zenon DEF WordAt
  <2> QED  BY <2>1, <2>2, <2>3
<1>2. /\ m \in Int /\ n \in Int /\ n - m + 1 = Len(t.word)
      /\ ~(m <= n) => Len(t.word) = 0
  BY <1>1
<1>a. \A i \in m .. n : i \in 1 .. Len(w)
  BY <1>1
<1>b. \A i \in 1 .. Len(t.word) : m + i - 1 = t.from + i
  BY <1>1
<1> HIDE DEF m, n
<1>3. \A i \in m .. n : w[i] \in Byte
  BY <1>a
<1>4. /\ s \in Seq(Byte) /\ Len(s) = IF m <= n THEN n - m + 1 ELSE 0
      /\ \A i \in 1 .. (n - m + 1) : s[i] = w[m + i - 1]
  BY <1>2, <1>3, SubSeqProperties
<1> HIDE DEF s
<1>5. Len(s) = Len(t.word)
  BY <1>1, <1>2, <1>4
<1>c. \A i \in 1 .. Len(t.word) : s[i] = t.word[i]
  BY <1>1, <1>2, <1>4, <1>b
<1>6. s = t.word
  BY <1>1, <1>4, <1>5, <1>c, SeqEqual
<1> QED  BY <1>6 DEF s, m, n

\* However words and lines are got, in between puts and as the buffer grows: they
\* come one after another, each up to the first separator of its kind and without
\* it, but for the uses WordsInTurn names (_find, getline and operator >> of
\* binData.cpp).
THEOREM WordsTaken == Spec => []WordsInTurn
<1>1. Init => WInv
  <2>1. 0 <= MaxBytes /\ Len(<<>>) = 0 /\ <<>> \in Seq(Word)
    BY StreamBounds, MaxposType
  <2> QED  BY <2>1 DEF Init, WInv, WordsAt
<1>2. IInv /\ FInv /\ WInv => WordsInTurn
  <2> SUFFICES ASSUME FInv, WInv, Without({"overwritten", "shrunk"}), NEW k \in DOMAIN taken
               PROVE  LET t    == taken[k]
                          end  == t.from + Len(t.word) + 1
                          seps == IF t.line THEN {"\n"} ELSE {" ", "\n"}
                      IN  /\ SubSeq(written, t.from + 1, end - 1) = t.word
                          /\ written[end] \in seps
                          /\ \A i \in DOMAIN t.word : t.word[i] \notin seps
                          /\ end = (IF k = Len(taken) THEN buf.pget ELSE taken[k + 1].from)
    BY DEF WordsInTurn
  <2> DEFINE t == taken[k]
             end == EndOf(k, taken, buf.pget)
  <2>1. t \in Word /\ WordAt(t, end, written) /\ written \in Seq(Byte)
    BY DEF WInv, FInv, WordsAt
  <2>2. SubSeq(written, t.from + 1, end - 1) = t.word
    BY <2>1, WordWritten
  <2>3. end = IF k = Len(taken) THEN buf.pget ELSE taken[k + 1].from
    BY DEF EndOf
  <2>4. Separators(t.line) = IF t.line THEN {"\n"} ELSE {" ", "\n"}
    BY Zenon DEF Separators
  <2>5. DOMAIN t.word = 1 .. Len(t.word)
    BY <2>1 DEF Word
  <2>6. /\ end = t.from + Len(t.word) + 1 /\ written[end] \in Separators(t.line)
        /\ \A i \in 1 .. Len(t.word) : t.word[i] \notin Separators(t.line)
    BY <2>1, Zenon DEF WordAt
  <2> HIDE DEF t, end
  <2>7. /\ SubSeq(written, t.from + 1, (t.from + Len(t.word) + 1) - 1) = t.word
        /\ written[t.from + Len(t.word) + 1] \in IF t.line THEN {"\n"} ELSE {" ", "\n"}
        /\ \A i \in DOMAIN t.word : t.word[i] \notin IF t.line THEN {"\n"} ELSE {" ", "\n"}
        /\ t.from + Len(t.word) + 1 = IF k = Len(taken) THEN buf.pget ELSE taken[k + 1].from
    BY <2>2, <2>3, <2>4, <2>5, <2>6, Zenon
  <2> QED  BY <2>7, Zenon DEF t
<1> QED  BY <1>1, <1>2, Initial, Inductive, FInitial, FInvInductive, WInvInductive, PTL DEF Spec
=============================================================================
