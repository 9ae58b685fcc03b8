-------------------------------- MODULE BinData --------------------------------
(***************************************************************************)
(* BinnaryData (DataArrays/binData.cpp): a growing buffer with a place to  *)
(* get from and a place to put to.  Its member functions as operators on a *)
(* buffer; module BinDataStream is a caller of them, and Smtp takes the    *)
(* words of a request apart with them.                                     *)
(*                                                                         *)
(* data is the allocated bytes, usedLength how many count, pget and pput   *)
(* the distances of the two pointers from data.  A byte is any symbol.     *)
(***************************************************************************)
EXTENDS Integers, SequencesExt

Nul == "nul"
Zeros(n) == [i \in 1 .. n |-> Nul]

\* _init
NewBuffer == [data |-> <<>>, usedLength |-> 0, pget |-> 0, pput |-> 0]

maxLength(b) == Len(b.data)

\* What is in the buffer: TextLike, read.
Contents(b) == SubSeq(b.data, 1, b.usedLength)

\* memcpy to a place in the buffer.
Overlay(data, at, src) ==
  [i \in DOMAIN data |-> IF i \in (at + 1) .. (at + Len(src)) THEN src[i - at] ELSE data[i]]

-----------------------------------------------------------------------------
(* Allocation. *)

\* Mutant of reserve: the bytes in use are not copied.
reserveEmpty(b, len) == [b EXCEPT !.data = Zeros(len)]

\* A shorter length clears the rest and keeps everything allocated; a longer one
\* copies what is in use, or, if nothing is, starts both pointers again.
reserve(b, len) ==
  CASE len = maxLength(b) -> b
    [] len < maxLength(b) ->
         [b EXCEPT !.data = SubSeq(@, 1, len) \o Zeros(maxLength(b) - len)]
    [] OTHER ->
         IF b.usedLength > 0 THEN [b EXCEPT !.data = Contents(b) \o Zeros(len - b.usedLength)]
                             ELSE [b EXCEPT !.data = Zeros(len), !.pget = 0, !.pput = 0]

grow(b, by) == reserve(b, maxLength(b) + by)

-----------------------------------------------------------------------------
(* Putting. *)

\* Mutant of write: the room that is needed is counted from the put pointer.
writeFromPut(b, src) ==
  LET g == IF Len(src) + b.pput > maxLength(b) THEN grow(b, Len(src)) ELSE b
  IN  [g EXCEPT !.data = Overlay(@, g.pput, src), !.usedLength = @ + Len(src),
                !.pput = @ + Len(src)]

\* write(src, num), and the inserters for text.
write(b, src) ==
  IF src = <<>> THEN b
  ELSE LET g == IF Len(src) + b.usedLength > maxLength(b) THEN grow(b, Len(src)) ELSE b
       IN  [g EXCEPT !.data = Overlay(@, g.pput, src), !.usedLength = @ + Len(src),
                     !.pput = @ + Len(src)]

\* write<T>, put and the inserters for numbers: makes room past what is in use,
\* whatever is allocated, and counts the bytes even if it overwrote some.
writeTyped(b, src) ==
  LET over == b.pput + Len(src) - b.usedLength
      g    == IF over > 0 THEN grow(b, over) ELSE b
  IN  [g EXCEPT !.data = Overlay(@, g.pput, src), !.usedLength = @ + Len(src),
                !.pput = @ + Len(src)]

\* append: at the end, and the put pointer stays.
append(b, src) ==
  IF src = <<>> THEN b
  ELSE LET g == IF Len(src) + b.usedLength > maxLength(b) THEN grow(b, Len(src)) ELSE b
       IN  [g EXCEPT !.data = Overlay(@, g.usedLength, src), !.usedLength = @ + Len(src)]

-----------------------------------------------------------------------------
(* Getting. *)

Remaining(b) == b.usedLength - b.pget

\* _find: how far ahead the byte is, and past everything if it is not: maxpos is the
\* greatest number there is (size_t's -1, and here TLC's).
maxpos == 2147483647
_find(b, ch) ==
  LET at == {i \in 0 .. (Remaining(b) - 1) : b.data[b.pget + i + 1] = ch}
  IN  IF at = {} THEN maxpos ELSE CHOOSE i \in at : \A j \in at : i <= j

\* readsome: the bytes copied, and the buffer after it.
Some(b, num) == SubSeq(b.data, b.pget + 1, b.pget + (IF Remaining(b) > num THEN num ELSE Remaining(b)))
readsome(b, num) == [b EXCEPT !.pget = @ + Len(Some(b, num))]

\* Mutant of extract: the separator stays.
extractKeeping(b) ==
  LET pos == IF _find(b, " ") > _find(b, "\n") THEN _find(b, "\n") ELSE _find(b, " ")
  IN  [word |-> Some(b, pos), buffer |-> readsome(b, pos)]

\* operator >> (string): to the next space or newline, which is passed.  (The
\* byte at the newline is compared with a carriage return, which it never is.)
extract(b) ==
  LET pos == IF _find(b, " ") > _find(b, "\n") THEN _find(b, "\n") ELSE _find(b, " ")
  IN  [word |-> Some(b, pos), buffer |-> [readsome(b, pos) EXCEPT !.pget = @ + 1]]

\* getline: to the next newline, which is passed.
getline(b) ==
  LET pos == _find(b, "\n")
  IN  [word |-> Some(b, pos), buffer |-> [readsome(b, pos) EXCEPT !.pget = @ + 1]]

\* read<T>, the extractors for numbers, get.
readTyped(b, n) == [b EXCEPT !.pget = @ + n]

-----------------------------------------------------------------------------
(* Moving: seekg and seekp with a distance from the beginning or the end, or *)
(* back by some bytes, which at the beginning goes on from the end.          *)

FromBeg(b, to) == IF to > maxLength(b) THEN b.usedLength ELSE to
FromEnd(b, to) == IF to > b.usedLength THEN b.usedLength ELSE b.usedLength - to
Back(b, at, by) == IF at - by > 0 THEN at - by ELSE b.usedLength + (at - by)
=============================================================================
