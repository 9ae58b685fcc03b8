----------------------------- MODULE BinDataStream -----------------------------
(***************************************************************************)
(* A caller of BinnaryData: any order of puts, gets, seeks and allocations. *)
(* The protocols put text and append pages (HTTP), or take words from a    *)
(* request (SMTP).  Gets keep within what is there, and words and lines    *)
(* are taken only when their end is there.                                 *)
(***************************************************************************)
EXTENDS BinData

CONSTANTS
  Texts,      \* what is written or appended: sequences of bytes
  MaxBytes,   \* bound: bytes put since the last clear; what a size_t can count
  MaxLength   \* bound: the lengths reserved

ASSUME TextsAssumption == Texts \subseteq Seq(STRING)
ASSUME StreamBounds == MaxBytes \in 0 .. maxpos /\ MaxLength \in Nat

VARIABLES
  buf,       \* the buffer
  written,   \* history: everything put since the last clear, in order
  taken,     \* history: the words and lines got, until a pointer is moved, and
             \* where each began
  marks      \* history: what the properties have to except

vars == <<buf, written, taken, marks>>

Init == buf = NewBuffer /\ written = <<>> /\ taken = <<>> /\ marks = {}

Marks == {"appended", "overwritten", "typedInside", "putMoved", "getMoved", "shrunk"}

\* The buffer has not run over: after that anything may happen.
Sound == buf.usedLength <= maxLength(buf)

Mark(new) == marks' = marks \union new

Put(b, text, new) ==
  /\ Sound /\ Len(written) + Len(text) <= MaxBytes
  /\ buf' = b /\ written' = written \o text
  /\ Mark(new) /\ UNCHANGED taken

AfterAppend(mark) == IF "appended" \in marks THEN {"overwritten", mark} ELSE {}

Write == \E text \in Texts : Put(write(buf, text), text, AfterAppend("overwritten"))

WriteTyped ==
  \E text \in Texts : text # <<>> /\ Put(writeTyped(buf, text), text, AfterAppend("typedInside"))

AppendText == \E text \in Texts : Put(append(buf, text), text, {"appended"})

Reserve ==
  /\ Sound
  /\ \E len \in 0 .. MaxLength :
       buf' = reserve(buf, len) /\ Mark(IF len < buf.usedLength THEN {"shrunk"} ELSE {})
  /\ UNCHANGED <<written, taken>>

Clear == buf' = NewBuffer /\ written' = <<>> /\ taken' = <<>> /\ marks' = {}

\* Something is taken from the get pointer on.
Take(result, line) ==
  /\ buf' = result.buffer
  /\ taken' = IF marks \intersect {"getMoved", "putMoved"} # {} THEN taken
              ELSE Append(taken, [from |-> buf.pget, word |-> result.word, line |-> line])
  /\ UNCHANGED <<written, marks>>

CanGet == Sound /\ buf.pget <= buf.usedLength

Extract == CanGet /\ (_find(buf, " ") # maxpos \/ _find(buf, "\n") # maxpos)
           /\ Take(extract(buf), FALSE)

GetLine == CanGet /\ _find(buf, "\n") # maxpos /\ Take(getline(buf), TRUE)

ReadTyped ==
  /\ CanGet /\ Remaining(buf) >= 1
  /\ buf' = readTyped(buf, 1) /\ Mark({"getMoved"}) /\ taken' = <<>> /\ UNCHANGED written

\* Where a seek by nothing, one byte or more than there are can lead to.
Places(at) ==
  LET distances == {0, 1, MaxBytes}
  IN  {FromBeg(buf, d) : d \in distances} \union {FromEnd(buf, d) : d \in distances}
      \union {Back(buf, at, d) : d \in distances}

SeekG == /\ Sound /\ \E p \in Places(buf.pget) : p >= 0 /\ buf' = [buf EXCEPT !.pget = p]
         /\ Mark({"getMoved"}) /\ taken' = <<>> /\ UNCHANGED written

SeekP == /\ Sound /\ \E p \in Places(buf.pput) : p >= 0 /\ buf' = [buf EXCEPT !.pput = p]
         /\ Mark({"putMoved"}) /\ taken' = <<>> /\ UNCHANGED written

Next == \/ Write \/ WriteTyped \/ AppendText \/ Reserve \/ Clear
        \/ Extract \/ GetLine \/ ReadTyped \/ SeekG \/ SeekP

Spec == Init /\ [][Next]_vars

-----------------------------------------------------------------------------
Without(events) == marks \intersect events = {}

\* No sequence of puts, gets and allocations runs over the memory or puts a
\* pointer past what is in use - unless the put pointer was moved, or a number was
\* written after an append, which leaves that pointer behind.
InBounds ==
  Without({"putMoved", "typedInside"}) =>
    /\ buf.usedLength <= maxLength(buf) /\ buf.pput <= buf.usedLength
    /\ "getMoved" \in marks \/ buf.pget <= buf.usedLength

\* The buffer holds what was put into it, in order, however often it had to grow -
\* unless the put pointer was moved, something was written after an append, or
\* reserve was called for less than is there.
Faithful ==
  Without({"putMoved", "overwritten", "shrunk"}) => Contents(buf) = written

\* Words and lines come one after another, each up to the first separator of its
\* kind and without it, also when more is put, or the buffer grows, in between - until
\* a pointer is moved, something is put after an append, or what is there is cleared.
WordsInTurn ==
  Without({"overwritten", "shrunk"}) =>
    \A k \in DOMAIN taken :
      LET t    == taken[k]
          end  == t.from + Len(t.word) + 1
          seps == IF t.line THEN {"\n"} ELSE {" ", "\n"}
      IN  /\ SubSeq(written, t.from + 1, end - 1) = t.word
          /\ written[end] \in seps /\ \A i \in DOMAIN t.word : t.word[i] \notin seps
          /\ end = (IF k = Len(taken) THEN buf.pget ELSE taken[k + 1].from)
=============================================================================
