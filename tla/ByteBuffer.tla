----------------------------- MODULE ByteBuffer -----------------------------
(***************************************************************************)
(* The buffer that code, data and the object file are built in:            *)
(* common/byte_buffer.cpp.  block is the heap block, a sequence of bytes,  *)
(* or empty together with isNull when there is none; a byte that was       *)
(* allocated and not written is Unset.  A memcpy that does not fit the     *)
(* block is undefined and makes status "corrupt".                          *)
(***************************************************************************)
EXTENDS Naturals, Sequences

CONSTANTS
  Bytes,            \* the values of a byte
  Unset,            \* the content of memory that was never written
  InitialCapacity,  \* of the constructor with an argument
  Limit,            \* one more than the largest u32
  MaxWrite,         \* bound: bytes of one write
  MaxLength         \* bound: bytes in the buffer

ASSUME UnsetAssumption == Unset \notin Bytes
ASSUME SizesAssumption ==
  /\ InitialCapacity \in Nat
  /\ MaxWrite \in Nat
  /\ MaxLength \in Nat
  /\ Limit \in Nat \ {0}

(* The capacity never wraps: see CapacityBound.                            *)
ASSUME NoWrapAssumption == InitialCapacity < Limit /\ 4 * MaxLength < Limit

VARIABLES block, isNull, length, offset, capacity, status

bufferVars == << block, isNull, length, offset, capacity, status >>

Cells == Bytes \cup {Unset}
Fresh(n) == [i \in 1 .. n |-> Unset]

-----------------------------------------------------------------------------
(* The two constructors: without a block, or with one of a given size.     *)
Init ==
  /\ \/ isNull = TRUE /\ block = << >> /\ capacity = 0
     \/ isNull = FALSE /\ block = Fresh(InitialCapacity) /\ capacity = InitialCapacity
  /\ length = 0
  /\ offset = 0
  /\ status = "ok"

(* resize_if_needed: the capacity, the length and the block after it.      *)
GrownLength(n) == IF isNull THEN n ELSE (length + n) % Limit

(* Mistakes: a test that forgets the bytes to come, and no test at all.    *)
LateCapacity(n) ==
  IF isNull THEN n
  ELSE IF length >= capacity THEN (((capacity + n) % Limit) * 2) % Limit ELSE capacity
EagerCapacity(n) == IF isNull THEN n ELSE (((capacity + n) % Limit) * 2) % Limit

GrownCapacity(n) ==
  IF isNull THEN n
  ELSE IF GrownLength(n) >= capacity THEN (((capacity + n) % Limit) * 2) % Limit
  ELSE capacity

(* Mistake: a new block without the old cells.                             *)
Emptied(old, size) == Fresh(size)

(* calloc and realloc keep the cells they can.                             *)
Resized(old, size) == [i \in 1 .. size |-> IF i <= Len(old) THEN old[i] ELSE Unset]

Copied(cells, at, b) ==
  [i \in 1 .. Len(cells) |-> IF i \in (at + 1) .. (at + Len(b)) THEN b[i - at] ELSE cells[i]]

(* write(data, length).  A block of no bytes may be a null pointer.        *)
Write(b) ==
  LET n == Len(b)
      grown == IF GrownCapacity(n) = capacity THEN block ELSE Resized(block, GrownCapacity(n))
  IN /\ status = "ok"
     /\ length + n <= MaxLength
     /\ isNull' \in (IF GrownCapacity(n) = 0 THEN BOOLEAN ELSE {FALSE})
     /\ length' = GrownLength(n)
     /\ capacity' = GrownCapacity(n)
     /\ IF offset + n <= Len(grown)
          THEN /\ block' = Copied(grown, offset, b)
               /\ offset' = (offset + n) % Limit
               /\ UNCHANGED status
          ELSE /\ status' = "corrupt"
               /\ UNCHANGED << block, offset >>

(* Mistake: the byte at the write position counts as written.              *)
RefusesPast(at) == offset = 0 \/ at > offset

(* The guard of write_at for one byte, whose end is a u32.                 *)
Refuses(at) == offset = 0 \/ (at + 1) % Limit > offset

(* write_at(val, offset): throws past the end, and on an empty buffer.     *)
WriteAt(b, at) ==
  /\ status = "ok"
  /\ \/ Refuses(at) /\ status' = "threw" /\ UNCHANGED block
     \/ ~Refuses(at) /\ at < Len(block) /\ block' = Copied(block, at, << b >>) /\ UNCHANGED status
     \/ ~Refuses(at) /\ at >= Len(block) /\ status' = "corrupt" /\ UNCHANGED block
  /\ UNCHANGED << isNull, length, offset, capacity >>

Stopped == status # "ok" /\ UNCHANGED bufferVars

Chunks == UNION {[1 .. k -> Bytes] : k \in 0 .. MaxWrite}

(* The generator patches at offsets at which it has written; those past    *)
(* the end are tried too, but none so near to 2^32 that its end wraps.     *)
Next ==
  \/ \E b \in Chunks : Write(b)
  \/ \E b \in Bytes, at \in 0 .. MaxLength : WriteAt(b, at)
  \/ Stopped

Spec == Init /\ [][Next]_bufferVars

-----------------------------------------------------------------------------
(* Every variable of the buffer has its type.                              *)
TypeOK ==
  /\ block \in Seq(Cells)
  /\ isNull \in BOOLEAN
  /\ length \in Nat
  /\ offset \in Nat
  /\ capacity \in Nat
  /\ status \in {"ok", "threw", "corrupt"}

(* The write position is the length, nothing is written outside the block, *)
(* whose size is the capacity, and the bytes below the length are written  *)
(* ones (byte_buffer.cpp:49-93).                                           *)
InBounds ==
  /\ status # "corrupt"
  /\ offset = length
  /\ length <= Len(block)
  /\ Len(block) = capacity

(* The capacity stays below four times the length or at its first value,   *)
(* so that doubling it does not wrap before a quarter of Limit is in use.  *)
CapacityBound == capacity <= InitialCapacity \/ capacity <= 4 * length

(* Reading the buffer back gives the log of what was written: no growth,   *)
(* no patch and no constructor loses or invents a byte.                    *)
Log == INSTANCE ByteLog WITH log <- SubSeq(block, 1, length)
KeepsLog == Log!LogSpec
=============================================================================
