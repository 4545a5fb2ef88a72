-------------------------- MODULE ByteBufferProofs --------------------------
(***************************************************************************)
(* Proofs about the byte buffer, for every size of its writes and every    *)
(* initial capacity: nothing is written outside the block, and the size of *)
(* the block never wraps.                                                  *)
(***************************************************************************)
EXTENDS ByteBuffer, TLAPS

LEMMA SmallModulo == ASSUME NEW x \in Nat, x < Limit PROVE x % Limit = x
BY SizesAssumption

(* The inductive invariant: what is written lies inside the block, whose   *)
(* size is bounded by what was written.                                    *)
Bounded ==
  /\ length <= MaxLength
  /\ isNull => length = 0 /\ capacity = 0

IInv == TypeOK /\ InBounds /\ CapacityBound /\ Bounded

LEMMA InitBounded == Init => IInv
<1> SUFFICES ASSUME Init PROVE IInv
  OBVIOUS
<1>1. Fresh(InitialCapacity) \in Seq(Cells) /\ Len(Fresh(InitialCapacity)) = InitialCapacity
  BY SizesAssumption DEF Fresh, Cells
<1>2. block \in Seq(Cells)
  <2>1. << >> \in Seq(Cells)
    OBVIOUS
  <2> QED
    BY <1>1, <2>1 DEF Init
<1>3. TypeOK
  <2>1. isNull \in BOOLEAN
    BY Zenon DEF Init
  <2>2. capacity \in Nat
    BY SizesAssumption DEF Init
  <2> QED
    BY <1>2, <2>1, <2>2 DEF Init, TypeOK
<1> QED
  BY <1>1, <1>3, SizesAssumption DEF Init, IInv, InBounds, CapacityBound, Bounded

(* The cells after a growth and after a copy.                              *)
LEMMA ResizedCells ==
  ASSUME NEW old \in Seq(Cells), NEW size \in Nat
  PROVE Resized(old, size) \in Seq(Cells) /\ Len(Resized(old, size)) = size
BY DEF Resized, Cells

LEMMA CopiedCells ==
  ASSUME NEW cells \in Seq(Cells), NEW at \in Nat, NEW b \in Seq(Bytes)
  PROVE Copied(cells, at, b) \in Seq(Cells) /\ Len(Copied(cells, at, b)) = Len(cells)
<1>1. ASSUME NEW i \in 1 .. Len(cells)
      PROVE (IF i \in (at + 1) .. (at + Len(b)) THEN b[i - at] ELSE cells[i]) \in Cells
  BY DEF Cells
<1> QED
  BY <1>1 DEF Copied

LEMMA WriteBounded ==
  ASSUME IInv, NEW b \in Seq(Bytes), Write(b)
  PROVE IInv'
<1> DEFINE n == Len(b)
           next == length + n
           wanted == GrownCapacity(n)
           grown == IF wanted = capacity THEN block ELSE Resized(block, wanted)
<1>1. n \in Nat /\ length \in Nat /\ capacity \in Nat /\ next \in Nat /\ next <= MaxLength
  BY DEF IInv, TypeOK, Write
<1>2. GrownLength(n) = next
  <2>1. next < Limit
    BY <1>1, SizesAssumption, NoWrapAssumption
  <2> QED
    BY <1>1, <2>1, SmallModulo DEF GrownLength, IInv, Bounded
<1>3. /\ wanted \in Nat /\ wanted >= next
      /\ wanted <= InitialCapacity \/ wanted <= 4 * next
  <2>1. CASE isNull
    BY <1>1, <2>1 DEF GrownCapacity, IInv, Bounded
  <2>2. CASE ~isNull /\ next < capacity
    BY <1>1, <1>2, <2>2 DEF GrownCapacity, IInv, CapacityBound
  <2>3. CASE ~isNull /\ next >= capacity
    <3>1. capacity + n <= 2 * next
      BY <1>1, <2>3
    <3>2. (capacity + n) * 2 <= 4 * next /\ 4 * next < Limit
      BY <1>1, <3>1, SizesAssumption, NoWrapAssumption
    <3> DEFINE c == capacity + n
               d == (capacity + n) * 2
    <3>3. c \in Nat /\ d \in Nat /\ c < Limit /\ d < Limit
      BY <1>1, <3>2, SizesAssumption
    <3>4. (capacity + n) % Limit = capacity + n /\ d % Limit = d
      <4> HIDE DEF c, d
      <4>1. c % Limit = c /\ d % Limit = d
        BY <3>3, SmallModulo
      <4> QED
        BY <4>1 DEF c
    <3>5. wanted = (capacity + n) * 2
      BY <1>2, <2>3, <3>4 DEF GrownCapacity
    <3>6. length <= capacity
      BY DEF IInv, InBounds
    <3> HIDE DEF wanted
    <3> QED
      BY <1>1, <3>2, <3>5, <3>6
  <2> QED
    BY <1>1, <2>1, <2>2, <2>3
<1>4. grown \in Seq(Cells) /\ Len(grown) = wanted
  <2>1. block \in Seq(Cells) /\ Len(block) = capacity
    BY DEF IInv, TypeOK, InBounds
  <2> HIDE DEF wanted
  <2> QED
    BY <1>3, <2>1, ResizedCells
<1>5. offset = length /\ offset \in Nat
  BY DEF IInv, InBounds, TypeOK
<1>6. offset + n <= Len(grown)
  BY <1>1, <1>3, <1>4, <1>5
<1>7. /\ block' = Copied(grown, offset, b)
      /\ offset' = (offset + n) % Limit /\ UNCHANGED status
      /\ length' = next /\ capacity' = wanted
      /\ isNull' \in (IF wanted = 0 THEN BOOLEAN ELSE {FALSE})
  BY <1>2, <1>6 DEF Write
<1>8. offset' = next
  <2>1. next < Limit
    BY <1>1, SizesAssumption, NoWrapAssumption
  <2> QED
    BY <1>1, <1>5, <1>7, <2>1, SmallModulo
<1> HIDE DEF wanted, grown, next, n
<1>9. block' \in Seq(Cells) /\ Len(block') = wanted
  BY <1>4, <1>5, <1>7, CopiedCells
<1>10. TypeOK'
  BY <1>1, <1>3, <1>7, <1>8, <1>9 DEF IInv, TypeOK
<1>11. InBounds'
  BY <1>1, <1>3, <1>7, <1>8, <1>9 DEF IInv, InBounds
<1>12. CapacityBound'
  BY <1>1, <1>3, <1>7 DEF CapacityBound
<1>13. Bounded'
  <2>1. isNull' => wanted = 0
    BY <1>7, Zenon
  <2>2. wanted = 0 => next = 0
    BY <1>1, <1>3
  <2> QED
    BY <1>1, <1>7, <2>1, <2>2 DEF Bounded
<1> QED
  BY <1>10, <1>11, <1>12, <1>13 DEF IInv

(* An offset that the guard lets pass is that of a byte already written:   *)
(* the end of no offset up to MaxLength wraps.                             *)
LEMMA RefusesUnwritten ==
  ASSUME IInv, NEW at \in 0 .. MaxLength, ~Refuses(at)
  PROVE at < length /\ at < Len(block)
<1>1. /\ at \in Nat /\ at <= MaxLength /\ length \in Nat /\ length = offset /\ length <= MaxLength
      /\ length <= Len(block) /\ Len(block) \in Nat
  BY SizesAssumption DEF IInv, TypeOK, InBounds, Bounded
<1>2. offset # 0 /\ ~((at + 1) % Limit > offset)
  BY DEF Refuses
<1>3. at + 1 \in Nat /\ at + 1 < Limit
  BY <1>1, <1>2, SizesAssumption, NoWrapAssumption
<1>4. (at + 1) % Limit = at + 1
  BY <1>3, SmallModulo
<1> QED
  BY <1>1, <1>2, <1>4

LEMMA WriteAtBounded ==
  ASSUME IInv, NEW b \in Bytes, NEW at \in 0 .. MaxLength, WriteAt(b, at)
  PROVE IInv'
<1>1. block \in Seq(Cells) /\ << b >> \in Seq(Bytes) /\ at \in Nat
  BY SizesAssumption DEF IInv, TypeOK
<1>2. Copied(block, at, << b >>) \in Seq(Cells) /\ Len(Copied(block, at, << b >>)) = Len(block)
  BY <1>1, CopiedCells
<1>3. block' \in Seq(Cells) /\ Len(block') = Len(block) /\ status' \in {status, "threw"}
  BY <1>1, <1>2, RefusesUnwritten DEF WriteAt
<1>4. UNCHANGED << isNull, length, offset, capacity >>
  BY DEF WriteAt
<1> QED
  BY <1>3, <1>4 DEF IInv, TypeOK, InBounds, CapacityBound, Bounded

LEMMA NextBounded == IInv /\ [Next]_bufferVars => IInv'
<1> SUFFICES ASSUME IInv, [Next]_bufferVars PROVE IInv'
  OBVIOUS
<1>1. CASE \E b \in Chunks : Write(b)
  <2>1. PICK b \in Chunks : Write(b)
    BY <1>1
  <2>2. b \in Seq(Bytes)
    BY SizesAssumption DEF Chunks
  <2> QED
    BY <2>1, <2>2, WriteBounded
<1>2. CASE \E b \in Bytes, at \in 0 .. MaxLength : WriteAt(b, at)
  BY <1>2, WriteAtBounded, SizesAssumption
<1>3. CASE Stopped \/ UNCHANGED bufferVars
  BY <1>3 DEF Stopped, bufferVars, IInv, TypeOK, InBounds, CapacityBound, Bounded
<1> QED
  BY <1>1, <1>2, <1>3 DEF Next

LEMMA InductiveInvariant == Spec => []IInv
BY InitBounded, NextBounded, PTL DEF Spec

(* Whatever is written, and however the block was constructed, no write    *)
(* leaves the block and the write position is the length                   *)
(* (byte_buffer.cpp:49-93), as long as less than a quarter of 2^32 bytes   *)
(* are in the buffer.                                                      *)
THEOREM WritesInBounds == Spec => []InBounds
<1>1. IInv => InBounds
  BY DEF IInv
<1> QED
  BY <1>1, InductiveInvariant, PTL

(* The capacity stays within four times the length (or at its first        *)
(* value), so that the doubling of byte_buffer.cpp:88 cannot wrap.         *)
THEOREM CapacityBounded == Spec => []CapacityBound
<1>1. IInv => CapacityBound
  BY DEF IInv
<1> QED
  BY <1>1, InductiveInvariant, PTL

-----------------------------------------------------------------------------
(* The buffer implements the log.  What is below the length has been       *)
(* written, so that what is read back are bytes.                           *)
Written == \A i \in 1 .. length : block[i] \in Bytes

LInv == IInv /\ Written

LEMMA CopiedAt ==
  ASSUME NEW cells \in Seq(Cells), NEW at \in Nat, NEW b \in Seq(Bytes),
         NEW i \in 1 .. Len(cells)
  PROVE Copied(cells, at, b)[i] = IF i \in (at + 1) .. (at + Len(b)) THEN b[i - at] ELSE cells[i]
BY DEF Copied

(* A write leaves the bytes before it and appends its own.                 *)
LEMMA WriteAppends ==
  ASSUME LInv, NEW b \in Seq(Bytes), Write(b)
  PROVE /\ length <= length'
        /\ \A i \in 1 .. length : block'[i] = block[i]
        /\ Written'
<1> DEFINE n == Len(b)
           wanted == GrownCapacity(n)
           grown == IF wanted = capacity THEN block ELSE Resized(block, wanted)
<1>1. IInv'
  BY WriteBounded DEF LInv
<1>2. /\ n \in Nat /\ length \in Nat /\ length' \in Nat /\ capacity \in Nat
      /\ offset = length /\ block \in Seq(Cells) /\ Len(block) = capacity /\ length <= capacity
      /\ block' \in Seq(Cells) /\ length' <= Len(block') /\ offset' = length'
  BY <1>1 DEF LInv, IInv, TypeOK, InBounds
<1>3. /\ block' = Copied(grown, offset, b)
      /\ capacity' = wanted
      /\ offset' = (offset + n) % Limit
      /\ length + n <= MaxLength
  BY <1>1 DEF Write, IInv, InBounds
<1>4. length' = length + n
  <2> HIDE DEF n, wanted, grown
  <2>1. length + n \in Nat /\ length + n < Limit
    BY <1>2, <1>3, SizesAssumption, NoWrapAssumption
  <2> QED
    BY <1>2, <1>3, <2>1, SmallModulo
<1>5. wanted \in Nat /\ wanted = Len(block')
  BY <1>1, <1>3 DEF IInv, TypeOK, InBounds
<1> HIDE DEF wanted
<1>6. grown \in Seq(Cells) /\ Len(grown) = wanted
  BY <1>2, <1>5, ResizedCells
<1>7. \A i \in 1 .. length : grown[i] = block[i]
  <2>1. length <= wanted
    BY <1>2, <1>4, <1>5
  <2> QED
    BY <1>2, <1>5, <2>1 DEF Resized
<1> HIDE DEF grown, n
<1>8. \A i \in 1 .. length' :
        block'[i] = IF i \in (length + 1) .. (length + n) THEN b[i - length] ELSE grown[i]
  <2> TAKE i \in 1 .. length'
  <2>1. i \in 1 .. Len(grown)
    BY <1>2, <1>5, <1>6
  <2> QED
    BY <1>2, <1>3, <1>6, <2>1, CopiedAt DEF n
<1>9. \A i \in 1 .. length : block'[i] = block[i]
  BY <1>2, <1>4, <1>7, <1>8
<1>10. Written'
  <2> SUFFICES ASSUME NEW i \in 1 .. length' PROVE block'[i] \in Bytes
    BY DEF Written
  <2>1. CASE i <= length
    BY <1>2, <1>9, <2>1 DEF LInv, Written
  <2>2. CASE i > length
    <3>1. i - length \in 1 .. n /\ b[i - length] \in Bytes
      BY <1>2, <1>4, <2>2 DEF n
    <3> QED
      BY <1>2, <1>4, <1>8, <2>2, <3>1
  <2> QED
    BY <1>2, <2>1, <2>2
<1>11. length <= length'
  BY <1>2, <1>4
<1> QED
  BY <1>9, <1>10, <1>11

(* A patch replaces one byte that was written, or throws.                  *)
LEMMA WriteAtPatches ==
  ASSUME LInv, NEW b \in Bytes, NEW at \in 0 .. MaxLength, WriteAt(b, at)
  PROVE /\ Written'
        /\ \/ block' = block
           \/ /\ at \in 0 .. (length - 1)
              /\ \A i \in 1 .. length : block'[i] = IF i = at + 1 THEN b ELSE block[i]
<1>1. /\ block \in Seq(Cells) /\ length \in Nat /\ offset = length /\ length <= Len(block)
      /\ length' = length /\ at \in Nat
  BY SizesAssumption DEF LInv, IInv, TypeOK, InBounds, WriteAt
<1>2. CASE Refuses(at)
  BY <1>1, <1>2 DEF WriteAt, LInv, Written
<1>3. CASE ~Refuses(at)
  <2>1. block' = Copied(block, at, << b >>) /\ at \in 0 .. (length - 1)
    <3>1. at < length /\ at < Len(block)
      BY <1>3, RefusesUnwritten DEF LInv
    <3> QED
      BY <1>1, <1>3, <3>1 DEF WriteAt
  <2>2. \A i \in 1 .. length : block'[i] = IF i = at + 1 THEN b ELSE block[i]
    <3> TAKE i \in 1 .. length
    <3>1. << b >> \in Seq(Bytes) /\ Len(<< b >>) = 1 /\ << b >>[1] = b
      OBVIOUS
    <3> DEFINE patch == << b >>
    <3> HIDE DEF patch
    <3>2. block'[i] = IF i \in (at + 1) .. (at + Len(patch)) THEN patch[i - at] ELSE block[i]
      <4>1. patch \in Seq(Bytes) /\ i \in 1 .. Len(block) /\ block' = Copied(block, at, patch)
        BY <1>1, <2>1, <3>1 DEF patch
      <4> QED
        BY <1>1, <4>1, CopiedAt
    <3>3. Len(patch) = 1 /\ patch[1] = b
      BY <3>1 DEF patch
    <3> QED
      BY <3>2, <3>3
  <2> QED
    BY <1>1, <2>1, <2>2 DEF LInv, Written
<1> QED
  BY <1>2, <1>3

(* Reading back: what SubSeq takes from the cells.                         *)
LEMMA ReadBack ==
  ASSUME NEW cells \in Seq(Cells), NEW k \in Nat, k <= Len(cells),
         \A i \in 1 .. k : cells[i] \in Bytes
  PROVE /\ SubSeq(cells, 1, k) \in Seq(Bytes)
        /\ Len(SubSeq(cells, 1, k)) = k
        /\ \A i \in 1 .. k : SubSeq(cells, 1, k)[i] = cells[i]
OBVIOUS

(* Writes append to the log, patches overwrite one of its bytes.           *)
LEMMA StepKeepsLog ==
  ASSUME LInv, LInv', [Next]_bufferVars
  PROVE [Log!LogNext]_(SubSeq(block, 1, length))
<1> DEFINE log == SubSeq(block, 1, length)
<1>1. /\ log \in Seq(Bytes) /\ Len(log) = length
      /\ \A i \in 1 .. length : log[i] = block[i]
  <2>1. /\ block \in Seq(Cells) /\ length \in Nat /\ length <= Len(block)
        /\ \A i \in 1 .. length : block[i] \in Bytes
    BY DEF LInv, IInv, TypeOK, InBounds, Written
  <2> QED
    BY <2>1, ReadBack
<1>2. /\ log' \in Seq(Bytes) /\ Len(log') = length'
      /\ \A i \in 1 .. length' : log'[i] = block'[i]
  <2>1. /\ block' \in Seq(Cells) /\ length' \in Nat /\ length' <= Len(block')
        /\ \A i \in 1 .. length' : block'[i] \in Bytes
    BY DEF LInv, IInv, TypeOK, InBounds, Written
  <2>2. /\ SubSeq(block', 1, length') \in Seq(Bytes)
        /\ Len(SubSeq(block', 1, length')) = length'
        /\ \A i \in 1 .. length' : SubSeq(block', 1, length')[i] = block'[i]
    BY <2>1, ReadBack
  <2> QED
    BY <2>2
<1>3. length \in Nat /\ length' \in Nat
  BY DEF LInv, IInv, TypeOK
<1>0. log = SubSeq(block, 1, length) /\ log' = SubSeq(block', 1, length')
  OBVIOUS
<1> HIDE DEF log
<1>4. ASSUME NEW b \in Seq(Bytes), Write(b) PROVE Log!AppendBytes
  <2>1. length <= length' /\ \A i \in 1 .. length : block'[i] = block[i]
    BY <1>4, WriteAppends
  <2>2. SubSeq(log', 1, Len(log)) = log
    BY <1>1, <1>2, <1>3, <2>1
  <2> QED
    BY <1>1, <1>2, <2>1, <2>2 DEF Log!AppendBytes, log
<1>5. ASSUME NEW b \in Bytes, NEW at \in 0 .. MaxLength, WriteAt(b, at)
      PROVE Log!Overwrite \/ log' = log
  <2>1. length' = length
    BY <1>5 DEF WriteAt
  <2>2. CASE block' = block
    BY <1>1, <1>2, <1>3, <2>1, <2>2
  <2>3. CASE /\ at \in 0 .. (length - 1)
             /\ \A i \in 1 .. length : block'[i] = IF i = at + 1 THEN b ELSE block[i]
    <3>1. log' = [log EXCEPT ![at + 1] = b]
      BY <1>1, <1>2, <1>3, <2>1, <2>3
    <3> QED
      BY <1>1, <2>3, <3>1 DEF Log!Overwrite, log
  <2> QED
    BY <1>5, <2>2, <2>3, WriteAtPatches
<1>6. CASE \E b \in Chunks : Write(b)
  BY <1>4, <1>6, SizesAssumption DEF Chunks, Log!LogNext
<1>7. CASE \E b \in Bytes, at \in 0 .. MaxLength : WriteAt(b, at)
  <2>1. PICK b \in Bytes, at \in 0 .. MaxLength : WriteAt(b, at)
    BY <1>7
  <2>2. Log!Overwrite \/ log' = log
    BY <1>5, <2>1
  <2> QED
    BY <2>2, <1>0 DEF Log!LogNext
<1>8. CASE Stopped \/ UNCHANGED bufferVars
  BY <1>8 DEF Stopped, bufferVars
<1> QED
  BY <1>6, <1>7, <1>8 DEF Next

LEMMA InitWritten == Init => LInv /\ Log!LogInit
<1> SUFFICES ASSUME Init PROVE LInv /\ Log!LogInit
  OBVIOUS
<1>1. LInv
  BY InitBounded DEF LInv, Written, Init
<1>2. SubSeq(block, 1, 0) = << >>
  BY <1>1 DEF LInv, IInv, TypeOK
<1> QED
  BY <1>1, <1>2 DEF Init, Log!LogInit

LEMMA NextWritten == LInv /\ [Next]_bufferVars => LInv'
<1> SUFFICES ASSUME LInv, [Next]_bufferVars PROVE LInv'
  OBVIOUS
<1>1. IInv'
  BY NextBounded DEF LInv
<1>2. CASE \E b \in Chunks : Write(b)
  BY <1>1, <1>2, WriteAppends, SizesAssumption DEF Chunks, LInv
<1>3. CASE \E b \in Bytes, at \in 0 .. MaxLength : WriteAt(b, at)
  BY <1>1, <1>3, WriteAtPatches, SizesAssumption DEF LInv
<1>4. CASE Stopped \/ UNCHANGED bufferVars
  BY <1>1, <1>4 DEF Stopped, bufferVars, LInv, Written
<1> QED
  BY <1>2, <1>3, <1>4 DEF Next

(* For every program of writes and patches the buffer behaves as a log: no *)
(* growth, no patch and neither constructor loses, moves or invents a byte *)
(* (byte_buffer.cpp:57-93).                                                *)
THEOREM ImplementsLog == Spec => KeepsLog
<1>1. Init => LInv /\ Log!LogInit
  BY InitWritten
<1>2. LInv /\ [Next]_bufferVars => LInv'
  BY NextWritten
<1>3. LInv /\ LInv' /\ [Next]_bufferVars => [Log!LogNext]_(SubSeq(block, 1, length))
  BY StepKeepsLog
<1> QED
  BY <1>1, <1>2, <1>3, PTL DEF Spec, KeepsLog, Log!LogSpec
=============================================================================
