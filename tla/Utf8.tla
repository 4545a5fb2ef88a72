-------------------------------- MODULE Utf8 --------------------------------
(***************************************************************************)
(* Reading characters from a file: common/utf8.cpp.  A file is a sequence  *)
(* of bytes; an ASCII byte is a one-character string, the others are named *)
(* by the range of values that matters to read_num_bytes.  The value of a  *)
(* longer character is the raw number its bytes make, which differs from   *)
(* every ASCII character because its low byte does: it is represented by   *)
(* its first byte.                                                         *)
(***************************************************************************)
EXTENDS Naturals, Sequences

Nul == "00"
Leads == {"C0-DF", "E0-EF", "F0-FF"}
HighBytes == Leads \cup {"80-BF"}

read_num_bytes(first) ==
  CASE first = "F0-FF" -> 4
    [] first = "E0-EF" -> 3
    [] first = "C0-DF" -> 2
    [] OTHER -> 1

IsEof(bytes, offset) == offset >= Len(bytes) \/ bytes[offset + 1] = Nul

(* Mistake: only the first byte is looked for.                             *)
FirstFits(bytes, offset) == offset < Len(bytes)

(* A longer character must end before the last byte of the file.           *)
Fits(bytes, offset) ==
  \/ read_num_bytes(bytes[offset + 1]) = 1
  \/ offset + read_num_bytes(bytes[offset + 1]) < Len(bytes)

(* read_code_point, and when it throws instead.                            *)
CanRead(bytes, offset) == IsEof(bytes, offset) \/ Fits(bytes, offset)

read_code_point(bytes, offset) ==
  IF IsEof(bytes, offset) THEN [value |-> Nul, num_bytes |-> 0, eof |-> TRUE]
  ELSE [value |-> bytes[offset + 1],
        num_bytes |-> read_num_bytes(bytes[offset + 1]),
        eof |-> FALSE]
=============================================================================
