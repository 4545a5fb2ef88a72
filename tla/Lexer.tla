-------------------------------- MODULE Lexer --------------------------------
(***************************************************************************)
(* lexing/lexer.cpp: the lexer as a machine that consumes one character at *)
(* a time on behalf of a call of next or peek, and the queue of tokens     *)
(* that peek has read and next has not handed out.  call is the call in    *)
(* progress; scan says where in next_internal the lexer stands, at which   *)
(* offset its token began and how many characters of a keyword are left.   *)
(* current_ is always the character at current_offset_, and is an operator *)
(* here.  given and seen record what the parser got.                       *)
(***************************************************************************)
EXTENDS Integers, Sequences, FiniteSets, TLC, Utf8, StringView

CONSTANTS
  Letters, Digits,  \* the ASCII characters std::isalpha and std::isdigit accept
  Files,            \* the contents of the files that are read
  MaxPeek,          \* bound: the offsets peek is called with
  ColumnLimit       \* one more than the largest column, 2^32 in the code

ASSUME CharactersAssumption ==
  /\ Letters \cap Digits = {}
  /\ (Letters \cup Digits) \cap (HighBytes \cup {Nul, "_", "\"", "\n", "/"}) = {}
ASSUME FilesAssumption == \A f \in Files : f \in Seq(STRING)
ASSUME BoundsAssumption == MaxPeek \in Nat \ {0} /\ ColumnLimit \in Nat \ {0, 1}

VARIABLES content, extra, offset, row, column, queue, call, scan, status, given, seen

position == << offset, row, column >>
client == << given, seen >>
lexerVars == << content, extra, offset, row, column, queue, call, scan, status, given, seen >>

keywords ==
  [fn |-> "Fn", ret |-> "Ret", let |-> "Let", mut |-> "Mut", pkg |-> "Pkg", ext |-> "Ext",
   if |-> "If", u8 |-> "U8", i8 |-> "I8", u16 |-> "U16", i16 |-> "I16", u32 |-> "U32",
   i32 |-> "I32", u64 |-> "U64", i64 |-> "I64", float |-> "Float", double |-> "Double",
   void |-> "Void", bool |-> "Bool", false |-> "FalseLiteral", true |-> "TrueLiteral"]

(* The cases of the switch that consume one character, and those that try  *)
(* a second one.                                                           *)
Single ==
  ("+" :> "Plus") @@ ("*" :> "Star") @@ ("%" :> "Modulus") @@ ("{" :> "LBracket") @@
  ("}" :> "RBracket") @@ ("(" :> "LParen") @@ (")" :> "RParen") @@ ("," :> "Comma")
Double ==
  [c \in {"-", "=", "!", "|", "&"} |->
    CASE c = "-" -> [second |-> ">", both |-> "RArrow", one |-> "Minus"]
      [] c = "=" -> [second |-> "=", both |-> "DoubleEquals", one |-> "Equals"]
      [] c = "!" -> [second |-> "=", both |-> "NotEqual", one |-> "Not"]
      [] c = "|" -> [second |-> "|", both |-> "LogOr", one |-> "BitOr"]
      [] c = "&" -> [second |-> "&", both |-> "LogAnd", one |-> "BitAnd"]]

TokenTypes ==
  {keywords[k] : k \in DOMAIN keywords} \cup {Single[c] : c \in DOMAIN Single}
  \cup {Double[c].both : c \in DOMAIN Double} \cup {Double[c].one : c \in DOMAIN Double}
  \cup {"Slash", "StrLiteral", "IntLiteral", "Identifier", "Eof"}

Token == [type : TokenTypes, start : Nat, length : Nat, row : Nat,
          column_start : Nat, column_end : Nat]
EofToken ==
  [type |-> "Eof", start |-> 0, length |-> 0, row |-> 0, column_start |-> 0, column_end |-> 0]

-----------------------------------------------------------------------------
(* The character at an offset, and the tests on it.  std::isalpha and      *)
(* std::isdigit get values above 255 for longer characters, on which they  *)
(* are undefined: extra says what they answer.                             *)
At(p) == read_code_point(content, p).value
current == At(offset)
AtEnd == read_code_point(content, offset).eof \/ offset >= Len(content)

IsAlpha(c) == c \in Letters \/ (c \in Leads /\ "alpha" \in extra)
IsDigit(c) == c \in Digits \/ (c \in Leads /\ "digit" \in extra)
is_identifier == current = "_" \/ IsAlpha(current)
is_digit == IsDigit(current)
is_whitespace == current \in {" ", "\t", "VT", "\r", "\f"}

(* Mistake: one byte, whatever the character.                              *)
StepByte(p) == p + 1
Step(p) == p + read_code_point(content, p).num_bytes

(* is_keyword: the letters and digits ahead, and whether what follows them *)
(* can be read.                                                            *)
Word ==
  LET spell[p \in offset .. Len(content)] ==
        IF ~CanRead(content, p) THEN [text |-> "", length |-> 0, readable |-> FALSE]
        ELSE IF IsAlpha(At(p)) \/ IsDigit(At(p))
          THEN [spell[Step(p)] EXCEPT !.text = At(p) \o @, !.length = @ + (Step(p) - p)]
        ELSE [text |-> "", length |-> 0, readable |-> TRUE]
  IN spell[offset]

(* consume: a character that cannot be read throws.                        *)
NextColumn == (column + 1) % ColumnLimit
consume ==
  /\ offset' = Step(offset)
  /\ status' = IF CanRead(content, Step(offset)) THEN status ELSE "threw"

Consume == consume /\ column' = NextColumn /\ UNCHANGED row

(* consume_newline.                                                        *)
(* Mistake: a column that is not reset.                                    *)
ColumnGoesOn == NextColumn
ColumnAfterNewline == 1
ConsumeNewline == consume /\ column' = ColumnAfterNewline /\ row' = row + 1

(* create_token, for a token that ends at offset end and column col: the   *)
(* column of its start is computed from its length in bytes.               *)
create_token(type, start, end, col) ==
  [type |-> type, start |-> start, length |-> end - start, row |-> row,
   column_start |-> (col - (end - start)) % ColumnLimit, column_end |-> col]

-----------------------------------------------------------------------------
(* The calls.  NoCall: the parser is at work.                              *)
NoCall == [op |-> "none", offset |-> 0]
Scanning(at, start) == [at |-> at, start |-> start, type |-> "Eof", left |-> 0]
Idle == Scanning("start", 0)

Lexing == status = "ok" /\ call # NoCall

(* Bound: the parser stops asking after the second end of file.            *)
Finished ==
  LET n == Len(given) IN n >= 2 /\ given[n].type = "Eof" /\ given[n - 1].type = "Eof"

(* Mistake: next copies the front of the queue and leaves it there.        *)
Unpopped(q) == q
Popped(q) == Tail(q)

CallNext ==
  /\ status = "ok" /\ call = NoCall /\ ~Finished
  /\ IF queue # << >>
       THEN /\ given' = Append(given, Head(queue))
            /\ queue' = Popped(queue)
            /\ seen' = << >>
            /\ UNCHANGED call
       ELSE /\ call' = [op |-> "next", offset |-> 0]
            /\ UNCHANGED << queue, client >>
  /\ UNCHANGED << content, extra, position, scan, status >>

(* Once the end of the file is in the queue it answers for every offset,   *)
(* also for those before it.  The parser does not ask for these: it only   *)
(* calls peek(1), and so never has more than one token in the queue.       *)
EndQueued == queue # << >> /\ queue[Len(queue)].type = "Eof"
BeforeEnd(n) == EndQueued /\ n < Len(queue)

(* peek(n).                                                                *)
CallPeek(n) ==
  /\ status = "ok" /\ call = NoCall
  /\ ~BeforeEnd(n)
  /\ IF EndQueued THEN seen' = << n, queue[Len(queue)] >> /\ UNCHANGED call
     ELSE IF Len(queue) >= n THEN seen' = << n, queue[n] >> /\ UNCHANGED call
     ELSE call' = [op |-> "peek", offset |-> n] /\ UNCHANGED seen
  /\ UNCHANGED << content, extra, position, queue, scan, status, given >>

(* next_internal returns a token to the call, unless its last consume has  *)
(* thrown.  peek asks for another until it has enough or the file ends.    *)
Return(token) ==
  /\ scan' = Idle
  /\ IF status' = "threw" THEN UNCHANGED << queue, call, client >>
     ELSE IF call.op = "next"
       THEN /\ given' = Append(given, token)
            /\ seen' = << >>
            /\ call' = NoCall
            /\ UNCHANGED queue
     ELSE /\ queue' = Append(queue, token)
          /\ IF token.type = "Eof" \/ Len(queue) + 1 = call.offset
               THEN seen' = << call.offset, token >> /\ call' = NoCall
               ELSE UNCHANGED << seen, call >>
          /\ UNCHANGED given

(* The lexer goes on with the call.                                        *)
Continue(next) == scan' = next /\ UNCHANGED << queue, call, client >>

-----------------------------------------------------------------------------
(* next_internal, one character at a time.  The end of the file is looked  *)
(* for here, before the blanks are skipped.                                *)
Start ==
  /\ scan.at = "start"
  /\ UNCHANGED << position, status >>
  /\ IF AtEnd THEN Return(EofToken) ELSE Continue(Scanning("blank", 0))

SkipBlank ==
  /\ scan.at = "blank" /\ is_whitespace
  /\ Consume
  /\ Continue(scan)

EndBlanks ==
  /\ scan.at = "blank" /\ ~is_whitespace
  /\ UNCHANGED << position, status >>
  /\ Continue(Scanning("token", offset))

TakeSingle ==
  /\ scan.at = "token" /\ current \in DOMAIN Single
  /\ Consume
  /\ Return(create_token(Single[current], scan.start, offset', column'))

TakeFirst ==
  /\ scan.at = "token" /\ current \in (DOMAIN Double) \cup {"/"}
  /\ Consume
  /\ Continue(Scanning("second", scan.start))

(* The second character of a pair, if it is there.                         *)
First == content[scan.start + 1]

TakeSecond ==
  /\ scan.at = "second" /\ First # "/"
  /\ IF current = Double[First].second
       THEN /\ Consume
            /\ Return(create_token(Double[First].both, scan.start, offset', column'))
       ELSE /\ UNCHANGED << position, status >>
            /\ Return(create_token(Double[First].one, scan.start, offset, column))

TakeSlash ==
  /\ scan.at = "second" /\ First = "/"
  /\ IF current = "/"
       THEN /\ Consume
            /\ Continue(Scanning("comment", scan.start))
       ELSE /\ UNCHANGED << position, status >>
            /\ Return(create_token("Slash", scan.start, offset, column))

(* A comment ends before the newline, or at the end of the file.           *)
(* Mistake: only a newline ends it.                                        *)
RunsOn == current # "\n"
CommentGoesOn == current # "\n" /\ ~AtEnd

SkipComment ==
  /\ scan.at = "comment"
  /\ IF CommentGoesOn THEN Consume /\ Continue(scan)
     ELSE UNCHANGED << position, status >> /\ Continue(Idle)

Newline ==
  /\ scan.at = "token" /\ current = "\n"
  /\ ConsumeNewline
  /\ Continue(Idle)

(* read_string: the loop looks for the closing quote and for nothing else. *)
OpenString ==
  /\ scan.at = "token" /\ current = "\""
  /\ Consume
  /\ Continue(Scanning("string", scan.start))

StringCharacter ==
  /\ scan.at = "string" /\ current # "\""
  /\ Consume
  /\ Continue(scan)

CloseString ==
  /\ scan.at = "string" /\ current = "\""
  /\ Consume
  /\ Return(create_token("StrLiteral", scan.start + 1, offset, column))

(* What no case of the switch took: a keyword, an identifier, a number, or *)
(* a character that begins no token.                                       *)
Unswitched ==
  scan.at = "token" /\ current \notin (DOMAIN Single) \cup (DOMAIN Double) \cup {"/", "\n", "\""}

IsKeyword == Word.text \in DOMAIN keywords

FoundKeyword ==
  /\ Unswitched /\ Word.readable /\ IsKeyword
  /\ UNCHANGED << position, status >>
  /\ Continue([at |-> "keyword", start |-> scan.start,
               type |-> keywords[Word.text], left |-> Word.length])

ReadKeyword ==
  /\ scan.at = "keyword"
  /\ IF scan.left > 0
       THEN /\ Consume
            /\ Continue([at |-> "keyword", start |-> scan.start,
                         type |-> scan.type, left |-> scan.left - 1])
       ELSE /\ UNCHANGED << position, status >>
            /\ Return(create_token(scan.type, scan.start, offset, column))

FirstOfWord ==
  /\ Unswitched /\ Word.readable /\ ~IsKeyword
  /\ is_identifier \/ is_digit
  /\ Consume
  /\ Continue(Scanning(IF is_identifier THEN "identifier" ELSE "digits", scan.start))

ReadWord(at, type, goesOn) ==
  /\ scan.at = at
  /\ IF goesOn THEN Consume /\ Continue(scan)
     ELSE /\ UNCHANGED << position, status >>
          /\ Return(create_token(type, scan.start, offset, column))

ReadIdentifier == ReadWord("identifier", "Identifier", is_identifier \/ is_digit)
ReadDigits == ReadWord("digits", "IntLiteral", is_digit)

(* A character that begins no token, and a letter or digit ahead that      *)
(* cannot be read, throw.                                                  *)
Unrecognized ==
  /\ Unswitched
  /\ ~Word.readable \/ ~(IsKeyword \/ is_identifier \/ is_digit)
  /\ status' = "threw"
  /\ UNCHANGED << position, queue, call, scan, client >>

Scan ==
  /\ Lexing
  /\ UNCHANGED << content, extra >>
  /\ \/ Start \/ SkipBlank \/ EndBlanks
     \/ TakeSingle \/ TakeFirst \/ TakeSecond \/ TakeSlash
     \/ SkipComment \/ Newline
     \/ OpenString \/ StringCharacter \/ CloseString
     \/ FoundKeyword \/ ReadKeyword
     \/ FirstOfWord \/ ReadIdentifier \/ ReadDigits
     \/ Unrecognized

Stopped == (status = "threw" \/ Finished) /\ UNCHANGED lexerVars

(* The constructor reads the first character.                              *)
Init ==
  /\ content \in Files
  /\ extra \in SUBSET {"alpha", "digit"}
  /\ offset = 0 /\ row = 1 /\ column = 1
  /\ queue = << >>
  /\ call = NoCall
  /\ scan = Idle
  /\ status = IF CanRead(content, 0) THEN "ok" ELSE "threw"
  /\ given = << >>
  /\ seen = << >>

Next ==
  \/ CallNext
  \/ \E n \in 1 .. MaxPeek : CallPeek(n)
  \/ Scan
  \/ Stopped

(* The lexer runs in the thread of the compiler and waits for nothing.     *)
Spec == Init /\ [][Next]_lexerVars /\ WF_lexerVars(Scan)

-----------------------------------------------------------------------------
ScanPoints ==
  {"start", "blank", "token", "second", "comment", "string", "keyword", "identifier", "digits"}
Calls == {NoCall, [op |-> "next", offset |-> 0]} \cup [op : {"peek"}, offset : 1 .. MaxPeek]

(* Every variable has its type.                                            *)
LexerTypeOK ==
  /\ content \in Files
  /\ extra \in SUBSET {"alpha", "digit"}
  /\ offset \in 0 .. Len(content)
  /\ row \in Nat /\ column \in 0 .. (ColumnLimit - 1)
  /\ queue \in Seq(Token) /\ given \in Seq(Token)
  /\ call \in Calls
  /\ seen \in {<< >>} \cup ((1 .. MaxPeek) \X Token)
  /\ scan.at \in ScanPoints /\ scan.start \in 0 .. offset /\ scan.type \in TokenTypes
  /\ status \in {"ok", "threw"}

(* No character is read across the end of the file: its bytes lie inside,  *)
(* whatever malformed bytes the file holds (utf8.cpp:55).                  *)
ReadsInsideFile ==
  status = "ok" => AtEnd \/ offset + read_num_bytes(content[offset + 1]) <= Len(content)

(* Row and column of a token without longer characters lead back to it:    *)
(* the row counts the newlines before it that are not part of a string,    *)
(* the columns the characters since the last of them (lexer.cpp:211-255).  *)
Known == {given[i] : i \in 1 .. Len(given)} \cup {queue[i] : i \in 1 .. Len(queue)}
Covered(t) == t.start .. (t.start + t.length - 1)
InString(p) == \E t \in Known : t.type = "StrLiteral" /\ p \in Covered(t)

Bare(t) == [type |-> t.type, start |-> t.start, length |-> t.length]
Stream == INSTANCE TokenStream WITH
  Keywords <- keywords,
  given <- [i \in 1 .. Len(given) |-> Bare(given[i])],
  seen <- IF seen = << >> THEN << >> ELSE << seen[1], Bare(seen[2]) >>,
  refused <- status = "threw"

PointsBack(t) ==
  LET offsets == Stream!Starts(content)
      starts == {offsets[i] : i \in 1 .. Len(offsets)}
      lines == {p \in starts : p < t.start /\ content[p + 1] = "\n" /\ ~InString(p)}
      lineStart == IF lines = {} THEN 0 ELSE 1 + CHOOSE p \in lines : \A q \in lines : q <= p
  IN /\ t.row = 1 + Cardinality(lines)
     /\ t.column_start = 1 + Cardinality({p \in starts : lineStart <= p /\ p < t.start})
     /\ t.column_end = t.column_start + t.length

PositionsPointBack ==
  \A t \in Known :
    t.type # "Eof" /\ (\A p \in Covered(t) : content[p + 1] \notin HighBytes) => PointsBack(t)

(* Unescaping the text of a string loses nothing: putting the escapes back *)
(* gives what stands in the file, unless it holds control characters of    *)
(* its own (lexer.cpp:350, string_view.cpp:30-76).                         *)
StringsUnescape ==
  \A t \in Known :
    LET text == SubSeq(content, t.start + 1, t.start + t.length)
    IN t.type = "StrLiteral" /\ (\A i \in 1 .. Len(text) : text[i] \notin Controls)
         => Escaped(to_unescaped_string(text)) = text

(* The tokens are those of the file, each once and in order, whatever the  *)
(* parser has looked at ahead, and what it saw ahead is what it gets later *)
(* (lexer.cpp:48-76).                                                      *)
KeepsStream == Stream!StreamSpec

(* Every call of next or peek returns or throws, unless the file has a     *)
(* string that is never closed (lexer.cpp:341-355).                        *)
CallsReturn == Stream!Closed => (Lexing ~> ~Lexing)
=============================================================================
