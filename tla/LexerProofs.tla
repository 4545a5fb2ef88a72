----------------------------- MODULE LexerProofs -----------------------------
(***************************************************************************)
(* Theorems about Lexer, for every file and every look ahead.              *)
(***************************************************************************)
EXTENDS Lexer, TLAPS

(* While the lexer has not thrown, the character it stands at can be read. *)
Readable == status = "ok" => CanRead(content, offset)

(* Where a token begins, as far as the rest of its text depends on it.     *)
ScanInv ==
  /\ scan.at = "token" => scan.start = offset
  /\ scan.at = "second" => First \in (DOMAIN Double) \cup {"/"}
  /\ scan.at = "string" => scan.start < offset

IInv == LexerTypeOK /\ Readable /\ ScanInv

-----------------------------------------------------------------------------
(* Characters.                                                             *)

(* A file is a sequence of bytes.                                          *)
LEMMA ContentType == ASSUME LexerTypeOK PROVE content \in Seq(STRING) /\ Len(content) \in Nat
  BY FilesAssumption DEF LexerTypeOK

(* The end of the file is none of the characters that begin a pair.        *)
LEMMA NulBeginsNothing == Nul \notin (DOMAIN Double) \cup {"/", "\""}
  BY DEF Nul, Double

(* The character the lexer stands at ends inside the file, and reading it  *)
(* moves on unless it is the end.                                          *)
LEMMA StepInside ==
  ASSUME LexerTypeOK, CanRead(content, offset)
  PROVE  /\ Step(offset) \in offset .. Len(content)
         /\ current # Nul => Step(offset) > offset /\ current = content[offset + 1]
  <1>1. offset \in Nat /\ offset <= Len(content) /\ Len(content) \in Nat
    BY ContentType DEF LexerTypeOK
  <1>2. CASE IsEof(content, offset)
    BY <1>1, <1>2 DEF Step, read_code_point, current, At
  <1>3. CASE ~IsEof(content, offset)
    <2>1. read_num_bytes(content[offset + 1]) \in 1 .. 4
      BY DEF read_num_bytes
    <2>2. offset + read_num_bytes(content[offset + 1]) <= Len(content)
      BY <1>1, <1>3, <2>1 DEF CanRead, IsEof, Fits
    <2>3. /\ Step(offset) = offset + read_num_bytes(content[offset + 1])
          /\ current = content[offset + 1]
      BY <1>3 DEF Step, read_code_point, current, At
    <2> QED BY <1>1, <2>1, <2>2, <2>3
  <1> QED BY <1>2, <1>3

(* consume moves on inside the file and throws at what it cannot read.     *)
LEMMA ConsumeStays ==
  ASSUME IInv, status = "ok", content' = content, consume
  PROVE  /\ offset' \in offset .. Len(content)
         /\ current # Nul => offset' > offset
         /\ status' \in {"ok", "threw"}
         /\ status' = "ok" => CanRead(content, offset')
  BY StepInside DEF IInv, Readable, consume

(* A column stays below its limit, whether a character or a line ends.     *)
LEMMA ColumnStays ==
  ASSUME LexerTypeOK
  PROVE  NextColumn \in 0 .. (ColumnLimit - 1) /\ ColumnAfterNewline \in 0 .. (ColumnLimit - 1)
  BY BoundsAssumption DEF LexerTypeOK, NextColumn, ColumnAfterNewline

-----------------------------------------------------------------------------
(* Tokens.                                                                 *)

LEMMA CreatesToken ==
  ASSUME LexerTypeOK, NEW type \in TokenTypes, NEW start \in Nat, NEW end \in Nat,
         start <= end, NEW col \in 0 .. (ColumnLimit - 1)
  PROVE  create_token(type, start, end, col) \in Token
  <1>1. end - start \in Nat /\ col \in Nat /\ row \in Nat
    BY BoundsAssumption DEF LexerTypeOK
  <1>2. (col - (end - start)) % ColumnLimit \in Nat
    BY <1>1, BoundsAssumption
  <1> QED BY <1>1, <1>2 DEF create_token, Token

LEMMA EofIsToken == EofToken \in Token
  BY DEF EofToken, Token, TokenTypes

(* The types of the tokens the switch finds.                               *)
LEMMA SwitchTypes ==
  /\ \A c \in DOMAIN Single : Single[c] \in TokenTypes
  /\ \A c \in DOMAIN Double : Double[c].one \in TokenTypes /\ Double[c].both \in TokenTypes
  /\ \A k \in DOMAIN keywords : keywords[k] \in TokenTypes
  /\ {"Slash", "StrLiteral", "IntLiteral", "Identifier", "Eof"} \subseteq TokenTypes
  BY DEF TokenTypes

-----------------------------------------------------------------------------
(* The calls: whatever the lexer returns, the queue and what the parser    *)
(* has are tokens.                                                         *)
ClientOK ==
  /\ queue \in Seq(Token) /\ given \in Seq(Token)
  /\ call \in Calls
  /\ seen \in {<< >>} \cup ((1 .. MaxPeek) \X Token)

LEMMA ReturnsToken ==
  ASSUME LexerTypeOK, call # NoCall, NEW token \in Token, Return(token)
  PROVE  ClientOK' /\ scan' = Idle
  <1>1. ClientOK
    BY DEF LexerTypeOK, ClientOK
  <1>2. CASE status' = "threw"
    BY <1>1, <1>2 DEF Return, ClientOK, client
  <1>3. CASE status' # "threw" /\ call.op = "next"
    <2>1. given' \in Seq(Token) /\ queue' = queue
      BY <1>1, <1>3 DEF Return, ClientOK
    <2>2. seen' = << >> /\ call' = NoCall
      BY <1>3 DEF Return
    <2> QED BY <1>1, <2>1, <2>2 DEF Return, ClientOK, Calls
  <1>4. CASE status' # "threw" /\ call.op # "next"
    <2>1. call.offset \in 1 .. MaxPeek
      BY <1>1, <1>4 DEF ClientOK, Calls
    <2>2. queue' \in Seq(Token) /\ given' = given
      BY <1>1, <1>4 DEF Return, ClientOK
    <2>3. \/ seen' = << call.offset, token >> /\ call' = NoCall
          \/ seen' = seen /\ call' = call
      BY <1>4 DEF Return
    <2> QED BY <1>1, <2>1, <2>2, <2>3 DEF Return, ClientOK, Calls
  <1> QED BY <1>2, <1>3, <1>4

LEMMA ContinuesWith ==
  ASSUME LexerTypeOK, NEW next, Continue(next)
  PROVE  ClientOK' /\ scan' = next
  BY DEF LexerTypeOK, ClientOK, Continue, client

(* A step of next_internal that leaves position and status in order and    *)
(* the client with tokens preserves the invariant, if its new place does.  *)
PlaceOK(s) ==
  /\ s.at \in ScanPoints /\ s.start \in 0 .. offset' /\ s.type \in TokenTypes
  /\ s.at = "token" => s.start = offset'
  /\ s.at = "second" => content[s.start + 1] \in (DOMAIN Double) \cup {"/"}
  /\ s.at = "string" => s.start < offset'
PositionOK ==
  /\ offset' \in 0 .. Len(content) /\ row' \in Nat /\ column' \in 0 .. (ColumnLimit - 1)
  /\ status' \in {"ok", "threw"}
  /\ status' = "ok" => CanRead(content, offset')

LEMMA Assemble ==
  ASSUME IInv, UNCHANGED << content, extra >>, PositionOK, ClientOK', PlaceOK(scan')
  PROVE  IInv'
  BY DEF IInv, LexerTypeOK, Readable, ScanInv, First, PositionOK, ClientOK, PlaceOK

LEMMA IdleIsPlace == ASSUME offset' \in Nat PROVE PlaceOK(Idle)
  BY SwitchTypes DEF PlaceOK, Idle, Scanning, ScanPoints

LEMMA ConsumePosition ==
  ASSUME IInv, status = "ok", content' = content, Consume
  PROVE  PositionOK /\ offset' \in Nat /\ offset' >= offset /\ (current # Nul => offset' > offset)
  <1>1. column' \in 0 .. (ColumnLimit - 1) /\ row' \in Nat
    BY ColumnStays DEF IInv, LexerTypeOK, Consume
  <1>2. offset \in Nat /\ Len(content) \in Nat
    BY ContentType DEF IInv, LexerTypeOK
  <1> QED BY <1>1, <1>2, ConsumeStays DEF Consume, PositionOK

LEMMA StayPosition ==
  ASSUME IInv, UNCHANGED << position, status >>
  PROVE  PositionOK /\ offset' \in Nat /\ offset' = offset /\ column' = column
  BY ContentType DEF IInv, LexerTypeOK, Readable, PositionOK, position

-----------------------------------------------------------------------------
(* The steps of next_internal.                                             *)

Doing == IInv /\ Lexing /\ UNCHANGED << content, extra >>

LEMMA DoingOK ==
  ASSUME Doing
  PROVE  /\ IInv /\ LexerTypeOK /\ status = "ok" /\ call # NoCall
         /\ content' = content /\ UNCHANGED << content, extra >>
         /\ offset \in Nat /\ scan.start \in 0 .. offset /\ scan.type \in TokenTypes
         /\ column \in 0 .. (ColumnLimit - 1)
  BY ContentType DEF Doing, Lexing, IInv, LexerTypeOK

(* A step that stays where it is, or consumes a character, and goes on.    *)
LEMMA StaysOn ==
  ASSUME Doing, UNCHANGED << position, status >>, NEW next, Continue(next),
         offset' = offset => PlaceOK(next)
  PROVE  IInv'
  <1> QED BY DoingOK, StayPosition, ContinuesWith, Assemble

LEMMA ConsumesOn ==
  ASSUME Doing, Consume, NEW next, Continue(next),
         offset' \in Nat /\ offset' >= offset /\ (current # Nul => offset' > offset)
           => PlaceOK(next)
  PROVE  IInv'
  <1> QED BY DoingOK, ConsumePosition, ContinuesWith, Assemble

(* A step that returns a token.                                            *)
LEMMA StaysAndReturns ==
  ASSUME Doing, UNCHANGED << position, status >>, NEW token \in Token, Return(token)
  PROVE  IInv'
  <1> QED BY DoingOK, StayPosition, ReturnsToken, IdleIsPlace, Assemble

LEMMA ConsumesAndReturns ==
  ASSUME Doing, Consume, NEW type \in TokenTypes, Return(create_token(type, scan.start, offset', column'))
  PROVE  IInv'
  <1>1. PositionOK /\ offset' \in Nat /\ offset' >= offset
    BY DoingOK, ConsumePosition
  <1>2. column' \in 0 .. (ColumnLimit - 1) /\ scan.start \in Nat /\ scan.start <= offset'
    BY <1>1, DoingOK DEF PositionOK
  <1>3. create_token(type, scan.start, offset', column') \in Token
    BY <1>1, <1>2, DoingOK, CreatesToken
  <1> QED BY <1>1, <1>3, DoingOK, ReturnsToken, IdleIsPlace, Assemble

(* A token that ends where the lexer stands.                               *)
LEMMA EndsHere ==
  ASSUME Doing, UNCHANGED << position, status >>, NEW type \in TokenTypes,
         Return(create_token(type, scan.start, offset, column))
  PROVE  IInv'
  <1>1. create_token(type, scan.start, offset, column) \in Token
    BY DoingOK, CreatesToken
  <1> QED BY <1>1, StaysAndReturns

LEMMA BlankSteps ==
  ASSUME Doing, Start \/ SkipBlank \/ EndBlanks PROVE IInv'
  <1>1. CASE Start /\ AtEnd
    BY <1>1, StaysAndReturns, EofIsToken DEF Start
  <1>2. CASE Start /\ ~AtEnd
    <2>1. offset' = offset => PlaceOK(Scanning("blank", 0))
      BY DoingOK, SwitchTypes DEF PlaceOK, Scanning, ScanPoints
    <2> QED BY <1>2, <2>1, StaysOn DEF Start
  <1>3. CASE SkipBlank
    <2>1. offset' \in Nat /\ offset' >= offset => PlaceOK(scan)
      BY <1>3, DoingOK DEF SkipBlank, PlaceOK, ScanPoints
    <2> QED BY <1>3, <2>1, ConsumesOn DEF SkipBlank
  <1>4. CASE EndBlanks
    <2>1. offset' = offset => PlaceOK(Scanning("token", offset))
      BY DoingOK, SwitchTypes DEF PlaceOK, Scanning, ScanPoints
    <2> QED BY <1>4, <2>1, StaysOn DEF EndBlanks
  <1> QED BY <1>1, <1>2, <1>3, <1>4

LEMMA SymbolSteps ==
  ASSUME Doing, TakeSingle \/ TakeFirst \/ TakeSecond \/ TakeSlash PROVE IInv'
  <1>1. CASE TakeSingle
    BY <1>1, ConsumesAndReturns, SwitchTypes DEF TakeSingle
  <1>2. CASE TakeFirst
    <2>1. current # Nul /\ current = content[offset + 1] /\ scan.start = offset
      BY <1>2, NulBeginsNothing, DoingOK, StepInside DEF TakeFirst, IInv, ScanInv, Readable
    <2>2. offset' \in Nat /\ offset' >= offset => PlaceOK(Scanning("second", scan.start))
      BY <1>2, <2>1, DoingOK, SwitchTypes DEF TakeFirst, PlaceOK, Scanning, ScanPoints
    <2> QED BY <1>2, <2>2, ConsumesOn DEF TakeFirst
  <1>3. CASE TakeSecond
    <2>1. First \in DOMAIN Double
      BY <1>3, DoingOK DEF TakeSecond, IInv, ScanInv
    <2> QED BY <1>3, <2>1, ConsumesAndReturns, EndsHere, SwitchTypes DEF TakeSecond
  <1>4. CASE TakeSlash
    <2>1. offset' \in Nat /\ offset' >= offset => PlaceOK(Scanning("comment", scan.start))
      BY DoingOK, SwitchTypes DEF PlaceOK, Scanning, ScanPoints
    <2> QED BY <1>4, <2>1, ConsumesOn, EndsHere, SwitchTypes DEF TakeSlash
  <1> QED BY <1>1, <1>2, <1>3, <1>4

LEMMA LineSteps ==
  ASSUME Doing, SkipComment \/ Newline PROVE IInv'
  <1>1. CASE SkipComment
    <2>1. offset' \in Nat /\ offset' >= offset => PlaceOK(scan)
      BY <1>1, DoingOK DEF SkipComment, PlaceOK, ScanPoints
    <2>2. offset' = offset => PlaceOK(Idle)
      BY DoingOK, IdleIsPlace
    <2> QED BY <1>1, <2>1, <2>2, ConsumesOn, StaysOn DEF SkipComment
  <1>2. CASE Newline
    <2>1. PositionOK /\ offset' \in Nat
      <3>1. column' \in 0 .. (ColumnLimit - 1) /\ row' \in Nat
        BY <1>2, DoingOK, ColumnStays DEF Newline, ConsumeNewline, LexerTypeOK
      <3>2. consume /\ Len(content) \in Nat
        BY <1>2, DoingOK, ContentType DEF Newline, ConsumeNewline
      <3> QED BY <3>1, <3>2, DoingOK, ConsumeStays DEF PositionOK
    <2>2. Continue(Idle)
      BY <1>2 DEF Newline
    <2> QED BY <2>1, <2>2, DoingOK, ContinuesWith, IdleIsPlace, Assemble
  <1> QED BY <1>1, <1>2

LEMMA StringSteps ==
  ASSUME Doing, OpenString \/ StringCharacter \/ CloseString PROVE IInv'
  <1>1. CASE OpenString
    <2>1. current # Nul
      BY <1>1, NulBeginsNothing DEF OpenString
    <2>2. offset' \in Nat /\ offset' > offset => PlaceOK(Scanning("string", scan.start))
      BY DoingOK, SwitchTypes DEF PlaceOK, Scanning, ScanPoints
    <2> QED BY <1>1, <2>1, <2>2, ConsumesOn DEF OpenString
  <1>2. CASE StringCharacter
    <2>1. scan.at = "string" /\ scan.start < offset
      BY <1>2, DoingOK DEF StringCharacter, IInv, ScanInv
    <2>2. offset' \in Nat /\ offset' >= offset => PlaceOK(scan)
      <3> SUFFICES ASSUME offset' \in Nat, offset' >= offset PROVE PlaceOK(scan)
        OBVIOUS
      <3>1. scan.start \in 0 .. offset' /\ scan.start < offset' /\ scan.type \in TokenTypes
        BY <2>1, DoingOK
      <3> QED BY <2>1, <3>1 DEF PlaceOK, ScanPoints
    <2> QED BY <1>2, <2>2, ConsumesOn DEF StringCharacter
  <1>3. CASE CloseString
    <2>1. scan.start < offset
      BY <1>3, DoingOK DEF CloseString, IInv, ScanInv
    <2>2. create_token("StrLiteral", scan.start + 1, offset, column) \in Token
      BY <2>1, DoingOK, CreatesToken, SwitchTypes
    <2>3. PositionOK /\ offset' \in Nat
      BY <1>3, DoingOK, ConsumePosition DEF CloseString
    <2> QED BY <1>3, <2>2, <2>3, DoingOK, ReturnsToken, IdleIsPlace, Assemble DEF CloseString
  <1> QED BY <1>1, <1>2, <1>3

LEMMA WordSteps ==
  ASSUME Doing,
         FoundKeyword \/ ReadKeyword \/ FirstOfWord \/ ReadIdentifier \/ ReadDigits \/ Unrecognized
  PROVE  IInv'
  <1>1. CASE FoundKeyword
    <2> DEFINE next == [at |-> "keyword", start |-> scan.start,
                        type |-> keywords[Word.text], left |-> Word.length]
    <2>1. offset' = offset => PlaceOK(next)
      BY <1>1, DoingOK, SwitchTypes DEF FoundKeyword, IsKeyword, PlaceOK, ScanPoints
    <2> HIDE DEF next
    <2>2. Continue(next) /\ UNCHANGED << position, status >>
      BY <1>1 DEF FoundKeyword, next
    <2> QED BY <2>1, <2>2, StaysOn
  <1>2. CASE ReadKeyword /\ scan.left > 0
    <2> DEFINE next == [at |-> "keyword", start |-> scan.start,
                        type |-> scan.type, left |-> scan.left - 1]
    <2>1. offset' \in Nat /\ offset' >= offset => PlaceOK(next)
      BY DoingOK DEF PlaceOK, ScanPoints
    <2>2. Consume /\ Continue(next)
      BY <1>2 DEF ReadKeyword
    <2> HIDE DEF next
    <2> QED BY <2>1, <2>2, ConsumesOn
  <1>3. CASE ReadKeyword /\ ~(scan.left > 0)
    BY <1>3, EndsHere, DoingOK DEF ReadKeyword
  <1>4. CASE FirstOfWord
    <2> DEFINE at == IF is_identifier THEN "identifier" ELSE "digits"
    <2>1. offset' \in Nat /\ offset' >= offset => PlaceOK(Scanning(at, scan.start))
      BY DoingOK, SwitchTypes DEF PlaceOK, Scanning, ScanPoints
    <2> QED BY <1>4, <2>1, ConsumesOn DEF FirstOfWord
  <1>5. ASSUME NEW at \in {"identifier", "digits"}, NEW type \in TokenTypes, NEW goesOn,
               ReadWord(at, type, goesOn)
        PROVE  IInv'
    <2>1. offset' \in Nat /\ offset' >= offset => PlaceOK(scan)
      BY <1>5, DoingOK DEF ReadWord, PlaceOK, ScanPoints
    <2> QED BY <1>5, <2>1, ConsumesOn, EndsHere DEF ReadWord
  <1>6. CASE Unrecognized
    BY <1>6, DoingOK DEF Unrecognized, IInv, LexerTypeOK, Readable, ScanInv, First, position, client
  <1> QED BY <1>1, <1>2, <1>3, <1>4, <1>5, <1>6, SwitchTypes DEF ReadIdentifier, ReadDigits

-----------------------------------------------------------------------------
(* The calls of the parser.                                                *)

LEMMA ClientKeeps ==
  ASSUME IInv, UNCHANGED << content, extra, offset, row, column, scan, status >>, ClientOK'
  PROVE  IInv'
  BY DEF ClientOK, IInv, LexerTypeOK, Readable, ScanInv, First

LEMMA CallsKeep ==
  ASSUME IInv, CallNext \/ \E n \in 1 .. MaxPeek : CallPeek(n)
  PROVE  IInv'
  <1>1. /\ UNCHANGED << content, extra, offset, row, column, scan, status >>
    BY DEF CallNext, CallPeek, position
  <1>2. ClientOK
    BY DEF IInv, LexerTypeOK, ClientOK
  <1>3. CASE CallNext /\ queue # << >>
    <2>1. Head(queue) \in Token /\ Tail(queue) \in Seq(Token)
      BY <1>2, <1>3 DEF ClientOK
    <2>2. given' \in Seq(Token) /\ queue' \in Seq(Token) /\ seen' = << >> /\ call' = call
      <3>1. given' = Append(given, Head(queue)) /\ queue' = Tail(queue)
        BY <1>3 DEF CallNext, Popped
      <3>2. seen' = << >> /\ call' = call
        BY <1>3 DEF CallNext
      <3>3. Append(given, Head(queue)) \in Seq(Token)
        BY <1>2, <2>1 DEF ClientOK
      <3> QED BY <2>1, <3>1, <3>2, <3>3
    <2>3. ClientOK'
      BY <1>2, <2>2 DEF ClientOK
    <2> QED BY <1>1, <2>3, ClientKeeps
  <1>4. CASE CallNext /\ queue = << >>
    <2>1. ClientOK'
      BY <1>2, <1>4 DEF CallNext, ClientOK, Calls, client
    <2> QED BY <1>1, <2>1, ClientKeeps
  <1>5. ASSUME NEW n \in 1 .. MaxPeek, CallPeek(n) PROVE IInv'
    <2>1. n \in Nat /\ Len(queue) \in Nat
      BY <1>2, BoundsAssumption DEF ClientOK
    <2>2. ClientOK'
      <3>1. CASE EndQueued
        <4>1. queue[Len(queue)] \in Token
          BY <1>2, <3>1 DEF EndQueued, ClientOK
        <4> QED BY <1>2, <1>5, <3>1, <4>1 DEF CallPeek, ClientOK
      <3>2. CASE ~EndQueued /\ Len(queue) >= n
        <4>1. queue[n] \in Token
          BY <1>2, <2>1, <3>2 DEF ClientOK
        <4> QED BY <1>2, <1>5, <3>2, <4>1 DEF CallPeek, ClientOK
      <3>3. CASE ~EndQueued /\ ~(Len(queue) >= n)
        BY <1>2, <1>5, <3>3 DEF CallPeek, ClientOK, Calls
      <3> QED BY <3>1, <3>2, <3>3
    <2> QED BY <1>1, <2>2, ClientKeeps
  <1> QED BY <1>3, <1>4, <1>5

-----------------------------------------------------------------------------
(* The theorems.                                                           *)

LEMMA InitInv == Init => IInv
  <1> SUFFICES ASSUME Init PROVE IInv
    OBVIOUS
  <1>1. content \in Seq(STRING) /\ Len(content) \in Nat
    BY FilesAssumption DEF Init
  <1> QED BY <1>1, BoundsAssumption, SwitchTypes
        DEF Init, IInv, LexerTypeOK, Readable, ScanInv, Calls, Idle, Scanning, ScanPoints

LEMMA NextInv == IInv /\ [Next]_lexerVars => IInv'
  <1> SUFFICES ASSUME IInv, [Next]_lexerVars PROVE IInv'
    OBVIOUS
  <1>1. CASE UNCHANGED lexerVars
    BY <1>1 DEF lexerVars, IInv, LexerTypeOK, Readable, ScanInv, First
  <1>2. CASE Scan
    BY <1>2, BlankSteps, SymbolSteps, LineSteps, StringSteps, WordSteps DEF Scan, Doing
  <1>3. CASE CallNext \/ \E n \in 1 .. MaxPeek : CallPeek(n)
    BY <1>3, CallsKeep
  <1> QED BY <1>1, <1>2, <1>3 DEF Next, Stopped

(* The invariant the others follow from: between two characters the lexer  *)
(* stands at one it can read or has thrown (lexer.cpp:231-254).            *)
THEOREM Inductive == Spec => []IInv
  <1> QED BY InitInv, NextInv, PTL DEF Spec

(* Every variable keeps its type, for every file: tokens have types, and   *)
(* no length or column of them is negative (lexer.cpp:211-223).            *)
THEOREM Types == Spec => []LexerTypeOK
  <1>1. IInv => LexerTypeOK
    BY DEF IInv
  <1> QED BY <1>1, Inductive, PTL

(* No byte beyond the end of the file is read, whatever the file ends with *)
(* (utf8.cpp:41-65).                                                       *)
THEOREM NoReadBeyondEnd == Spec => []ReadsInsideFile
  <1>1. IInv => ReadsInsideFile
    <2> SUFFICES ASSUME IInv, status = "ok", ~AtEnd
                 PROVE  offset + read_num_bytes(content[offset + 1]) <= Len(content)
      BY DEF ReadsInsideFile
    <2>1. offset \in Nat /\ Len(content) \in Nat /\ CanRead(content, offset)
      BY ContentType DEF IInv, LexerTypeOK, Readable
    <2>2. ~IsEof(content, offset)
      BY DEF AtEnd, read_code_point
    <2>3. read_num_bytes(content[offset + 1]) \in Nat
      BY DEF read_num_bytes
    <2> QED BY <2>1, <2>2, <2>3 DEF CanRead, IsEof, Fits
  <1> QED BY <1>1, Inductive, PTL
=============================================================================
