--------------------------- MODULE LexicalGrammar ---------------------------
(***************************************************************************)
(* The lexical grammar of brisk on whole characters and whole runs of      *)
(* them, as a reference for the lexer, which works one character at a time.*)
(***************************************************************************)
EXTENDS Naturals, Sequences, FiniteSetsExt, TLC, Utf8

CONSTANTS
  Letters, Digits,  \* the ASCII characters of words
  Keywords          \* function: spelling to token type

Blanks == {" ", "\t", "VT", "\r", "\f"}
Symbols ==
  ("+" :> "Plus") @@ ("-" :> "Minus") @@ ("*" :> "Star") @@ ("/" :> "Slash") @@
  ("%" :> "Modulus") @@ ("=" :> "Equals") @@ ("!" :> "Not") @@ ("{" :> "LBracket") @@
  ("}" :> "RBracket") @@ ("(" :> "LParen") @@ (")" :> "RParen") @@ ("," :> "Comma") @@
  ("|" :> "BitOr") @@ ("&" :> "BitAnd")
Pairs ==
  ("->" :> "RArrow") @@ ("==" :> "DoubleEquals") @@ ("!=" :> "NotEqual") @@
  ("||" :> "LogOr") @@ ("&&" :> "LogAnd")

(* The offsets at which the characters of a file begin, the last of them   *)
(* its end or a character that cannot be read.                             *)
Starts(file) ==
  LET from[p \in 0 .. Len(file)] ==
        IF ~CanRead(file, p) \/ IsEof(file, p) THEN << p >>
        ELSE << p >> \o from[p + read_num_bytes(file[p + 1])]
  IN from[0]

(* A file as it is read.  extra says which tests of <cctype> accept        *)
(* characters outside ASCII.                                               *)
Source(file, extra) ==
  LET starts == Starts(file)
      n == Len(starts) - 1
  IN [starts |-> starts,
      chars |-> [i \in 1 .. n |-> file[starts[i] + 1]],
      end |-> n + 1,
      cut |-> ~CanRead(file, starts[n + 1]),
      alphas |-> Letters \cup (IF "alpha" \in extra THEN Leads ELSE {}),
      digits |-> Digits \cup (IF "digit" \in extra THEN Leads ELSE {})]

(* The first character from the i-th on that is not in set, or the end.    *)
RunEnd(s, i, set) == Min({j \in i .. s.end : j = s.end \/ s.chars[j] \notin set})
FirstOf(s, i, c) == Min({j \in i .. s.end : j = s.end \/ s.chars[j] = c})

Two(s, i) == IF i + 1 < s.end THEN s.chars[i] \o s.chars[i + 1] ELSE ""

(* Where the blanks, lines and comments from the i-th character on end;    *)
(* blank says that a blank stands last.                                    *)
Gap(s, i) ==
  LET skip[j \in i .. s.end, b \in BOOLEAN] ==
        IF j = s.end THEN [at |-> j, blank |-> b]
        ELSE IF s.chars[j] \in Blanks THEN skip[j + 1, TRUE]
        ELSE IF s.chars[j] = "\n" THEN skip[j + 1, FALSE]
        ELSE IF Two(s, j) = "//" THEN skip[FirstOf(s, j, "\n"), FALSE]
        ELSE [at |-> j, blank |-> b]
  IN skip[i, FALSE]

Spelling(s, i, j) ==
  LET spell[k \in i .. j] == IF k = i THEN "" ELSE spell[k - 1] \o s.chars[k - 1]
  IN spell[j]

-----------------------------------------------------------------------------
(* The outcomes of reading one token: the token and the character after    *)
(* it, the end, a throw, or a string that never ends.                      *)
Throws == [kind |-> "throw"]
Hangs == [kind |-> "hang"]

Eof == [type |-> "Eof", start |-> 0, length |-> 0]
Covering(s, type, i, j) ==
  [type |-> type, start |-> s.starts[i], length |-> s.starts[j] - s.starts[i]]

(* A token of the characters i to j - 1 is complete when the character at  *)
(* next has been read too.                                                 *)
Lexeme(s, type, i, j, next) ==
  IF next = s.end /\ s.cut THEN Throws
  ELSE [kind |-> "token", token |-> Covering(s, type, i, j), next |-> next]

StringFrom(s, i) ==
  LET close == FirstOf(s, i + 1, "\"")
  IN IF close < s.end THEN Lexeme(s, "StrLiteral", i + 1, close, close + 1)
     ELSE IF s.cut THEN Throws ELSE Hangs

(* Words: a whole run of letters and digits that is a keyword is one, even *)
(* if an underscore follows; then identifiers; then numbers.               *)
WordFrom(s, i) ==
  LET run == RunEnd(s, i, s.alphas \cup s.digits)
      text == Spelling(s, i, run)
      name == RunEnd(s, i, s.alphas \cup s.digits \cup {"_"})
      number == RunEnd(s, i, s.digits)
  IN IF run = s.end /\ s.cut THEN Throws
     ELSE IF text \in DOMAIN Keywords THEN Lexeme(s, Keywords[text], i, run, run)
     ELSE IF s.chars[i] \in s.alphas \cup {"_"} THEN Lexeme(s, "Identifier", i, name, name)
     ELSE Lexeme(s, "IntLiteral", i, number, number)

TokenFrom(s, i) ==
  LET gap == Gap(s, i)
      c == s.chars[gap.at]
      two == Two(s, gap.at)
  IN IF gap.at = s.end
       THEN IF s.cut \/ gap.blank THEN Throws
            ELSE [kind |-> "token", token |-> Eof, next |-> gap.at]
     ELSE IF two \in DOMAIN Pairs THEN Lexeme(s, Pairs[two], gap.at, gap.at + 2, gap.at + 2)
     ELSE IF c \in DOMAIN Symbols THEN Lexeme(s, Symbols[c], gap.at, gap.at + 1, gap.at + 1)
     ELSE IF c = "\"" THEN StringFrom(s, gap.at)
     ELSE IF c \in s.alphas \cup s.digits \cup {"_"} THEN WordFrom(s, gap.at)
     ELSE Throws

(* The outcomes of reading a file to its end.                              *)
Outcomes(file, extra) ==
  LET s == Source(file, extra)
      from[i \in 1 .. s.end] ==
        LET first == TokenFrom(s, i)
        IN IF first.kind = "token" /\ first.token # Eof
             THEN << first >> \o from[first.next]
             ELSE << first >>
  IN from[1]
=============================================================================
