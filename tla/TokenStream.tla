----------------------------- MODULE TokenStream -----------------------------
(***************************************************************************)
(* What a lexer promises: the tokens of a file, each once and in order,    *)
(* however far ahead the parser has looked.  A token is its type and the   *)
(* bytes it covers.                                                        *)
(***************************************************************************)
EXTENDS LexicalGrammar

CONSTANTS
  Files,    \* the contents of the files that are read
  MaxPeek   \* bound: how far ahead the parser looks

VARIABLES
  content,  \* the file
  extra,    \* which tests of <cctype> accept a character outside ASCII
  given,    \* the tokens handed out
  seen,     \* << offset, token >> of the last look ahead, or << >>
  refused   \* the lexer has thrown

streamVars == << content, extra, given, seen, refused >>

Lexed == [f \in Files, e \in SUBSET {"alpha", "digit"} |-> Outcomes(f, e)]

(* The k-th token from here on; what the file ends with is met for ever.   *)
Outcome(k) ==
  LET all == Lexed[content, extra] IN all[Min({Len(given) + k, Len(all)})]

(* The first character is read before any token is asked for.              *)
StreamInit ==
  /\ given = << >>
  /\ seen = << >>
  /\ refused \in BOOLEAN
  /\ refused => Outcome(1).kind = "throw"

(* The parser takes the next token.                                        *)
Give ==
  /\ Len(given') = Len(given) + 1
  /\ Outcome(1).kind = "token"
  /\ given' = Append(given, Outcome(1).token)
  /\ seen' = << >>
  /\ UNCHANGED << content, extra, refused >>

(* The parser looks k tokens ahead.                                        *)
Look(k) ==
  /\ seen' # seen
  /\ Outcome(k).kind = "token"
  /\ seen' = << k, Outcome(k).token >>
  /\ UNCHANGED << content, extra, given, refused >>

(* Reading ahead meets what is no token.                                   *)
Refuse ==
  /\ refused' = TRUE
  /\ \E k \in 1 .. MaxPeek : Outcome(k).kind = "throw"
  /\ UNCHANGED << content, extra, given, seen >>

StreamNext == Give \/ (\E k \in 1 .. MaxPeek : Look(k)) \/ Refuse

StreamSpec == StreamInit /\ [][StreamNext]_streamVars

(* Every string of the file is closed.                                     *)
Closed == Outcome(Len(content) + 1).kind # "hang"
=============================================================================
