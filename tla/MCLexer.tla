------------------------------- MODULE MCLexer -------------------------------
(* Files of a few characters, in families: varied characters; symbols;     *)
(* words and numbers; strings, comments and lines; characters of several   *)
(* bytes; strings with escapes.  The characters stand here and not in the  *)
(* configuration because a configuration has no escapes in its strings.    *)
EXTENDS Lexer

CONSTANTS Short, Long

Varied == {"+", "=", "/", "\"", "\n", "\t", "i", "8", Nul, "#"}
InSymbols == {"-", ">", "|", "=", "!"}
InWords == {"i", "f", "8", "_"}
InText == {"\"", "/", "\n", "i"}
InWide == {"C0-DF", "80-BF", "\""}
InQuotes == {"\\", "n", "t"}

Over(chars, n) == UNION {[1 .. k -> chars] : k \in 0 .. n}
Quoted(text) == << "\"" >> \o text \o << "\"" >>
SomeFiles ==
  Over(Varied, Short) \cup Over(InSymbols, Short) \cup Over(InWords, Long)
  \cup Over(InText, Long) \cup Over(InWide, Long)
  \cup {Quoted(text) : text \in Over(InQuotes, Long)}

NoWide(file) == \A i \in 1 .. Len(file) : file[i] \notin Leads
\* The answers of <cctype> matter only where they are asked for.
MCInit == Init /\ (NoWide(content) => extra = {})
MCSpec == MCInit /\ [][Next]_lexerVars /\ WF_lexerVars(Scan)
=============================================================================
