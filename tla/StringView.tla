----------------------------- MODULE StringView -----------------------------
(* The text of a token: common/string_view.cpp.                            *)
EXTENDS Naturals, Sequences

Backslash == "\\"
should_unescape_char(c) == c \in {"n", "t", "v", "r", "f"}
unescape_char(c) ==
  CASE c = "n" -> "\n" [] c = "t" -> "\t" [] c = "v" -> "VT"
    [] c = "r" -> "\r" [] c = "f" -> "\f" [] OTHER -> c

IsEscape(text, i) ==
  /\ i < Len(text)
  /\ text[i] = Backslash
  /\ should_unescape_char(text[i + 1])

(* Mistake: the letter of the escape is kept.                              *)
KeepingLetter(text) ==
  LET from[i \in 1 .. (Len(text) + 1)] ==
        IF i > Len(text) THEN << >>
        ELSE IF IsEscape(text, i) THEN << unescape_char(text[i + 1]) >> \o from[i + 1]
        ELSE << text[i] >> \o from[i + 1]
  IN from[1]

to_unescaped_string(text) ==
  LET from[i \in 1 .. (Len(text) + 1)] ==
        IF i > Len(text) THEN << >>
        ELSE IF IsEscape(text, i) THEN << unescape_char(text[i + 1]) >> \o from[i + 2]
        ELSE << text[i] >> \o from[i + 1]
  IN from[1]

-----------------------------------------------------------------------------
(* The way back: a control character in its two-character form.            *)
Controls == {"\n", "\t", "VT", "\r", "\f"}
Escaped(text) ==
  LET form(c) == << Backslash, CHOOSE l \in {"n", "t", "v", "r", "f"} : unescape_char(l) = c >>
      from[i \in 1 .. (Len(text) + 1)] ==
        IF i > Len(text) THEN << >>
        ELSE (IF text[i] \in Controls THEN form(text[i]) ELSE << text[i] >>) \o from[i + 1]
  IN from[1]
=============================================================================
