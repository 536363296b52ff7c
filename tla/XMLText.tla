------------------------------ MODULE XMLText ------------------------------
(***************************************************************************)
(* escapeXML of XMLOutput.cpp, on texts as sequences of characters.        *)
(***************************************************************************)
EXTENDS Integers, Sequences, SequencesExt

Entity == [c \in {"\"", "'", "<", ">", "&"} |->
             CASE c = "\"" -> <<"&", "q", "u", "o", "t", ";">>
               [] c = "'" -> <<"&", "a", "p", "o", "s", ";">>
               [] c = "<" -> <<"&", "l", "t", ";">>
               [] c = ">" -> <<"&", "g", "t", ";">>
               [] c = "&" -> <<"&", "a", "m", "p", ";">>]
Special == DOMAIN Entity

\* MUTANT: five characters of every entity are skipped, also of "&lt;".
Skip_Five == 5

\* How far the search moves on after a replacement, whatever its length.
Skip == 4

\* find_first_of: the special characters from pos on.
Found(state) == {p \in state.pos .. Len(state.text) : state.text[p] \in Special}

\* One round of the loop: the first of them is replaced, and the search moves on.
EscapeFirst(state) ==
  IF Found(state) = {} THEN state
  ELSE LET p == CHOOSE p \in Found(state) : \A q \in Found(state) : p <= q IN
       [text |-> SubSeq(state.text, 1, p - 1) \o Entity[state.text[p]]
                   \o SubSeq(state.text, p + 1, Len(state.text)),
        pos |-> p + Skip]

\* The text and the position after n rounds.  There are no more of them than
\* text has characters, and one that finds nothing leaves everything as it is.
Rounds(text) ==
  LET after[n \in 0 .. Len(text)] ==
        IF n = 0 THEN [text |-> text, pos |-> 1] ELSE EscapeFirst(after[n - 1])
  IN  after

escapeXML(text) == Rounds(text)[Len(text)].text

\* The loop has ended by then.
EscapeEnds(text) == Found(Rounds(text)[Len(text)]) = {}

-----------------------------------------------------------------------------
\* Reference: every character by itself.
EscapedChar(c) == IF c \in Special THEN Entity[c] ELSE <<c>>
Escaped(text) == FlattenSeq([i \in DOMAIN text |-> EscapedChar(text[i])])
=============================================================================
