------------------------------ MODULE Patterns ------------------------------
(***************************************************************************)
(* The patterns of --test-pattern (TestMain.cpp): how they are split at    *)
(* the wildcards and how a test's name is searched for the parts.  Names   *)
(* and patterns are sequences of characters.                               *)
(***************************************************************************)
EXTENDS Integers, Sequences

CONSTANT Star  \* the character '*'

npos == -1

\* The loop of runSuites that splits a pattern, after its first k characters:
\* the parts that a wildcard has ended, and the one at hand.
Splits(pattern) ==
  LET split[k \in 0 .. Len(pattern)] ==
        IF k = 0 THEN [parts |-> <<>>, rest |-> <<>>]
        ELSE LET s == split[k - 1] IN
             IF pattern[k] = Star THEN [parts |-> Append(s.parts, s.rest), rest |-> <<>>]
             ELSE [parts |-> s.parts, rest |-> Append(s.rest, pattern[k])]
  IN  split

\* The parts before each wildcard, and the rest unless it is empty.
SplitPattern(pattern) ==
  LET split == Splits(pattern)[Len(pattern)] IN
  IF split.rest = <<>> THEN split.parts ELSE Append(split.parts, split.rest)

\* std::string::find: the first position from pos on.
Find(name, part, pos) ==
  LET found == {p \in pos .. Len(name) - Len(part) :
                  SubSeq(name, p + 1, p + Len(part)) = part}
  IN  IF found = {} THEN npos ELSE CHOOSE p \in found : \A q \in found : p <= q

\* MUTANT: the next part is searched from where this one was found.
SearchOn_Overlapping(name, pos, part) ==
  IF pos = npos THEN npos ELSE Find(name, part, pos)

\* One round of the loop of matchesPattern: where the search goes on.
SearchOn(name, pos, part) ==
  LET at == IF pos = npos THEN npos ELSE Find(name, part, pos) IN
  IF at = npos THEN npos ELSE at + Len(part)

\* Where the search is after k parts.
Search(name, parts) ==
  LET pos[k \in 0 .. Len(parts)] ==
        IF k = 0 THEN 0 ELSE SearchOn(name, pos[k - 1], parts[k])
  IN  pos

matchesPattern(name, parts) == Search(name, parts)[Len(parts)] # npos

-----------------------------------------------------------------------------
\* Reference: name is pattern with every Star replaced by some string.  Ends is
\* after how many characters of name the first k characters of pattern may end.
Ends(name, pattern) ==
  LET ends[k \in 0 .. Len(pattern)] ==
        IF k = 0 THEN {0}
        ELSE LET before == ends[k - 1] IN
             IF pattern[k] = Star THEN {q \in 0 .. Len(name) : \E p \in before : p <= q}
             ELSE {q \in 1 .. Len(name) : q - 1 \in before /\ name[q] = pattern[k]}
  IN  ends

Glob(name, pattern) == Len(name) \in Ends(name, pattern)[Len(pattern)]

OpenEnded(pattern) ==
  pattern # <<>> /\ pattern[1] = Star /\ pattern[Len(pattern)] = Star
=============================================================================
