------------------------------ MODULE Formats ------------------------------
(***************************************************************************)
(* The conversion of UTF-16 and UTF-32 strings to UTF-8 (formatting.cpp)   *)
(* that prints the operands of an assertion.  A string is the sequence of  *)
(* its code units; the enclosing quotes are left out.                      *)
(***************************************************************************)
EXTENDS Integers, Sequences

\* char16_t
CodeUnit == {unit \in Nat : unit < 65536}

\* A byte with six bits of a code, from the one of this weight up.
Continuation(code, weight) == 128 + ((code \div weight) % 64)

\* appendAsUtf8: the bytes of a code.
Utf8(code) ==
  IF code < 128 THEN <<code>>
  ELSE IF code < 2048 THEN <<192 + ((code \div 64) % 32), Continuation(code, 1)>>
  ELSE IF code < 65536
    THEN <<224 + ((code \div 4096) % 16), Continuation(code, 64), Continuation(code, 1)>>
  ELSE IF code < 1114112
    THEN <<240 + ((code \div 262144) % 8), Continuation(code, 4096),
           Continuation(code, 64), Continuation(code, 1)>>
  ELSE <<63>>

IsHigh(unit) == unit \div 1024 = 54
IsLow(unit) == unit \div 1024 = 55

\* MUTANT: the offset of the supplementary planes is forgotten.
HighCode_NoOffset(unit) == (unit % 1024) * 1024

HighCode(unit) == (unit % 1024) * 1024 + 65536

\* One round of the loop of utf16_to_string: a high surrogate is kept in code,
\* whose lower ten bits are 0, until the next unit.
NextUnit(state, unit) ==
  IF IsHigh(unit) THEN [state EXCEPT !.code = HighCode(unit)]
  ELSE [code |-> 0,
        result |-> state.result
                     \o Utf8(IF IsLow(unit) THEN state.code + (unit % 1024) ELSE unit)]

\* The locals of utf16_to_string after k units.
Printed16(units) ==
  LET after[k \in 0 .. Len(units)] ==
        IF k = 0 THEN [code |-> 0, result |-> <<>>] ELSE NextUnit(after[k - 1], units[k])
  IN  after

utf16_to_string(units) == Printed16(units)[Len(units)].result

Printed32(codes) ==
  LET after[k \in 0 .. Len(codes)] ==
        IF k = 0 THEN <<>> ELSE after[k - 1] \o Utf8(codes[k])
  IN  after

utf32_to_string(codes) == Printed32(codes)[Len(codes)]

-----------------------------------------------------------------------------
\* Reference: the code points that UTF-16 units and UTF-8 bytes stand for.

WellFormed(units) ==
  \A i \in DOMAIN units :
    /\ IsHigh(units[i]) => i < Len(units) /\ IsLow(units[i + 1])
    /\ IsLow(units[i]) => i > 1 /\ IsHigh(units[i - 1])

\* The code point of a surrogate pair.
Supplementary(high, low) == 65536 + (high - 55296) * 1024 + (low - 56320)

\* The code points of the first k units, a high surrogate waiting for the next.
Decoded16(units) ==
  LET codes[k \in 0 .. Len(units)] ==
        IF k = 0 THEN <<>>
        ELSE IF IsHigh(units[k]) THEN codes[k - 1]
        ELSE Append(codes[k - 1],
                    IF IsLow(units[k]) THEN Supplementary(units[k - 1], units[k]) ELSE units[k])
  IN  codes
DecodeUtf16(units) == Decoded16(units)[Len(units)]

\* The bytes that follow the first one of a character, and the bits that has.
Following(byte) ==
  CASE byte < 128 -> 0 [] byte \div 32 = 6 -> 1 [] byte \div 16 = 14 -> 2
    [] byte \div 8 = 30 -> 3 [] OTHER -> -1
LeadBits(byte) ==
  CASE byte < 128 -> byte [] byte \div 32 = 6 -> byte % 32 [] byte \div 16 = 14 -> byte % 16
    [] OTHER -> byte % 8

\* The code points in the first k bytes: those that are complete, and of the one
\* that is not its bits so far and how many bytes are missing, a negative number
\* from the first malformed byte on.
Taken(codes, bits, more) ==
  IF more = 0 THEN [codes |-> Append(codes, bits), bits |-> 0, more |-> 0]
  ELSE [codes |-> codes, bits |-> bits, more |-> more]
NextByte(state, byte) ==
  IF state.more = 0 THEN Taken(state.codes, LeadBits(byte), Following(byte))
  ELSE IF byte \div 64 = 2 THEN Taken(state.codes, state.bits * 64 + (byte % 64), state.more - 1)
  ELSE [state EXCEPT !.more = -1]
Decoded8(bytes) ==
  LET after[k \in 0 .. Len(bytes)] ==
        IF k = 0 THEN [codes |-> <<>>, bits |-> 0, more |-> 0]
        ELSE NextByte(after[k - 1], bytes[k])
  IN  after

\* bytes is the UTF-8 text of codes.
IsUtf8Of(bytes, codes) ==
  Decoded8(bytes)[Len(bytes)] = [codes |-> codes, bits |-> 0, more |-> 0]
=============================================================================
