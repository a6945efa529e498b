------------------------------ MODULE CrexText ------------------------------
(***************************************************************************)
(* How one value is laid out in the characters of a CREX message, and what *)
(* the characters mean: CrexOutput::append_* and CrexInput (buffers/crex.cc). *)
(*                                                                         *)
(* A text is a sequence of characters, which are strings of one.  A value  *)
(* is the integer that Var stores, a sequence of characters, or Unset.     *)
(***************************************************************************)
EXTENDS Fields, FiniteSetsExt, SequencesExt

Digits == <<"0", "1", "2", "3", "4", "5", "6", "7", "8", "9">>
DigitChars == {Digits[i] : i \in 1..10}
IsDigit(c) == c \in DigitChars
IsSpace(c) == c \in {" ", "cr", "lf"}
DigitOf(c) == (CHOOSE i \in 1..10 : Digits[i] = c) - 1

EndOfLine == <<"cr", "cr", "lf">>
Terminator == <<"7", "7", "7", "7">>

Repeated(c, n) == [i \in 1..n |-> c]

----------------------------------------------------------------------------
(* Writing *)

(* The last n digits of a number, which has no more. *)
DigitsOf(number, n) ==
  [i \in 1..n |-> Digits[((number \div 10^(n - i)) % 10) + 1]]

(* "%0*d", one place wider for the sign. *)
Number(len, val) ==
  (IF val < 0 THEN <<"-">> ELSE <<>>) \o DigitsOf(Magnitude(val), len)

(* "%-*.*s" *)
Padded(len, val) ==
  IF Len(val) >= len THEN SubSeq(val, 1, len)
  ELSE val \o Repeated(" ", len - Len(val))

Missing(info) == Repeated("/", info.len)

ValueText(info, val) ==
  CASE val = Unset          -> Missing(info)
    [] info.type = "String" -> Padded(info.len, val)
    [] OTHER                -> Number(info.len, val)

----------------------------------------------------------------------------
(* Reading.  Positions count from 1: the end of text is Len(text) + 1. *)

Available(text, p, n) == p + n <= Len(text) + 1
Eof(text, p) == p > Len(text)

(* A zero ends the text. *)
CharAt(text, p) == IF p \in DOMAIN text THEN text[p] ELSE "nul"

Looks(text, p, word) ==
  Available(text, p, Len(word)) /\ SubSeq(text, p, p + Len(word) - 1) = word

(* The first position from p on that has no space: skip_spaces. *)
AfterSpaces(text, p) ==
  LET from[i \in Nat] == IF IsSpace(CharAt(text, i)) THEN from[i + 1] ELSE i
  IN from[p]

AfterDigits(text, p) ==
  LET from[i \in Nat] == IF IsDigit(CharAt(text, i)) THEN from[i + 1] ELSE i
  IN from[p]

(* Mutant: the sign is passed over. *)
NumberWithoutSign(text, p) ==
  LET a == AfterSpaces(text, p)
      b == IF CharAt(text, a) \in {"-", "+"} THEN a + 1 ELSE a
  IN FoldLeft(LAMBDA acc, d : 10 * acc + DigitOf(d), 0,
              SubSeq(text, b, AfterDigits(text, b) - 1))

(* strtol from p on: it skips spaces, takes a sign, and stops where the digits
   do, wherever the value was to end. *)
NumberAt(text, p) ==
  LET a == AfterSpaces(text, p)
      b == IF CharAt(text, a) \in {"-", "+"} THEN a + 1 ELSE a
      n == FoldLeft(LAMBDA acc, d : 10 * acc + DigitOf(d), 0,
                    SubSeq(text, b, AfterDigits(text, b) - 1))
  IN IF CharAt(text, a) = "-" THEN -n ELSE n

(* The characters from a to b - 1 without the spaces at their end. *)
Trimmed(text, a, b) ==
  LET solid == {i \in a..(b - 1) : ~IsSpace(text[i])}
  IN SubSeq(text, a, IF solid = {} THEN a - 1 ELSE Max(solid))

============================================================================
