------------------------------ MODULE Varinfos ------------------------------
(***************************************************************************)
(* What a variable may hold: the type, the storage length and the range of *)
(* a _Varinfo, as set_bufr and set_crex compute them, and the rounding     *)
(* between the measure of a variable and the integer that it stores.       *)
(*                                                                         *)
(* An int has WordBits bits and wraps as the machine's do.  A double is    *)
(* the integer that counts its units of 10^-Places, or NaN: that doubles   *)
(* are not exact is left out.                                              *)
(***************************************************************************)
EXTENDS Integers, Sequences, FiniteSets

CONSTANTS
  WordBits,  (* 32 in the code *)
  Places,    (* decimals of a double *)
  NaN

ASSUME WidthsAssumption ==
  /\ WordBits \in Nat \ {0} /\ 2^WordBits > 0 /\ 2^WordBits = 2 * 2^(WordBits - 1)
  /\ Places \in Nat /\ 10^Places > 0
  /\ NaN \notin Int

IntMax == 2^(WordBits - 1) - 1
IntMin == -IntMax - 1

Unsigned(n) == n % 2^WordBits
Signed(n) ==
  IF Unsigned(n) > IntMax THEN Unsigned(n) - 2^WordBits ELSE Unsigned(n)

Abs(n) == IF n < 0 THEN -n ELSE n
Larger(a, b) == IF a > b THEN a ELSE b

CountDigits(n) == 1 + Cardinality({d \in 1..(WordBits - 1) : n >= 10^d})

----------------------------------------------------------------------------
(* Ranges *)

IsText(type) == type \in {"String", "Binary"}

TypeFor(unit, scale) ==
  CASE unit \in {"CCITTIA5", "CHARACTER"} -> "String"
    [] unit \notin {"CCITTIA5", "CHARACTER"} /\ scale # 0 -> "Decimal"
    [] OTHER -> "Integer"

Info(code, unit, type, scale, len, bit_len, range) ==
  [code |-> code, unit |-> unit, type |-> type, scale |-> scale, len |-> len,
   bit_len |-> bit_len, imin |-> range[1], imax |-> range[2]]

TextInfo(code, unit, type, scale, bit_len) ==
  Info(code, unit, type, scale, (bit_len + 7) \div 8, bit_len, <<0, 0>>)

IsFactor(code) == code[2] = 31

(* The largest field: all ones is missing, save for replication factors.  The
   shift is not defined from WordBits on. *)
Maxval(code, bit_len) ==
  LET ones == IF bit_len < WordBits THEN {2^bit_len - 1} ELSE 0..(2^WordBits - 1)
  IN {Unsigned(IF IsFactor(code) THEN m ELSE m - 1) : m \in ones}

(* set_bufr throws when the largest value is not an int. *)
FitsInt(bit_len, bit_ref, maxval) ==
  bit_ref > 0 => /\ bit_len # WordBits - 1
                 /\ Unsigned(IntMax - 1 - maxval) >= bit_ref

StorageDigits(bit_len, bit_ref, maxval, imax) ==
  CASE bit_ref = 0 -> IF bit_len = 1 THEN 1 ELSE CountDigits(maxval)
    [] bit_ref # 0 -> Larger(CountDigits(Abs(bit_ref)), CountDigits(Abs(imax)))

(* The infos that set_bufr makes: none when it throws. *)
SetBufr(code, unit, bit_len, bit_ref, scale) ==
  IF IsText(TypeFor(unit, scale))
    THEN {TextInfo(code, unit, TypeFor(unit, scale), scale, bit_len)}
    ELSE {LET imax == Signed(maxval + bit_ref)
          IN Info(code, unit, TypeFor(unit, scale), scale,
                  StorageDigits(bit_len, bit_ref, maxval, imax), bit_len,
                  <<bit_ref, imax>>) :
            maxval \in {m \in Maxval(code, bit_len) : FitsInt(bit_len, bit_ref, m)}}

SetString(code, len) == TextInfo(code, "CCITTIA5", "String", 0, len * 8)
SetBinary(code, bit_len) == TextInfo(code, "UNKNOWN", "Binary", 0, bit_len)

(* Ten digits are more than an int of 32 bits has. *)
SetCrex(code, unit, len, scale) ==
  LET type == TypeFor(unit, scale)
      range == CASE IsText(type) -> <<0, 0>>
                 [] ~IsText(type) /\ len >= CountDigits(IntMax) -> <<IntMin, IntMax>>
                 [] OTHER -> <<-(10^len - 1), 10^len - 2>>
  IN Info(code, unit, type, scale, len, 0, range)

----------------------------------------------------------------------------
(* Measures *)

Step(info) == 10^(Places - info.scale)

(* decode_decimal: the double that a stored integer stands for. *)
Measure(info, n) == n * Step(info)

(* rint: halves go to the even neighbour. *)
Rint(d, unit) ==
  LET below == d \div unit
      rest == 2 * (d % unit)
  IN IF rest > unit \/ (rest = unit /\ below % 2 = 1) THEN below + 1 ELSE below

EncodeDecimal(info, d) == Rint(d, Step(info))

(* lround: halves go away from zero. *)
Lround(d) ==
  LET up == (2 * Abs(d) + 10^Places) \div (2 * 10^Places)
  IN IF d < 0 THEN -up ELSE up

----------------------------------------------------------------------------
(* The range of an info is what its fields can hold, and no number in it has
   more digits than the info has. *)
RangeIsCodable(info, bit_ref) ==
  LET last == IF IsFactor(info.code) THEN 2^info.bit_len - 1 ELSE 2^info.bit_len - 2
  IN /\ info.imin..info.imax = {raw + bit_ref : raw \in 0..last}
     /\ info.imin..info.imax \subseteq IntMin..IntMax
     /\ \A n \in info.imin..info.imax : CountDigits(Abs(n)) <= info.len

(* What is stored comes back from the measure it stands for. *)
MeasuresComeBack(info) ==
  \A n \in info.imin..info.imax : EncodeDecimal(info, Measure(info, n)) = n
=============================================================================
