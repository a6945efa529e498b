------------------------------- MODULE Fields -------------------------------
(***************************************************************************)
(* How one value is laid out in the bits of a BUFR data section, and what  *)
(* the bits mean: Input::decode_* and BufrOutput::append_*, _Varinfo's     *)
(* binary coding, the associated fields of C04 and the reference values of *)
(* C03.                                                                    *)
(*                                                                         *)
(* A descriptor, or Varcode, is a tuple <<f, x, y>>.  The bits of a field  *)
(* are read as one unsigned number.  A value is the integer that Var       *)
(* stores, the measure times 10^scale, or Unset.  A string, an opaque      *)
(* binary and characters stand for the number that their bytes make; the   *)
(* padding of strings is left out.                                         *)
(***************************************************************************)
EXTENDS Integers, Sequences

CONSTANT Unset   (* the value of a Var whose m_isset is false              *)

Code == (0..3) \X Nat \X Nat

(* What the code uses of _Varinfo.  Decimals are integers with a scale. *)
Varinfo == [code : Code, type : {"Integer", "String", "Binary"},
            scale : Int, bit_ref : Int, bit_len : Nat]

AllOnes(w) == 2^w - 1

----------------------------------------------------------------------------
(* Decoding *)

(* Replication factors: all bits set to one is a count like any other. *)
NeverMissing == {<<0, 31, y>> : y \in {0, 1, 2, 11, 12}}

DecodeNumber(info, raw) ==
  IF raw = AllOnes(info.bit_len) /\ info.code \notin NeverMissing
    THEN Unset ELSE raw + info.bit_ref

(* Only whole bytes compare equal to 255. *)
AllBytesOnes(info, raw) == raw = AllOnes(info.bit_len) /\ info.bit_len % 8 = 0

(* A string is missing when each of its bytes is 0 or 255: here, when all of
   them are the one or the other. *)
DecodeString(info, raw) ==
  IF raw = 0 \/ AllBytesOnes(info, raw) THEN Unset ELSE raw

DecodeBinary(info, raw) == IF AllBytesOnes(info, raw) THEN Unset ELSE raw

DecodeValue(info, raw) ==
  CASE info.type = "String"  -> DecodeString(info, raw)
    [] info.type = "Binary"  -> DecodeBinary(info, raw)
    [] info.type = "Integer" -> DecodeNumber(info, raw)

(* C03: the first bit is a sign. *)
DecodeRefval(bits, raw) ==
  LET sign_bit == 2^(bits - 1)
  IN IF raw >= sign_bit THEN -(raw - sign_bit) ELSE raw

----------------------------------------------------------------------------
(* Encoding *)

(* Mutant: a missing value cannot be encoded. *)
EncodableIfSet(info, val) ==
  /\ val # Unset
  /\ info.type = "Integer" => val >= info.bit_ref

(* encode_binary throws for a value below the reference value. *)
Encodable(info, val) ==
  val # Unset /\ info.type = "Integer" => val >= info.bit_ref

(* add_bits writes the low bits of what it is given; append_string writes zeros
   when less than a byte is left. *)
(* Mutant: the reference value is forgotten. *)
EncodeNumberUnreferenced(info, val) == val

EncodeNumber(info, val) == (val - info.bit_ref) % 2^info.bit_len

EncodeString(info, val) == val - (val % 2^(info.bit_len % 8))

EncodeValue(info, val) ==
  CASE val = Unset           -> AllOnes(info.bit_len)
    [] info.type = "Integer" -> EncodeNumber(info, val)
    [] info.type = "String"  -> EncodeString(info, val)
    [] info.type = "Binary"  -> val

Magnitude(n) == IF n < 0 THEN -n ELSE n

(* Whether the encoder takes a reference value of the given width to fit: its
   bits, and one for the sign.  The bits of zero are what __builtin_clz(0) makes
   them, which is not defined. *)
RefvalFits(bits, ref) ==
  IF ref = 0 THEN BOOLEAN ELSE {Magnitude(ref) < 2^(bits - 1)}

EncodeRefval(bits, ref) ==
  IF ref < 0 THEN Magnitude(ref) + 2^(bits - 1) ELSE ref

----------------------------------------------------------------------------
(* Associated fields (bulletin/associated_fields.cc).  field is a record with
   the bit_count, significance and skip_missing of AssociatedField. *)

(* The attribute that holds the associated field, for the significances that
   have one. *)
AttributeOf ==
  [s \in {1, 2, 6, 7, 8, 21} |->
     CASE s \in {1, 8} -> <<0, 33, 2>>
       [] s = 2  -> <<0, 33, 3>>
       [] s = 6  -> <<0, 33, 50>>
       [] s = 7  -> <<0, 33, 40>>
       [] s = 21 -> <<0, 33, 41>>]

(* Reserved and missing significances are ignored; zero is not supported. *)
Supported(field) == field.significance \in 1..63

MakesAttribute(field, raw) ==
  /\ field.significance \in DOMAIN AttributeOf
  /\ ~ /\ raw = AllOnes(field.bit_count)
       /\ field.significance \in {6, 8, 21}
       /\ field.skip_missing

(* make_attribute gives B33041 the value 0, whatever the field holds. *)
AttributeValue(field, raw) ==
  CASE field.significance = 21 -> 0
    [] raw = AllOnes(field.bit_count) -> Unset
    [] OTHER -> raw

(* Setting the attribute throws when the value is out of its domain. *)
InDomain(info, val) ==
  val = Unset \/ val - info.bit_ref \in 0..(AllOnes(info.bit_len) - 1)

============================================================================
