----------------------------- MODULE Transcode -----------------------------
(***************************************************************************)
(* One subset of an uncompressed BUFR message is decoded, perhaps changed, *)
(* validated, printed, encoded again, and decoded from what was encoded:   *)
(* DataSectionDecoder with UncompressedDecoderTarget (bufr/decoder.cc),    *)
(* DDSValidator, DDSPrinter (bulletin/dds-*.cc), DDSEncoder                *)
(* (bufr_encoder.cc) and again the decoder, each a run of the interpreter  *)
(* over the same descriptors.                                              *)
(*                                                                         *)
(* The decoder and the encoder meet only in the bits: nothing in a message *)
(* says where a field ends, so both must take the same decisions in the    *)
(* same order.  A field is a record of its width and its bits.             *)
(***************************************************************************)
EXTENDS Interpreter, FiniteSetsExt

CONSTANTS
  Bulletins,     (* data descriptor sections to transcode, each with a value of
                    AssociatedField::skip_missing                          *)
  Exact,         (* those of the sections without strings, where zeros and missing
                    values are not told apart, and where no attribute is given
                    twice                                                  *)
  Editable,      (* those of the sections whose subsets are also changed   *)
  Built,         (* sections, each with the first variables of a subset that
                    the program makes of itself                            *)
  Significances, (* Bound: values read for B31021                          *)
  Refvals,       (* Bound: bits of the reference values read under C03     *)
  MaxCount,      (* Bound: replication factors and bitmap sizes read       *)
  MaxVars, MaxBits, NoBitmap   (* of Bitmaps.tla                           *)

VARIABLES
  phase,         (* which interpreter runs: one of Visitors, "decode",
                    "encode", "redecode", or "done"                        *)
  datadesc, skip_missing,
  edited,        (* the subset was changed after it was decoded            *)
  result,        (* how each of Visitors ended: "none", "whole", "failed"  *)
  input,         (* history: fields read by the first decoding             *)
  written,       (* fields written by the encoder                          *)
  pos,           (* fields of written that the second decoding has read    *)
  misread,       (* the second decoding read a field of another width      *)
  decoded, redecoded,   (* the subset, and the one decoded again           *)
  cursor,        (* current_var of the encoder                             *)
  bitmap_code,   (* the value of pending_definitions, when not zero        *)
  bitmap_table,  (* Tables::bitmap_table: bits to descriptors              *)
  unknown_table, (* Tables::unknown_table: widths to descriptors           *)
  pending, current, last, live, defined, served,   (* see Bitmaps.tla      *)
  status         (* "run", "error" or "undefined", as in Bitmaps.tla       *)

interpreter == <<stack, mods, refvals, field>>
bitmaps == <<pending, current, last, live, defined, served>>
tables == <<bitmap_table, unknown_table>>
bits_io == <<input, written, pos, misread>>
subsets == <<decoded, redecoded, cursor>>
job == <<phase, datadesc, skip_missing, edited, result>>
vars == <<interpreter, bitmaps, bitmap_code, tables, bits_io, subsets, job,
          status>>

(* A Var of a subset.  bits is the value of a bitmap; the other kinds have
   their value in val.  attrs is a function from descriptors to values. *)
NoAttrs == [c \in {} |-> Unset]
NewVar(info, val) ==
  [code |-> info.code, info |-> info, val |-> val, bits |-> <<>>,
   attrs |-> NoAttrs]

WithAttr(var, code, val) ==
  [var EXCEPT !.attrs = [c \in (DOMAIN @) \cup {code} |->
                           IF c = code THEN val ELSE @[c]]]

(* The interpreters that neither make a subset nor a message. *)
Visitors == {"print", "scan", "validate", "dump"}

(* UncompressedEncoder: the variables of a subset are visited in their order. *)
Encoding == phase \in {"validate", "dump", "encode"}

(* The subset that the decoder under way fills, or the encoder reads. *)
Subset == IF phase = "redecode" THEN redecoded ELSE decoded

KindOf(var) == IF var.code[1] = 0 THEN "B" ELSE "C"

(* The kinds of the variables that the interpreter has gone through. *)
KindsSoFar ==
  [i \in 1..(IF Encoding THEN cursor ELSE Len(Subset)) |->
     KindOf(Subset[i])]

BM == INSTANCE Bitmaps WITH subset <- KindsSoFar

Running == status = "run" /\ phase \notin {"print", "scan", "done"}

----------------------------------------------------------------------------
(* Reading.  The bits that the first decoding may find: counts and
   significances in their bounds; otherwise the least and the greatest number,
   or some text, and what stands for a missing value. *)
Text(w) == 2^(w - 2) + 1

MayHold(info) ==
  LET top == AllOnes(info.bit_len)
  IN CASE info.code \in NeverMissing -> (0..MaxCount) \cap (0..top)
       [] info.code = <<0, 31, 21>> -> Significances
       [] info.type = "String" -> {0, Text(info.bit_len), top}
       [] OTHER -> {0, top - 1, top}

(* What field i from here may hold, if the first decoding finds one of choices. *)
Bits(i, choices) ==
  IF phase = "decode" THEN choices
  ELSE IF pos + i <= Len(written) THEN {written[pos + i].bits} ELSE {0}

(* Fields of these widths hold these bits. *)
Take(widths, contents) ==
  LET fields == [i \in DOMAIN widths |-> [width |-> widths[i], bits |-> contents[i]]]
      n      == Len(widths)
  IN IF phase = "decode"
       THEN input' = input \o fields /\ UNCHANGED <<written, pos, misread>>
       ELSE /\ pos' = pos + n
            /\ misread' = (misread \/ pos + n > Len(written)
                             \/ fields # SubSeq(written, pos + 1, pos + n))
            /\ UNCHANGED <<input, written>>

(* The variables of the subset become vs. *)
SetSubset(vs) ==
  IF phase = "decode"
    THEN decoded' = vs /\ UNCHANGED <<redecoded, cursor>>
    ELSE redecoded' = vs /\ UNCHANGED <<decoded, cursor>>

(* Writing. *)
Put(fields) ==
  /\ written' = IF phase = "encode" THEN written \o fields ELSE written
  /\ UNCHANGED <<input, pos, misread>>

Bitfield(info, val) ==
  [width |-> info.bit_len, bits |-> EncodeValue(info, val)]

(* Mutant: all bits set to one are missing, for every descriptor. *)
FitsUnlessOnes(info, val) ==
  val # Unset /\ info.type = "Integer" =>
    val - info.bit_ref \in 0..(AllOnes(info.bit_len) - 1)

(* check_fits, but for the descriptor. *)
Fits(info, val) ==
  val # Unset /\ info.type = "Integer" =>
    val - info.bit_ref \in 0..AllOnes(info.bit_len)

(* encode_var: what DDSValidator checks is not what DDSEncoder does. *)
Accepts(info, val) ==
  CASE phase = "validate" -> Fits(info, val)
    [] phase = "dump"     -> TRUE
    [] phase = "encode"   -> Encodable(info, val)

AcceptsVar(info, var) ==
  /\ phase = "validate" => var.code = info.code
  /\ Accepts(info, var.val)

(* get_var() has one more variable to give. *)
HasVar == cursor < Len(decoded)
Var == decoded[cursor + 1]
PassVar == cursor' = cursor + 1 /\ UNCHANGED <<decoded, redecoded>>

----------------------------------------------------------------------------
(* An exception ends everything, but for a visitor, whose caller goes on. *)
Throw ==
  IF phase \in Visitors
    THEN /\ result' = [result EXCEPT ![phase] = "failed"]
         /\ stack' = <<>>
         /\ UNCHANGED <<mods, refvals, field, bitmaps, bitmap_code, tables, bits_io,
                        subsets, phase, datadesc, skip_missing, edited, status>>
    ELSE /\ status' = "error"
         /\ UNCHANGED <<interpreter, bitmaps, bitmap_code, tables, bits_io, subsets,
                        job>>

(* run() goes on with the descriptors ops. *)
GoOn(ops) ==
  stack' = Continue(ops) /\ UNCHANGED <<mods, refvals, field, bitmap_code>>

(* The decoder stores var, read from fields of these widths and contents. *)
DecodeVar(var, widths, contents, ops) ==
  /\ Take(widths, contents)
  /\ SetSubset(Append(Subset, var))
  /\ UNCHANGED job
  /\ GoOn(ops)
  /\ BM!Store(KindOf(var))

(* The encoder writes fields for Var and goes on to the next one. *)
EncodeVar(fields, ops) ==
  /\ Put(fields)
  /\ PassVar
  /\ UNCHANGED job
  /\ GoOn(ops)
  /\ BM!Store(KindOf(Var))

(* define_variable; ops are the descriptors to go on with. *)
DefineVariable(info, ops) ==
  IF Encoding
    THEN IF HasVar /\ AcceptsVar(info, Var)
           THEN EncodeVar(<<Bitfield(info, Var.val)>>, ops)
           ELSE Throw
    ELSE \E raw \in Bits(1, MayHold(info)) :
           DecodeVar(NewVar(info, DecodeValue(info, raw)), <<info.bit_len>>,
                     <<raw>>, ops)

(* define_variable_with_associated_field. *)
DecodeWithField(info, af, raw, ops) ==
  LET var    == NewVar(info, DecodeValue(info, raw))
      val    == AttributeValue(field, af)
      code   == AttributeOf[field.significance]
      widths == <<field.bit_count, info.bit_len>>
  IN IF ~MakesAttribute(field, af)
       THEN DecodeVar(var, widths, <<af, raw>>, ops)
     ELSE IF InDomain(BTable[code], val)
       THEN DecodeVar(WithAttr(var, code, val), widths, <<af, raw>>, ops)
     ELSE Throw

(* Mutant: a missing associated field is written as zero. *)
FieldBitsOfOrZero(var) ==
  LET code == AttributeOf[field.significance]
  IN IF /\ field.significance \in DOMAIN AttributeOf
        /\ code \in DOMAIN var.attrs
        /\ var.attrs[code] # Unset
       THEN var.attrs[code] % 2^field.bit_count
       ELSE 0

(* The bits of the associated field of var, from its attribute. *)
FieldBitsOf(var) ==
  LET code == AttributeOf[field.significance]
  IN IF /\ field.significance \in DOMAIN AttributeOf
        /\ code \in DOMAIN var.attrs
        /\ var.attrs[code] # Unset
       THEN var.attrs[code] % 2^field.bit_count
       ELSE AllOnes(field.bit_count)

(* Mutant: the associated field is left out when there is no attribute for it. *)
EncodeWithFieldIfAny(info, ops) ==
  LET af == [width |-> field.bit_count, bits |-> FieldBitsOf(Var)]
  IN EncodeVar((IF af.bits = AllOnes(af.width) THEN <<>> ELSE <<af>>)
                 \o <<Bitfield(info, Var.val)>>, ops)

EncodeWithField(info, ops) ==
  EncodeVar(<<[width |-> field.bit_count, bits |-> FieldBitsOf(Var)],
              Bitfield(info, Var.val)>>, ops)

FieldMayHold ==
  LET top == AllOnes(field.bit_count) IN {0, 1, top - 1, top}

(* DDSValidator does not look at associated fields. *)
DefineVariableWithField(info, ops) ==
  IF ~Supported(field) /\ phase # "validate" THEN Throw
  ELSE IF Encoding
    THEN IF HasVar /\ AcceptsVar(info, Var)
           THEN EncodeWithField(info, ops)
           ELSE Throw
    ELSE \E af \in Bits(1, FieldMayHold),
            raw \in Bits(2, MayHold(info)) : DecodeWithField(info, af, raw, ops)

----------------------------------------------------------------------------
(* A value for the variable at position p: a class 33 element or a substituted
   value becomes an attribute, unless it is missing. *)
DecodeAttribute(info, p, raw) ==
  LET val == DecodeValue(info, raw)
  IN /\ Take(<<info.bit_len>>, <<raw>>)
     /\ SetSubset(IF val = Unset THEN Subset
                  ELSE [Subset EXCEPT ![p] = WithAttr(@, info.code, val)])

AttributeOrMissing(code, p) ==
  LET attrs == decoded[p].attrs
  IN IF code \in DOMAIN attrs THEN attrs[code] ELSE Unset

(* define_attribute and define_substituted_value, with the position that
   Bitmaps::next() returns. *)
DefineAttribute(info, ops) ==
  LET p   == Min(current.left)
      val == AttributeOrMissing(info.code, p)
  IN IF Encoding
       THEN IF Accepts(info, val)
              THEN /\ Put(<<Bitfield(info, val)>>)
                   /\ UNCHANGED <<subsets, job>>
                   /\ GoOn(ops)
                   /\ BM!NextRef
              ELSE Throw
       ELSE \E raw \in Bits(1, MayHold(info)) :
              /\ DecodeAttribute(info, p, raw)
              /\ UNCHANGED job
              /\ GoOn(ops)
              /\ BM!NextRef

(* A bitmap without data present: next() has no defined outcome. *)
PastEnd ==
  /\ UNCHANGED <<interpreter, bitmap_code, tables, bits_io, subsets, job>>
  /\ BM!NextPastEnd

Active == current # NoBitmap

----------------------------------------------------------------------------
(* The steps of run(): each takes the descriptor Cur, and those that it pops
   after it. *)

At(f) == Running /\ AtDescriptor /\ Cur[1] = f
Modifier(x) == At(2) /\ Cur[2] = x
X == Cur[2]
Y == Cur[3]

(* define_c03_refval_override: while C03 is in force a descriptor stands for a
   reference value.  The encoder takes it from the first variable of the
   subset that has the descriptor; DDSPrinter has no such function. *)
PositionsOf(code) == {i \in DOMAIN decoded : decoded[i].code = code}

(* Mutant: the subset is not searched. *)
RefvalToEncodeOfTable(code) == BTable[code].bit_ref

RefvalToEncode(code) ==
  LET same == PositionsOf(code)
  IN IF same = {} THEN BTable[code].bit_ref ELSE decoded[Min(same)].info.bit_ref

Override(ref) ==
  /\ refvals' = [c \in (DOMAIN refvals) \cup {Cur} |->
                   IF c = Cur THEN ref ELSE refvals[c]]
  /\ stack' = Continue(Rest)
  /\ UNCHANGED <<mods, field, bitmaps, bitmap_code, tables, subsets, job, status>>

DefineRefval ==
  /\ At(0) /\ mods.refval_bits # 0
  /\ LET bits == mods.refval_bits
         ref  == RefvalToEncode(Cur)
     IN IF \/ phase = "dump"
           \/ Encoding /\ PositionsOf(Cur) = {} /\ Cur \notin DOMAIN BTable
          THEN Throw
        ELSE IF Encoding
          THEN \E fits \in RefvalFits(bits, ref) :
                 IF fits
                   THEN /\ Put(<<[width |-> bits, bits |-> EncodeRefval(bits, ref)]>>)
                        /\ Override(ref)
                   ELSE Throw
          ELSE \E raw \in Bits(1, Refvals) :
                 /\ Take(<<bits>>, <<raw>>)
                 /\ Override(DecodeRefval(bits, raw))

(* b_variable: a class 33 element under a bitmap is an attribute; others are
   variables of the subset. *)
BVariable ==
  /\ At(0) /\ mods.refval_bits = 0
  /\ UNCHANGED tables
  /\ LET info == GetVarinfo(Cur)
     IN IF ~Resolves(Cur) THEN Throw
        ELSE IF X = 33 /\ Active
          THEN IF current.left = {} THEN PastEnd ELSE DefineAttribute(info, Rest)
        ELSE IF field.bit_count # 0 THEN DefineVariableWithField(info, Rest)
        ELSE DefineVariable(info, Rest)

(* C01, C02, C03, C07 and C08. *)
CModifier ==
  /\ At(2) /\ X \in {1, 2, 3, 7, 8}
  /\ mods' = SetModifier(X, Y)
  /\ stack' = Continue(Rest)
  /\ UNCHANGED <<refvals, field, bitmaps, bitmap_code, tables, bits_io, subsets, job, status>>

(* C04 with Y not zero reads the significance of the associated fields. *)
BeginField(var, ops) ==
  /\ stack' = Continue(ops)
  /\ field' = [field EXCEPT !.bit_count = Y,
                            !.significance = IF var.val = Unset THEN 63 ELSE var.val]
  /\ UNCHANGED <<mods, refvals, bitmap_code, tables, job>>
  /\ BM!Store("B")

AssociatedField ==
  /\ Modifier(4) /\ Y # 0
  /\ LET info == BTable[<<0, 31, 21>>]
     IN IF \/ field.bit_count # 0
           \/ Y > 32
           \/ Rest = <<>> \/ Head(Rest) # <<0, 31, 21>>
          THEN Throw
        ELSE IF Encoding
          THEN IF HasVar /\ AcceptsVar(info, Var)
                 THEN /\ Put(<<Bitfield(info, Var.val)>>)
                      /\ PassVar
                      /\ BeginField(Var, Tail(Rest))
                 ELSE Throw
          ELSE \E raw \in Bits(1, MayHold(info)) :
                 LET var == NewVar(info, DecodeValue(info, raw))
                 IN /\ Take(<<info.bit_len>>, <<raw>>)
                    /\ SetSubset(Append(Subset, var))
                    /\ BeginField(var, Tail(Rest))

EndField ==
  /\ Modifier(4) /\ Y = 0
  /\ field' = [field EXCEPT !.bit_count = 0]
  /\ stack' = Continue(Rest)
  /\ UNCHANGED <<mods, refvals, bitmaps, bitmap_code, tables, bits_io, subsets, job, status>>

(* define_raw_character_data. *)
CharData ==
  /\ Modifier(5)
  /\ UNCHANGED tables
  /\ LET info == [code |-> Cur, type |-> "String", scale |-> 0, bit_ref |-> 0,
                  bit_len |-> Y * 8]
     IN IF Encoding
          THEN IF HasVar /\ (phase = "validate" => Var.code = Cur)
                 THEN EncodeVar(<<[width |-> info.bit_len, bits |-> Var.val]>>, Rest)
                 ELSE Throw
          ELSE \E raw \in Bits(1, {Text(info.bit_len), AllOnes(info.bit_len)}) :
                 DecodeVar(NewVar(info, raw), <<info.bit_len>>, <<raw>>, Rest)

(* C06: a descriptor whose width is Y is a variable as usual, others are opaque.
   Tables::get_unknown knows an opaque descriptor by its width alone. *)
Opaque(code) ==
  [code |-> code, type |-> "Binary", scale |-> 0, bit_ref |-> 0, bit_len |-> Y]

UnknownClash(code) ==
  Y \in DOMAIN unknown_table /\ unknown_table[Y] # code

LocalDescriptor ==
  /\ Modifier(6)
  /\ LET code == Head(Rest)
         ops  == Tail(Rest)
     IN IF Rest = <<>> THEN Throw
        ELSE IF Y = 0
          THEN /\ GoOn(ops)
               /\ UNCHANGED <<bitmaps, tables, bits_io, subsets, job, status>>
        ELSE IF code \in DOMAIN BTable /\ ~Resolves(code) THEN Throw
        ELSE IF code \in DOMAIN BTable /\ GetVarinfo(code).bit_len = Y
          THEN UNCHANGED tables /\ DefineVariable(GetVarinfo(code), ops)
        ELSE IF UnknownClash(code) \/ (Encoding /\ ~HasVar) THEN Throw
        ELSE /\ DefineVariable(Opaque(code), ops)
             /\ unknown_table' = [w \in (DOMAIN unknown_table) \cup {Y} |->
                                   IF w = Y THEN code ELSE unknown_table[w]]
             /\ UNCHANGED bitmap_table

----------------------------------------------------------------------------
(* C22000 and C23000. *)
ExpectBitmap ==
  /\ \/ Modifier(22) /\ Y = 0
     \/ Modifier(23) /\ Y = 0
  /\ bitmap_code' = Cur
  /\ stack' = Continue(Rest)
  /\ UNCHANGED <<mods, refvals, field, tables, bits_io, subsets, job>>
  /\ BM!ExpectBitmap

(* C23255: the value that replaces the variable the bitmap refers to, laid out
   as that variable is. *)
Substituted ==
  /\ Modifier(23) /\ Y = 255
  /\ UNCHANGED tables
  /\ IF ~Active THEN Throw
     ELSE IF current.left = {} THEN PastEnd
     ELSE DefineAttribute(Subset[Min(current.left)].info, Rest)

ReuseBitmap ==
  /\ Modifier(37) /\ Y = 0
  /\ GoOn(Rest)
  /\ UNCHANGED <<tables, bits_io, subsets, job>>
  /\ BM!ReuseLast

DiscardBitmap ==
  /\ Modifier(37) /\ Y = 255
  /\ GoOn(Rest)
  /\ UNCHANGED <<tables, bits_io, subsets, job>>
  /\ BM!DiscardLast

(* C36, and what c_modifier logs and ignores. *)
IgnoredModifier ==
  /\ At(2) /\ X \notin (1..8) \cup {22, 23, 37}
  /\ GoOn(Rest)
  /\ UNCHANGED <<bitmaps, tables, bits_io, subsets, job, status>>

BadModifier ==
  /\ \/ Modifier(22) /\ Y # 0
     \/ Modifier(23) /\ Y \notin {0, 255}
     \/ Modifier(37) /\ Y \notin {0, 255}
  /\ Throw

----------------------------------------------------------------------------
(* r_replication: body is visited count times. *)
Repeat(body, count, ops) ==
  /\ stack' = IF count = 0 THEN Continue(ops)
              ELSE Append(Continue(ops), NewFrame(body, count))
  /\ UNCHANGED <<mods, refvals, field, bitmap_code, tables, job>>

FixedReplication(body, ops) ==
  /\ Repeat(body, Y, ops)
  /\ UNCHANGED <<bitmaps, bits_io, subsets, status>>

(* define_delayed_replication_factor. *)
DelayedReplication(info, body, ops) ==
  IF Encoding
    THEN IF HasVar /\ Var.val # Unset /\ AcceptsVar(info, Var)
           THEN /\ Put(<<Bitfield(info, Var.val)>>)
                /\ PassVar
                /\ Repeat(body, Var.val, ops)
                /\ BM!Store("B")
           ELSE Throw
    ELSE \E raw \in Bits(1, MayHold(info)) :
           LET var == NewVar(info, DecodeValue(info, raw))
           IN IF var.val = Unset THEN Throw
              ELSE /\ Take(<<info.bit_len>>, <<raw>>)
                   /\ SetSubset(Append(Subset, var))
                   /\ Repeat(body, var.val, ops)
                   /\ BM!Store("B")

Replication ==
  /\ At(1) /\ ~pending
  /\ LET code  == FactorCode(Rest)
         after == AfterFactor(Y, Rest)
         body  == SubSeq(after, 1, X)
         ops   == SubSeq(after, X + 1, Len(after))
     IN IF X > Len(after) THEN Throw
        ELSE IF ~Delayed(Y) THEN FixedReplication(body, ops)
        ELSE IF code \notin DOMAIN BTable THEN Throw
        ELSE DelayedReplication(BTable[code], body, ops)

(* r_bitmap and define_bitmap.  A bitmap has a bit per field, 0 where data is
   present; its length, when it is not in the descriptor, comes before it and
   is not a variable.  Tables::get_bitmap knows a bitmap by its bits alone. *)
BitFields(bits) == [i \in DOMAIN bits |-> IF bits[i] THEN 0 ELSE 1]
Ones(n) == [i \in 1..n |-> 1]

BitmapClash(bits) ==
  bits \in DOMAIN bitmap_table /\ bitmap_table[bits] # bitmap_code

BitmapVar(bits) ==
  LET info == [code |-> bitmap_code, type |-> "String", scale |-> 0,
               bit_ref |-> 0, bit_len |-> 8 * Len(bits)]
  IN [NewVar(info, Unset) EXCEPT !.bits = bits]

DefineOrThrow(bits) == BM!Define(bits) \/ BM!DefineFails(bits)

(* Bitmaps::define throws in a visitor. *)
VisitorFails(bits) ==
  /\ phase \in Visitors
  /\ ~BM!Constructible(Append(KindsSoFar, "C"), Len(KindsSoFar) + 1, bits)

DecodeBitmap(widths, contents, bits, ops) ==
  IF BitmapClash(bits) THEN Throw
  ELSE /\ Take(widths \o Ones(Len(bits)), contents \o BitFields(bits))
       /\ SetSubset(Append(Subset, BitmapVar(bits)))
       /\ bitmap_table' = [b \in (DOMAIN bitmap_table) \cup {bits} |->
                             IF b = bits THEN bitmap_code ELSE bitmap_table[b]]
       /\ UNCHANGED <<job, unknown_table>>
       /\ GoOn(ops)
       /\ DefineOrThrow(bits)

(* The bits of a bitmap of n bits that follow the first k fields. *)
BitmapsToRead(k, n) ==
  IF phase = "decode" THEN [1..n -> BOOLEAN]
  ELSE {[i \in 1..n |-> Bits(k + i, {}) = {0}]}

EncodeBitmap(fields, ops) ==
  LET bits == Var.bits
  IN IF VisitorFails(bits) THEN Throw
     ELSE
     /\ Put(fields \o [i \in DOMAIN bits |->
                         [width |-> 1, bits |-> BitFields(bits)[i]]])
     /\ PassVar
     /\ UNCHANGED <<job, tables>>
     /\ GoOn(ops)
     /\ DefineOrThrow(bits)

FixedBitmap(ops) ==
  IF Encoding
    THEN IF HasVar /\ Var.code[1] = 2 /\ (phase = "encode" => Len(Var.bits) = Y)
           THEN EncodeBitmap(<<>>, ops)
           ELSE Throw
    ELSE \E bits \in BitmapsToRead(0, Y) : DecodeBitmap(<<>>, <<>>, bits, ops)

DelayedBitmap(info, ops) ==
  IF Encoding
    THEN IF HasVar /\ Accepts(info, Len(Var.bits)) /\ Var.code[1] = 2
           THEN EncodeBitmap(<<Bitfield(info, Len(Var.bits))>>, ops)
           ELSE Throw
    ELSE \E raw \in Bits(1, MayHold(info)) :
           LET count == DecodeValue(info, raw)
           IN IF count = Unset THEN Throw
              ELSE \E bits \in BitmapsToRead(1, count) :
                     DecodeBitmap(<<info.bit_len>>, <<raw>>, bits, ops)

BitmapReplication ==
  /\ At(1) /\ pending
  /\ LET code  == FactorCode(Rest)
         after == AfterFactor(Y, Rest)
         ops   == Tail(after)
     IN IF X # 1 \/ after = <<>> \/ Head(after) # <<0, 31, 31>> THEN Throw
        ELSE IF ~Delayed(Y) THEN FixedBitmap(ops)
        ELSE IF code \notin DOMAIN BTable THEN Throw
        ELSE DelayedBitmap(BTable[code], ops)

(* A sequence of Table D. *)
Expand ==
  /\ At(3)
  /\ IF Cur \in DOMAIN DTable
       THEN /\ stack' = Append(Continue(Rest), NewFrame(DTable[Cur], 1))
            /\ UNCHANGED <<mods, refvals, field, bitmaps, bitmap_code, tables, bits_io,
                           subsets, job, status>>
       ELSE Throw

EndSequence ==
  /\ status = "run" /\ phase # "done" /\ AtFrameEnd
  /\ stack' = AfterFrame
  /\ UNCHANGED <<mods, refvals, field, bitmaps, bitmap_code, tables, bits_io, subsets,
                 job, status>>

----------------------------------------------------------------------------
(* How the interpreter that has come to its end did. *)
Ended ==
  IF phase \in Visitors /\ result[phase] = "none"
    THEN [result EXCEPT ![phase] = "whole"] ELSE result

(* A new interpreter takes over when the last one has run to its end. *)
Restart(next) ==
  LET it == Fresh(datadesc, skip_missing)
  IN /\ status = "run" /\ stack = <<>>
     /\ phase' = next
     /\ result' = Ended
     /\ stack' = it.stack
     /\ mods' = it.mods
     /\ refvals' = it.refvals
     /\ field' = it.field
     /\ pending' = FALSE /\ current' = NoBitmap /\ last' = NoBitmap
     /\ live' = {} /\ defined' = 0 /\ served' = {}
     /\ cursor' = 0
     /\ UNCHANGED <<bitmap_code, bits_io, redecoded, datadesc, skip_missing, status>>

NoTables ==
  /\ bitmap_table' = [b \in {} |-> <<0, 0, 0>>]
  /\ unknown_table' = [w \in {} |-> <<0, 0, 0>>]

(* A program makes a subset of its own with the store_variable functions and, for
   the attributes of the variables so far, append_dpb, which makes a bitmap of
   the first size of those with F=0, or append_fixed_dpb. *)
DataOf(vs) == SelectSeq(vs, LAMBDA v : KindOf(v) = "B")

(* Mutant: variables with F=2 are not skipped. *)
DpbOfAll(vs, size, attr) == [i \in 1..size |-> attr \in DOMAIN vs[i].attrs]

Dpb(vs, size, attr) == [i \in 1..size |-> attr \in DOMAIN DataOf(vs)[i].attrs]

FixedDpb(size) == [i \in 1..size |-> TRUE]

AppendBitmap(vs, ccode, bits) ==
  LET info == [code |-> ccode, type |-> "String", scale |-> 0, bit_ref |-> 0,
               bit_len |-> 8 * Len(bits)]
  IN Append(vs, [NewVar(info, Unset) EXCEPT !.bits = bits])

StoreVariableI(vs, code, val) == Append(vs, NewVar(BTable[code], val))

(* The quality of the variables vs: a bitmap of C22000, and how many B33007 the
   program gives, by what append_dpb returns. *)
WithQuality(vs, bits) ==
  StoreVariableI(AppendBitmap(vs, <<2, 22, 0>>, bits), <<0, 31, 1>>,
                 Quantify(DOMAIN bits, LAMBDA i : bits[i]))

Build ==
  /\ phase = "scan"
  /\ Restart("validate")
  /\ \E built \in Built :
       /\ built[1] = datadesc
       /\ \E bits \in {Dpb(built[2], Len(DataOf(built[2])), <<0, 33, 7>>),
                      FixedDpb(Len(DataOf(built[2])))} :
            /\ decoded' = WithQuality(built[2], bits)
            /\ bitmap_table' = [b \in {bits} |-> <<2, 22, 0>>]
  /\ unknown_table' = [w \in {} |-> <<0, 0, 0>>]
  /\ UNCHANGED edited

(* What the program may do to a subset: remove its last variable, or give a
   variable another value or none. *)
Edits(vs) ==
  {SubSeq(vs, 1, Len(vs) - 1)} \cup
  {[vs EXCEPT ![e[1]].val = e[2]] :
     e \in UNION {{<<i, val>> : val \in {DecodeValue(vs[i].info, raw) :
                                        raw \in MayHold(vs[i].info)} \cup {Unset}} :
                  i \in {i \in DOMAIN vs : KindOf(vs[i]) = "B"}}}

StartValidating ==
  /\ phase = "decode"
  /\ Restart("validate")
  /\ UNCHANGED <<tables, decoded, edited>>

Edit ==
  /\ phase = "decode" /\ datadesc \in Editable /\ decoded # <<>>
  /\ Restart("validate")
  /\ decoded' \in Edits(decoded)
  /\ edited' = TRUE
  /\ UNCHANGED tables

(* print_structured. *)
StartDumping ==
  /\ phase = "validate"
  /\ Restart("dump")
  /\ UNCHANGED <<tables, decoded, edited>>

StartEncoding ==
  /\ phase = "dump"
  /\ Restart("encode")
  /\ UNCHANGED <<tables, decoded, edited>>

(* What was written is a new message, and is decoded into a new Bulletin. *)
StartRedecoding ==
  /\ phase = "encode"
  /\ Restart("redecode")
  /\ NoTables
  /\ UNCHANGED <<decoded, edited>>

Finish ==
  /\ phase = "redecode"
  /\ Restart("done")
  /\ UNCHANGED <<tables, decoded, edited>>

(* A bulletin of which the header is known: its section is first listed and
   scanned, see SectionVisitors.tla. *)
Init ==
  /\ phase = "print"
  /\ \E b \in Bulletins : datadesc = b[1] /\ skip_missing = b[2]
  /\ edited = FALSE
  /\ result = [v \in Visitors |-> "none"]
  /\ LET it == Fresh(datadesc, skip_missing)
     IN /\ stack = it.stack
        /\ mods = it.mods
        /\ refvals = it.refvals
        /\ field = it.field
  /\ pending = FALSE /\ current = NoBitmap /\ last = NoBitmap
  /\ live = {} /\ defined = 0 /\ served = {}
  /\ bitmap_code = <<2, 22, 0>>
  /\ bitmap_table = [b \in {} |-> <<0, 0, 0>>]
  /\ unknown_table = [w \in {} |-> <<0, 0, 0>>]
  /\ input = <<>> /\ written = <<>> /\ pos = 0 /\ misread = FALSE
  /\ decoded = <<>> /\ redecoded = <<>> /\ cursor = 0
  /\ status = "run"

Next ==
  \/ DefineRefval \/ BVariable
  \/ CModifier \/ AssociatedField \/ EndField \/ CharData \/ LocalDescriptor
  \/ ExpectBitmap \/ Substituted \/ ReuseBitmap \/ DiscardBitmap
  \/ IgnoredModifier \/ BadModifier
  \/ Replication \/ BitmapReplication \/ Expand \/ EndSequence
  \/ Build \/ StartValidating \/ Edit \/ StartDumping \/ StartEncoding \/ StartRedecoding
  \/ Finish

----------------------------------------------------------------------------
Value == Int \cup {Unset}
IsVar(v) ==
  /\ v.code \in Code /\ v.code = v.info.code /\ v.info \in Varinfo
  /\ v.val \in Value
  /\ v.bits \in Seq(BOOLEAN)
  /\ DOMAIN v.attrs \subseteq Code
  /\ \A c \in DOMAIN v.attrs : v.attrs[c] \in Value
IsField(f) == f.width \in Nat \ {0} /\ f.bits \in 0..AllOnes(f.width)

(* Every variable has its type; in particular every field written fits its
   width, and the encoder never goes past the end of the subset. *)
TypeOK ==
  /\ phase \in Visitors \cup {"decode", "encode", "redecode", "done"}
  /\ result \in [Visitors -> {"none", "whole", "failed"}]
  /\ \A i \in DOMAIN stack : stack[i] \in Frame
  /\ field.bit_count \in 0..32 /\ field.significance \in 0..63
  /\ \A i \in DOMAIN input : IsField(input[i])
  /\ \A i \in DOMAIN written : IsField(written[i])
  /\ \A i \in DOMAIN decoded : IsVar(decoded[i])
  /\ \A i \in DOMAIN redecoded : IsVar(redecoded[i])
  /\ cursor \in 0..Len(decoded)
  /\ BM!TypeOK

(* The decoder reads every field with the width that the encoder wrote it with,
   and reads all of them: neither side lets a modifier, a bitmap or a
   replication go out of step with the other. *)
LayoutAgrees ==
  /\ ~misread
  /\ phase = "done" => pos = Len(written)

(* A subset that was decoded, and not changed, or that the program made, is what is
   decoded from its encoding: the same variables, with the same attributes. *)
RoundTrip == phase = "done" /\ ~edited => redecoded = decoded

(* The data section that the encoder writes is, field by field, the one that was
   decoded, missing values included, when the section is one of Exact and all its
   associated fields are kept as attributes. *)
KeepsFields(var) ==
  var.code = <<0, 31, 21>> => var.val \in (DOMAIN AttributeOf) \ {21}

StreamPreserved ==
  /\ phase \in {"redecode", "done"}
  /\ datadesc \in Exact /\ ~edited
  /\ \A i \in DOMAIN decoded : KeepsFields(decoded[i])
  => written = input

(* "Interpreter that checks if the data that has been added to the bulletin
   subsets can actualy be encoded" (dds-validator.h): whatever was done to a
   subset, the encoder accepts it when the validator did, and the decoder accepts
   what the encoder makes of it.  Only associated fields of a significance that
   the encoder does not support escape the validator. *)
ValidIsEncoded ==
  result["validate"] = "whole" =>
    \/ status = "run"
    \/ phase = "encode" /\ field.bit_count # 0 /\ ~Supported(field)

============================================================================
