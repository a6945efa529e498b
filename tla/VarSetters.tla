----------------------------- MODULE VarSetters -----------------------------
(***************************************************************************)
(* What a variable holds after one of the set functions of Var: objects of *)
(* Vars are set by them, and variables of the Python module.               *)
(*                                                                         *)
(* A text is a sequence of character codes.  The outcomes of a call are a  *)
(* set of records: the value that the variable has then, and whether the   *)
(* call throws.  There is no outcome when it throws and changes nothing.   *)
(***************************************************************************)
EXTENDS Units

CONSTANT Unset   (* the value of a variable that is not set *)

(* Silent comes before the other two, which then say nothing; a NaN is never
   clamped. *)
Options == {o \in [silent : BOOLEAN, clamp : BOOLEAN, hook : BOOLEAN] :
              o.silent => ~ (o.clamp \/ o.hook)}

Result(v) == [val |-> v, raised |-> FALSE]
Error(v) == [val |-> v, raised |-> TRUE]

(* The hook sets or unsets the variable as it likes, within the domain. *)
Hooked(info, old) == {old, Unset, info.imin}

(* nearest holds the end of the domain that a value is beyond. *)
OutOfDomain(info, old, nearest, o) ==
  IF o.silent THEN {Result(Unset)}
  ELSE IF o.clamp /\ nearest # {} THEN {Result(n) : n \in nearest}
  ELSE IF o.hook THEN {Result(v) : v \in Hooked(info, old)}
  ELSE {Error(Unset)}

(* Mutant: the upper end of the domain is not looked at. *)
AssignAnyLarge(info, old, n, o) ==
  IF n < info.imin THEN OutOfDomain(info, old, {info.imin}, o) ELSE {Result(n)}

AssignI(info, old, n, o) ==
  CASE n \in info.imin..info.imax -> {Result(n)}
    [] n < info.imin -> OutOfDomain(info, old, {info.imin}, o)
    [] OTHER -> OutOfDomain(info, old, {info.imax}, o)

AssignD(info, old, d, o) ==
  CASE d = NaN -> OutOfDomain(info, old, {}, o)
    [] d # NaN /\ d < Measure(info, info.imin) -> OutOfDomain(info, old, {info.imin}, o)
    [] d # NaN /\ d > Measure(info, info.imax) -> OutOfDomain(info, old, {info.imax}, o)
    [] OTHER -> {Result(EncodeDecimal(info, d))}

(* A string keeps as many characters as its info has, up to the first NUL. *)
Cut(text, len) == SubSeq(text, 1, IF Len(text) < len THEN Len(text) ELSE len)
UpToNul(text) ==
  Cut(text, Cardinality({i \in 1..Len(text) : \A j \in 1..i : text[j] # 0}))
AssignC(info, text) == {Result(UpToNul(Cut(text, info.len)))}

(* An opaque binary has exactly as many bytes as its info: zeros are added, and
   the bits past the last are cleared unless zeros were added. *)
MaskLast(info, bytes) ==
  IF info.bit_len % 8 = 0 THEN bytes
  ELSE [bytes EXCEPT ![info.len] = @ % 2^(info.bit_len % 8)]

AssignB(info, bytes) ==
  {Result(IF Len(bytes) < info.len
            THEN bytes \o [i \in 1..(info.len - Len(bytes)) |-> 0]
            ELSE MaskLast(info, Cut(bytes, info.len)))}

(* What is read where a C string ends before the bytes that are asked of it:
   any byte may lie there, and two stand for all. *)
BytesAt(text, len) ==
  {Cut(text \o <<0>> \o beyond, len) : beyond \in [1..len -> {1, 255}]}

----------------------------------------------------------------------------
(* Numbers in texts: no digit at all is a number, and large ones wrap. *)

Minus == 45
Digit == 48..57
Digits(text) == IF text # <<>> /\ text[1] = Minus THEN Tail(text) ELSE text

IsNumber(text) == \A i \in 1..Len(Digits(text)) : Digits(text)[i] \in Digit

ReadDigits(text) ==
  LET read[n \in 0..Len(Digits(text))] ==
        IF n = 0 THEN 0 ELSE Unsigned(read[n - 1] * 10 + (Digits(text)[n] - 48))
  IN read[Len(Digits(text))]

NumberIn(text) ==
  Signed(IF Digits(text) = text THEN ReadDigits(text) ELSE -ReadDigits(text))

TextOfNumber(n) ==
  LET count == CountDigits(Abs(n))
      digits == [i \in 1..count |-> 48 + ((Abs(n) \div 10^(count - i)) % 10)]
  IN IF n < 0 THEN <<Minus>> \o digits ELSE digits

(* strtod: the digits at the start, or 0.  Decimals are left out. *)
NumberAtStart(text) ==
  Degrees(NumberIn(Cut(text, Cardinality({n \in 1..Len(text) : IsNumber(Cut(text, n))}))))

----------------------------------------------------------------------------
(* The set functions *)

SetI(info, old, n, o) == IF IsText(info.type) THEN {} ELSE AssignI(info, old, n, o)

(* The double becomes a long and then an int: it wraps, and a NaN may become
   anything. *)
SetD(info, old, d, o) ==
  CASE info.type = "Integer" /\ d # NaN -> AssignI(info, old, Signed(Lround(d)), o)
    [] info.type = "Integer" /\ d = NaN ->
         UNION {AssignI(info, old, n, o) : n \in {IntMin, IntMax, info.imin}}
    [] info.type = "Decimal" -> AssignD(info, old, d, o)
    [] IsText(info.type) -> {}

SetNumberText(info, old, text, o) ==
  IF IsNumber(text) THEN AssignI(info, old, NumberIn(text), o) ELSE {Result(Unset)}

SetC(info, old, text, o) ==
  CASE info.type = "String" -> AssignC(info, text)
    [] info.type = "Binary" -> UNION {AssignB(info, b) : b \in BytesAt(text, info.len)}
    [] ~IsText(info.type) -> SetNumberText(info, old, text, o)

SetC_truncate(info, old, text, o) ==
  IF IsText(info.type) THEN SetC(info, old, text, o) ELSE {}

SetS(info, old, text, o) ==
  CASE info.type = "String" -> AssignC(info, text)
    [] info.type = "Binary" -> AssignB(info, text)
    [] ~IsText(info.type) -> SetNumberText(info, old, text, o)

SetF(info, old, text, o) ==
  CASE text = <<>> -> {Result(Unset)}
    [] text # <<>> /\ info.type = "String" -> AssignC(info, text)
    [] text # <<>> /\ ~IsText(info.type) -> SetD(info, old, NumberAtStart(text), o)
    [] OTHER -> {}

(* A call of one of them, by its name. *)
Setting(info, old, call, o) ==
  CASE call.by = "seti" -> SetI(info, old, call.arg, o)
    [] call.by = "setd" -> SetD(info, old, call.arg, o)
    [] call.by = "setc" -> SetC(info, old, call.arg, o)
    [] call.by = "setc_truncate" -> SetC_truncate(info, old, call.arg, o)
    [] call.by = "sets" -> SetS(info, old, call.arg, o)
    [] call.by = "setf" -> SetF(info, old, call.arg, o)

(* setval: a string takes the digits of a number as they are stored, a number
   takes the measure in its own unit. *)
Text(info, val) == IF IsText(info.type) THEN val ELSE TextOfNumber(val)

SetVal(info, old, from, val, o) ==
  CASE val = Unset -> {Result(Unset)}
    [] val # Unset /\ IsText(info.type) -> SetC(info, old, Text(from, val), o)
    [] val # Unset /\ ~IsText(info.type) /\ ~IsText(from.type) ->
         UNION {SetD(info, old, d, o) :
                  d \in ConvertUnits(from.unit, info.unit, Measure(from, val))}
    [] OTHER -> {}

(* The outcomes under any options: threads change theirs between any two calls. *)
Outcomes(info, old, call) == UNION {Setting(info, old, call, o) : o \in Options}
OutcomesFrom(info, old, from, val) == UNION {SetVal(info, old, from, val, o) : o \in Options}

(* Every set number is in its domain and every text fits its info. *)
Holds(info, val) ==
  CASE val = Unset -> TRUE
    [] val # Unset /\ info.type = "String" -> Len(val) <= info.len
    [] val # Unset /\ info.type = "Binary" -> Len(val) = info.len
    [] OTHER -> val \in info.imin..info.imax
=============================================================================
