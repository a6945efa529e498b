------------------------------ MODULE VarsProofs -----------------------------
(* Variables as objects, buffers and pointers behave as the values and maps of
   VarValues, nothing of theirs is shared or lost, and what they hold is in the
   domain of their infos, after any calls of Var.

   The proof goes from values to pointers.  Whatever a function of VarSetters
   stores fits the info (Fits).  Buffers are each that of one text and every value
   fits (Heap), whatever the pointers are; the pointers make one list of attributes,
   rising in code, for each variable, and no attribute is in two of them (Shape).
   Each operation on the memory is shown to keep both (the lemmas that end in Sound),
   each call of Var to be the call of VarValues (those that end in Step). *)
EXTENDS Vars, FiniteSetTheorems, WellFoundedInduction, TLAPS

(* Texts are sequences, whatever is in them. *)
IsSequence(s) == Len(s) \in Nat /\ s = [i \in 1..Len(s) |-> s[i]]

(* What a variable may hold: the texts are sequences. *)
Fits(info, val) ==
  /\ Holds(info, val)
  /\ val # Unset /\ IsText(info.type) => IsSequence(val)

(* Members of Seq(S) are sequences. *)
LEMMA SeqIsSequence ==
  ASSUME NEW S, NEW s \in Seq(S)
  PROVE  IsSequence(s)
BY DEF IsSequence

(* Sequences are members of Seq of what is in them. *)
LEMMA SequenceIsSeq ==
  ASSUME NEW s, IsSequence(s)
  PROVE  s \in Seq({s[i] : i \in 1..Len(s)})
BY DEF IsSequence

(* What string::substr and memcpy up to a length keep of a text. *)
LEMMA CutIs ==
  ASSUME NEW s, IsSequence(s), NEW n \in Nat
  PROVE  /\ IsSequence(Cut(s, n))
         /\ Len(Cut(s, n)) = (IF Len(s) < n THEN Len(s) ELSE n)
         /\ \A i \in 1..Len(Cut(s, n)) : Cut(s, n)[i] = s[i]
<1>1. PICK k \in 0..Len(s) : k = IF Len(s) < n THEN Len(s) ELSE n
  BY DEF IsSequence
<1>2. Cut(s, n) = SubSeq(s, 1, k)
  BY <1>1 DEF Cut
<1>3. PICK S : s \in Seq(S)
  BY SequenceIsSeq
<1>4. SubSeq(s, 1, k) \in Seq(S) /\ Len(SubSeq(s, 1, k)) = k
  BY <1>3
<1>5. \A i \in 1..k : SubSeq(s, 1, k)[i] = s[i]
  BY <1>3
<1> QED
  BY <1>1, <1>2, <1>4, <1>5, SeqIsSequence

(* What strlen leaves of a text is no longer than it. *)
LEMMA UpToNulIs ==
  ASSUME NEW s, IsSequence(s)
  PROVE  IsSequence(UpToNul(s)) /\ Len(UpToNul(s)) <= Len(s)
<1> DEFINE T == {i \in 1..Len(s) : \A j \in 1..i : s[j] # 0}
<1>1. Cardinality(T) \in Nat
  <2>1. IsFiniteSet(1..Len(s))
    <3>1. Len(s) \in Nat
      BY DEF IsSequence
    <3> QED BY <3>1, FS_Interval
  <2>2. IsFiniteSet(T)
    BY <2>1, FS_Subset
  <2> QED BY <2>2, FS_CardinalityType
<1>2. UpToNul(s) = Cut(s, Cardinality(T))
  BY DEF UpToNul
<1> HIDE DEF T
<1>3. /\ IsSequence(Cut(s, Cardinality(T)))
      /\ Len(Cut(s, Cardinality(T)))
           = (IF Len(s) < Cardinality(T) THEN Len(s) ELSE Cardinality(T))
  BY <1>1, CutIs
<1> QED
  BY <1>1, <1>2, <1>3 DEF IsSequence

(* assign_c: at most len bytes are stored. *)
LEMMA AssignCFits ==
  ASSUME NEW info \in Infos, info.type = "String", NEW text, IsSequence(text),
         NEW r \in AssignC(info, text)
  PROVE  Fits(info, r.val)
<1>1. info.len \in Nat
  BY InfosAssumption
<1>2. IsSequence(Cut(text, info.len)) /\ Len(Cut(text, info.len)) <= info.len
  BY <1>1, CutIs DEF IsSequence
<1>3. r.val = UpToNul(Cut(text, info.len))
  BY DEF AssignC, Result
<1>4. IsSequence(r.val) /\ Len(r.val) <= info.len
  <2> DEFINE cut == Cut(text, info.len)
  <2>1. IsSequence(UpToNul(cut)) /\ Len(UpToNul(cut)) <= Len(cut)
    BY <1>2, UpToNulIs
  <2>2. Len(UpToNul(cut)) \in Nat /\ Len(cut) \in Nat
    BY <2>1, <1>2 DEF IsSequence
  <2> QED BY <2>1, <2>2, <1>1, <1>2, <1>3
<1> QED
  BY <1>4 DEF Fits, Holds

(* Masking the last byte changes no length. *)
LEMMA MaskLastIs ==
  ASSUME NEW info \in Infos, NEW bytes, IsSequence(bytes)
  PROVE  IsSequence(MaskLast(info, bytes)) /\ Len(MaskLast(info, bytes)) = Len(bytes)
<1> DEFINE masked == [bytes EXCEPT ![info.len] = @ % 2^(info.bit_len % 8)]
<1>1. DOMAIN masked = 1..Len(bytes) /\ masked = [i \in 1..Len(bytes) |-> masked[i]]
  BY DEF IsSequence
<1> HIDE DEF masked
<1>2. masked \in Seq({masked[i] : i \in 1..Len(bytes)}) /\ Len(masked) = Len(bytes)
  BY <1>1 DEF IsSequence
<1>3. IsSequence(masked)
  BY <1>2, SeqIsSequence
<1> QED
  BY <1>2, <1>3 DEF MaskLast, masked

(* assign_b: exactly len bytes are stored, padded with zeros or cut. *)
LEMMA AssignBFits ==
  ASSUME NEW info \in Infos, info.type = "Binary", NEW bytes, IsSequence(bytes),
         NEW r \in AssignB(info, bytes)
  PROVE  Fits(info, r.val)
<1>1. info.len \in Nat
  BY InfosAssumption
<1>2. CASE Len(bytes) < info.len
  <2> DEFINE zeros == [i \in 1..(info.len - Len(bytes)) |-> 0]
  <2>1. PICK S : bytes \in Seq(S)
    BY SequenceIsSeq
  <2>2. bytes \in Seq(S \cup {0}) /\ zeros \in Seq(S \cup {0})
    BY <2>1, <1>1, <1>2
  <2>3. Len(zeros) = info.len - Len(bytes)
    BY <1>1, <1>2 DEF IsSequence
  <2> HIDE DEF zeros
  <2>4. bytes \o zeros \in Seq(S \cup {0}) /\ Len(bytes \o zeros) = Len(bytes) + Len(zeros)
    BY <2>2
  <2>5. IsSequence(bytes \o zeros) /\ Len(bytes \o zeros) = info.len
    <3>1. IsSequence(bytes \o zeros)
      BY <2>4, SeqIsSequence
    <3>2. Len(bytes) \in Nat
      BY DEF IsSequence
    <3> QED BY <3>1, <3>2, <2>3, <2>4, <1>1
  <2>6. r.val = bytes \o zeros
    <3>1. AssignB(info, bytes) = {Result(bytes \o zeros)}
      BY <1>2 DEF AssignB, zeros
    <3> QED BY <3>1 DEF Result
  <2> QED BY <2>5, <2>6 DEF Fits, Holds
<1>3. CASE ~ (Len(bytes) < info.len)
  <2>1. IsSequence(Cut(bytes, info.len)) /\ Len(Cut(bytes, info.len)) = info.len
    BY <1>1, <1>3, CutIs DEF IsSequence
  <2>2. r.val = MaskLast(info, Cut(bytes, info.len))
    BY <1>3 DEF AssignB, Result
  <2>3. IsSequence(r.val) /\ Len(r.val) = info.len
    BY <2>1, <2>2, MaskLastIs
  <2> QED BY <2>3 DEF Fits, Holds
<1> QED
  BY <1>2, <1>3

(* The length of a concatenation. *)
LEMMA SeqsConcat ==
  ASSUME NEW S, NEW s \in Seq(S), NEW t \in Seq(S)
  PROVE  s \o t \in Seq(S) /\ Len(s \o t) = Len(s) + Len(t)
OBVIOUS

(* Reading len bytes at a C string gives len bytes, those after its end too. *)
LEMMA BytesAtAre ==
  ASSUME NEW text, IsSequence(text), NEW len \in Nat, NEW bytes \in BytesAt(text, len)
  PROVE  IsSequence(bytes) /\ Len(bytes) = len
<1>1. PICK beyond \in [1..len -> {1, 255}] : bytes = Cut(text \o << 0 >> \o beyond, len)
  BY DEF BytesAt
<1>2. PICK S : text \in Seq(S)
  BY SequenceIsSeq
<1>3. PICK T : T = S \cup {0, 1, 255}
  OBVIOUS
<1>4. PICK longer \in Seq(T) : longer = text \o << 0 >> /\ Len(longer) = Len(text) + 1
  <2>1. text \in Seq(T) /\ 0 \in T
    BY <1>2, <1>3
  <2>2. text \o << 0 >> \in Seq(T) /\ Len(text \o << 0 >>) = Len(text) + Len(<< 0 >>)
    BY <2>1
  <2>3. Len(<< 0 >>) = 1
    OBVIOUS
  <2> QED BY <2>2, <2>3
<1>5. PICK rest \in Seq(T) : rest = beyond /\ Len(rest) = len
  BY <1>3
<1>6. PICK all \in Seq(T) : all = longer \o rest /\ Len(all) = Len(longer) + Len(rest)
  BY SeqsConcat
<1>7. IsSequence(all) /\ Len(text) \in Nat
  BY SeqIsSequence DEF IsSequence
<1>8. Len(all) >= len
  BY <1>4, <1>5, <1>6, <1>7
<1>9. IsSequence(Cut(all, len)) /\ Len(Cut(all, len)) = len
  <2>1. Len(Cut(all, len)) = (IF Len(all) < len THEN Len(all) ELSE len)
    BY <1>7, CutIs
  <2>2. Len(all) \in Nat
    BY <1>7 DEF IsSequence
  <2> QED BY <2>1, <2>2, <1>8, <1>7, CutIs
<1> QED
  BY <1>1, <1>4, <1>5, <1>6, <1>9

(* setc on a string or a binary variable. *)
LEMMA SetCTextFits ==
  ASSUME NEW info \in Infos, IsText(info.type), NEW old, NEW text, IsSequence(text), NEW o,
         NEW r \in SetC(info, old, text, o)
  PROVE  Fits(info, r.val)
<1>1. CASE info.type = "String"
  BY <1>1, AssignCFits DEF SetC
<1>2. CASE info.type = "Binary"
  <2>1. info.len \in Nat
    BY InfosAssumption
  <2>2. PICK bytes \in BytesAt(text, info.len) : r \in AssignB(info, bytes)
    BY <1>2 DEF SetC
  <2> QED BY <2>1, <2>2, <1>2, BytesAtAre, AssignBFits
<1> QED
  BY <1>1, <1>2 DEF IsText

(* The infos whose values are numbers, and what numbers may be given. *)
Numeric(info) == info \in Infos /\ ~ IsText(info.type)
Double == Int \cup {NaN}

(* A number between the bounds of its info may be held. *)
LEMMA InRangeFits ==
  ASSUME NEW info, Numeric(info), NEW n \in info.imin..info.imax
  PROVE  Fits(info, n)
BY DEF Numeric, Fits, Holds, IsText

(* No value may always be held. *)
LEMMA UnsetFits ==
  ASSUME NEW info
  PROVE  Fits(info, Unset)
BY DEF Fits, Holds

(* What is kept when a value is out of the domain: nothing, or the old value, or the
   bound that is nearest. *)
LEMMA OutOfDomainFits ==
  ASSUME NEW info, Numeric(info), NEW old, Fits(info, old),
         NEW nearest \in SUBSET {info.imin, info.imax}, NEW o,
         NEW r \in OutOfDomain(info, old, nearest, o)
  PROVE  Fits(info, r.val)
<1>1. info.imin \in info.imin..info.imax /\ info.imax \in info.imin..info.imax
  BY InfosAssumption DEF Numeric
<1>2. r.val \in {old, Unset, info.imin, info.imax}
  BY DEF OutOfDomain, Result, Error, Hooked
<1> QED
  BY <1>1, <1>2, InRangeFits, UnsetFits

(* assign_i_checked: what is stored is in the domain. *)
LEMMA AssignIFits ==
  ASSUME NEW info, Numeric(info), NEW old, Fits(info, old), NEW n \in Int, NEW o,
         NEW r \in AssignI(info, old, n, o)
  PROVE  Fits(info, r.val)
<1>1. CASE n \in info.imin..info.imax
  <2>1. r.val = n
    <3>1. AssignI(info, old, n, o) = {Result(n)}
      BY <1>1, InfosAssumption DEF AssignI, Numeric
    <3> QED BY <3>1 DEF Result
  <2> QED BY <2>1, <1>1, InRangeFits
<1>2. CASE n \notin info.imin..info.imax
  <2>1. \/ r \in OutOfDomain(info, old, {info.imin}, o)
        \/ r \in OutOfDomain(info, old, {info.imax}, o)
    BY <1>2 DEF AssignI
  <2> QED BY <2>1, OutOfDomainFits
<1> QED
  BY <1>1, <1>2

(* Rounding: what is between two multiples of the unit is rounded between them. *)
LEMMA RintIs ==
  ASSUME NEW d \in Int, NEW unit \in Nat \ {0}
  PROVE  /\ Rint(d, unit) \in Int
         /\ Rint(d, unit) \in {d \div unit, d \div unit + 1}
         /\ d % unit = 0 => Rint(d, unit) = d \div unit
<1>1. d \div unit \in Int /\ d % unit \in 0..(unit - 1)
  OBVIOUS
<1>2. PICK below \in Int, rest \in 0..(unit - 1) : below = d \div unit /\ rest = d % unit
  BY <1>1
<1>3. Rint(d, unit) = IF 2 * rest > unit \/ (2 * rest = unit /\ below % 2 = 1)
                        THEN below + 1 ELSE below
  BY <1>2 DEF Rint
<1> QED
  BY <1>2, <1>3

(* Rounding does not leave whole bounds. *)
LEMMA RintBetween ==
  ASSUME NEW d \in Int, NEW unit \in Nat \ {0}, NEW a \in Int, NEW b \in Int,
         a * unit <= d, d <= b * unit
  PROVE  Rint(d, unit) \in a..b
<1>1. PICK below \in Int, rest \in 0..(unit - 1) : below = d \div unit /\ rest = d % unit
  OBVIOUS
<1>2. d = below * unit + rest
  BY <1>1
<1>3. a <= below
  <2> SUFFICES ASSUME below + 1 <= a PROVE FALSE
    OBVIOUS
  <2>1. (below + 1) * unit <= a * unit
    OBVIOUS
  <2>2. (below + 1) * unit = below * unit + unit
    OBVIOUS
  <2> QED BY <2>1, <2>2, <1>2
<1>4. below <= b /\ (below = b => rest = 0)
  <2>1. ASSUME b + 1 <= below PROVE FALSE
    <3>1. (b + 1) * unit <= below * unit
      BY <2>1
    <3>2. (b + 1) * unit = b * unit + unit
      OBVIOUS
    <3> QED BY <3>1, <3>2, <1>2
  <2> QED BY <2>1, <1>2
<1> QED
  <2>1. /\ Rint(d, unit) \in {below, below + 1}
        /\ rest = 0 => Rint(d, unit) = below
    BY <1>1, RintIs
  <2> QED BY <2>1, <1>3, <1>4

(* assign_d_checked: what is stored is in the domain, however it is rounded. *)
LEMMA AssignDFits ==
  ASSUME NEW info, Numeric(info), NEW old, Fits(info, old), NEW d \in Double, NEW o,
         NEW r \in AssignD(info, old, d, o)
  PROVE  Fits(info, r.val)
<1>1. /\ info.imin \in Int /\ info.imax \in Int /\ Step(info) \in Nat \ {0}
  BY InfosAssumption DEF Numeric
<1>2. CASE /\ d # NaN
           /\ ~ (d < Measure(info, info.imin))
           /\ ~ (d > Measure(info, info.imax))
  <2>1. d \in Int
    BY <1>2 DEF Double
  <2>2. PICK unit \in Nat \ {0} : unit = Step(info)
    BY <1>1
  <2>3. info.imin * unit <= d /\ d <= info.imax * unit
    BY <1>1, <1>2, <2>1, <2>2 DEF Measure
  <2>4. Rint(d, unit) \in info.imin..info.imax
    BY <1>1, <2>1, <2>3, RintBetween
  <2>5. r.val = Rint(d, unit)
    BY <1>2, <2>2 DEF AssignD, EncodeDecimal, Result
  <2> QED BY <2>4, <2>5, InRangeFits
<1>3. CASE ~ (/\ d # NaN
              /\ ~ (d < Measure(info, info.imin))
              /\ ~ (d > Measure(info, info.imax)))
  <2>1. \/ r \in OutOfDomain(info, old, {}, o)
        \/ r \in OutOfDomain(info, old, {info.imin}, o)
        \/ r \in OutOfDomain(info, old, {info.imax}, o)
    BY <1>3 DEF AssignD
  <2> QED BY <2>1, OutOfDomainFits
<1> QED
  BY <1>2, <1>3

----------------------------------------------------------------------------
(* Machine integers *)

(* Wrapping to a word gives an integer. *)
LEMMA SignedInt ==
  ASSUME NEW n \in Int
  PROVE  Unsigned(n) \in Int /\ Signed(n) \in Int
<1>1. PICK w \in Nat \ {0} : w = 2^WordBits
  BY WidthsAssumption
<1>2. Unsigned(n) \in Int
  BY <1>1 DEF Unsigned
<1> QED
  BY <1>1, <1>2 DEF Signed

(* lround, which wraps, gives an integer. *)
LEMMA LroundInt ==
  ASSUME NEW d \in Int
  PROVE  Lround(d) \in Int
<1>1. PICK w \in Nat \ {0} : w = 10^Places
  BY WidthsAssumption
<1>2. Abs(d) \in Int
  BY DEF Abs
<1>3. 2 * w \in Nat \ {0}
  OBVIOUS
<1>4. (2 * Abs(d) + w) \div (2 * w) \in Int
  BY <1>2, <1>3
<1> QED
  BY <1>1, <1>4 DEF Lround

(* The ends of a word are integers. *)
LEMMA IntEnds == IntMin \in Int /\ IntMax \in Int
<1>1. 2^(WordBits - 1) \in Int
  BY WidthsAssumption
<1> QED
  BY <1>1 DEF IntMin, IntMax

(* setd, on a number or on a text. *)
LEMMA SetDFits ==
  ASSUME NEW info \in Infos, NEW old, Fits(info, old), NEW d \in Double, NEW o,
         NEW r \in SetD(info, old, d, o)
  PROVE  Fits(info, r.val)
<1>1. info.type \in {"String", "Binary", "Integer", "Decimal"}
  BY InfosAssumption
<1>2. CASE info.type = "Integer"
  <2>1. Numeric(info)
    BY <1>2 DEF Numeric, IsText
  <2>2. info.imin \in Int
    BY InfosAssumption
  <2>3. CASE d = NaN
    <3>1. PICK n \in {IntMin, IntMax, info.imin} : r \in AssignI(info, old, n, o)
      BY <1>2, <2>3 DEF SetD
    <3> QED BY <3>1, <2>1, <2>2, IntEnds, AssignIFits
  <2>4. CASE d # NaN
    <3>1. r \in AssignI(info, old, Signed(Lround(d)), o)
      BY <1>2, <2>4 DEF SetD
    <3>2. Signed(Lround(d)) \in Int
      BY <2>4, LroundInt, SignedInt DEF Double
    <3> QED BY <3>1, <3>2, <2>1, AssignIFits
  <2> QED BY <2>3, <2>4
<1>3. CASE info.type = "Decimal"
  <2>1. Numeric(info)
    BY <1>3 DEF Numeric, IsText
  <2>2. r \in AssignD(info, old, d, o)
    BY <1>3 DEF SetD
  <2> QED BY <2>1, <2>2, AssignDFits
<1>4. CASE IsText(info.type)
  BY <1>4 DEF SetD, IsText
<1> QED
  BY <1>1, <1>2, <1>3, <1>4 DEF IsText

(* No natural has naturals below it for ever. *)
Below == {p \in Nat \X Nat : p[1] < p[2]}

(* Going down from a number ends. *)
LEMMA BelowIsWellFounded == IsWellFoundedOn(Below, Nat)
BY NatLessThanWellFounded DEF OpToRel, Below

(* Induction over the naturals, for sets. *)
LEMMA NatSetInduction ==
  ASSUME NEW S, 0 \in S, \A n \in Nat : n \in S => n + 1 \in S
  PROVE  Nat \subseteq S
<1> SUFFICES ASSUME Nat \ S # {} PROVE FALSE
  OBVIOUS
<1>1. PICK m \in Nat \ S : \A k \in Nat \ S : <<k, m>> \notin Below
  <2>1. Nat \ S \subseteq Nat
    OBVIOUS
  <2> QED BY <2>1, BelowIsWellFounded, WFMin
<1>2. m # 0 /\ m - 1 \in Nat
  OBVIOUS
<1>3. <<m - 1, m>> \in Below
  BY <1>2 DEF Below
<1>4. m - 1 \in S
  BY <1>1, <1>2, <1>3
<1> QED
  BY <1>2, <1>4

----------------------------------------------------------------------------
(* Numbers in texts *)

(* read[k] is what the first k digits are as a number. *)
IsReading(digits, m, read) ==
  read = [n \in 0..m |->
            IF n = 0 THEN 0 ELSE Unsigned(read[n - 1] * 10 + (digits[n] - 48))]

(* Such a function is defined for every text. *)
LEMMA ReadingExists ==
  ASSUME NEW digits, NEW m \in Nat
  PROVE  \E read : IsReading(digits, m, read)
<1> DEFINE S == {n \in Nat : \E read : IsReading(digits, n, read)}
<1>1. 0 \in S
  <2>1. IsReading(digits, 0, [n \in 0..0 |-> 0])
    BY DEF IsReading
  <2> QED BY <2>1
<1>2. ASSUME NEW n \in Nat, n \in S
      PROVE  n + 1 \in S
  <2>1. PICK read : IsReading(digits, n, read)
    BY <1>2
  <2> DEFINE more == [k \in 0..(n + 1) |->
                        IF k = n + 1 THEN Unsigned(read[n] * 10 + (digits[n + 1] - 48))
                        ELSE read[k]]
  <2>2. ASSUME NEW k \in 0..(n + 1)
        PROVE  more[k] = IF k = 0 THEN 0
                         ELSE Unsigned(more[k - 1] * 10 + (digits[k] - 48))
    <3>1. CASE k = n + 1
      <4>1. k # 0 /\ k - 1 = n /\ more[k - 1] = read[n]
        BY <3>1
      <4> QED BY <3>1, <4>1
    <3>2. CASE k # n + 1
      <4>1. k \in 0..n /\ more[k] = read[k]
        BY <3>2
      <4>2. k # 0 => more[k - 1] = read[k - 1]
        BY <4>1
      <4>3. read[k] = IF k = 0 THEN 0
                      ELSE Unsigned(read[k - 1] * 10 + (digits[k] - 48))
        BY <2>1, <4>1 DEF IsReading
      <4> QED BY <4>1, <4>2, <4>3
    <3> QED BY <3>1, <3>2
  <2>3. IsReading(digits, n + 1, more)
    BY <2>2 DEF IsReading
  <2> QED BY <2>3
<1> HIDE DEF S
<1>3. m \in S
  BY <1>1, <1>2, NatSetInduction
<1> QED
  BY <1>3 DEF S

(* What is read from digits is an integer. *)
LEMMA ReadingInt ==
  ASSUME NEW digits \in Seq(Nat), NEW read, IsReading(digits, Len(digits), read)
  PROVE  read[Len(digits)] \in Int
<1> DEFINE S == {n \in Nat : n <= Len(digits) => read[n] \in Int}
<1>1. 0 \in S
  BY DEF IsReading
<1>2. ASSUME NEW n \in Nat, n \in S
      PROVE  n + 1 \in S
  <2> SUFFICES ASSUME n + 1 <= Len(digits) PROVE read[n + 1] \in Int
    OBVIOUS
  <2>1. read[n] \in Int /\ digits[n + 1] \in Nat
    BY <1>2
  <2>2. PICK all \in Int : all = read[n] * 10 + (digits[n + 1] - 48)
    BY <2>1
  <2>3. read[n + 1] = Unsigned(all)
    <3>1. n + 1 \in 0..Len(digits) /\ n + 1 # 0 /\ (n + 1) - 1 = n
      OBVIOUS
    <3> QED BY <3>1, <2>2 DEF IsReading
  <2> QED BY <2>3, SignedInt
<1> HIDE DEF S
<1>3. Len(digits) \in S
  BY <1>1, <1>2, NatSetInduction
<1> QED
  BY <1>3 DEF S

(* The digits of a text are a sequence of numbers. *)
LEMMA DigitsSeq ==
  ASSUME NEW text \in Seq(Nat)
  PROVE  Digits(text) \in Seq(Nat)
BY DEF Digits

(* strtol over a whole text gives an integer. *)
LEMMA NumberInInt ==
  ASSUME NEW text \in Seq(Nat)
  PROVE  NumberIn(text) \in Int
<1>1. PICK digits \in Seq(Nat) : digits = Digits(text)
  BY DigitsSeq
<1> DEFINE read == CHOOSE read : IsReading(digits, Len(digits), read)
<1>2. IsReading(digits, Len(digits), read)
  <2>1. \E f : IsReading(digits, Len(digits), f)
    <3>1. Len(digits) \in Nat
      OBVIOUS
    <3> HIDE DEF read
    <3> QED BY <3>1, ReadingExists, Zenon
  <2> QED BY <2>1
<1>3. ReadDigits(text) = read[Len(digits)]
  BY <1>1 DEF ReadDigits, IsReading
<1> HIDE DEF read
<1>4. ReadDigits(text) \in Int
  BY <1>2, <1>3, ReadingInt
<1>5. PICK n \in Int : n = ReadDigits(text)
  BY <1>4
<1>6. -n \in Int
  OBVIOUS
<1>7. Signed(n) \in Int /\ Signed(-n) \in Int
  BY <1>6, SignedInt
<1> QED
  BY <1>5, <1>7 DEF NumberIn

(* A cut has what is in the text. *)
LEMMA CutSeq ==
  ASSUME NEW S, NEW s \in Seq(S), NEW n \in Nat
  PROVE  Cut(s, n) \in Seq(S)
<1>1. PICK k \in 0..Len(s) : k = IF Len(s) < n THEN Len(s) ELSE n
  OBVIOUS
<1> QED
  BY <1>1 DEF Cut

(* strtol on the start of a text gives an integer. *)
LEMMA NumberAtStartInt ==
  ASSUME NEW text \in Seq(Nat)
  PROVE  NumberAtStart(text) \in Int
<1> DEFINE T == {n \in 1..Len(text) : IsNumber(Cut(text, n))}
<1>1. Cardinality(T) \in Nat
  <2>1. IsFiniteSet(1..Len(text))
    BY FS_Interval
  <2>2. IsFiniteSet(T)
    BY <2>1, FS_Subset
  <2> QED BY <2>2, FS_CardinalityType
<1>2. Cut(text, Cardinality(T)) \in Seq(Nat)
  BY <1>1, CutSeq
<1>3. PICK n \in Int : n = NumberIn(Cut(text, Cardinality(T)))
  BY <1>2, NumberInInt
<1>4. NumberAtStart(text) = Degrees(n)
  BY <1>3 DEF NumberAtStart
<1>5. 10^Places \in Int
  BY WidthsAssumption
<1> QED
  BY <1>4, <1>5 DEF Degrees

(* A number is printed as a sequence of bytes. *)
LEMMA TextOfNumberIs ==
  ASSUME NEW n
  PROVE  IsSequence(TextOfNumber(n))
<1>1. PICK count : count = CountDigits(Abs(n))
  OBVIOUS
<1>2. count \in Nat
  <2> DEFINE T == {d \in 1..(WordBits - 1) : Abs(n) >= 10^d}
  <2>1. IsFiniteSet(1..(WordBits - 1))
    BY WidthsAssumption, FS_Interval
  <2>2. IsFiniteSet(T)
    BY <2>1, FS_Subset
  <2>3. Cardinality(T) \in Nat
    BY <2>2, FS_CardinalityType
  <2> QED BY <1>1, <2>3 DEF CountDigits
<1> DEFINE digits == [i \in 1..count |-> 48 + ((Abs(n) \div 10^(count - i)) % 10)]
<1>3. TextOfNumber(n) = IF n < 0 THEN << Minus >> \o digits ELSE digits
  BY <1>1 DEF TextOfNumber
<1>4. digits = [i \in 1..count |-> digits[i]]
  OBVIOUS
<1> HIDE DEF digits
<1> DEFINE S == {digits[i] : i \in 1..count}
<1>8. digits \in Seq(S)
  BY <1>2, <1>4
<1> HIDE DEF S
<1>5. PICK T : T = S \cup {Minus}
  OBVIOUS
<1>6. digits \in Seq(T) /\ << Minus >> \in Seq(T)
  BY <1>8, <1>5
<1>7. << Minus >> \o digits \in Seq(T)
  BY <1>6, SeqsConcat
<1> QED
  BY <1>3, <1>6, <1>7, SeqIsSequence

(* The conversions between octants and degrees give integers. *)
LEMMA DegreesInt ==
  ASSUME NEW n \in Int
  PROVE  Degrees(n) \in Int
<1>1. PICK w \in Int : w = 10^Places
  BY WidthsAssumption
<1> QED
  BY <1>1 DEF Degrees

(* From degrees to octants, too. *)
LEMMA OctantsInt ==
  ASSUME NEW d \in Int
  PROVE  Degrees_to_octants(d) \in Int
<1>1. PICK w \in Nat \ {0} : w = 10^Places
  BY WidthsAssumption
<1>2. Degrees(45) = 45 * w /\ Degrees(90) = 90 * w
  BY <1>1 DEF Degrees
<1>3. 90 * w \in Nat \ {0} /\ 2 * d + 45 * w - 1 \in Int
  OBVIOUS
<1>4. (2 * d + 45 * w - 1) \div (90 * w) \in Int
  BY <1>3
<1> QED
  BY <1>2, <1>4 DEF Degrees_to_octants

(* A conversion has an integer factor, divisor and constant, the divisor not zero. *)
LEMMA FindIs ==
  ASSUME NEW from, NEW to, NEW c \in Find(from, to)
  PROVE  c.num \in Int /\ c.den \in Nat \ {0} /\ c.add \in Int
<1>1. PICK r \in Registered : c \in AddLinear(r.from, r.to, r.num, r.den, r.add)
  BY DEF Find, Repo
<1>2. r.num \in Nat \ {0} /\ r.den \in Nat \ {0} /\ r.add \in Int
  BY RegisteredAssumption
<1> QED
  BY <1>1, <1>2 DEF AddLinear, Linear

(* convert_units gives an integer. *)
LEMMA ConvertedInt ==
  ASSUME NEW from, NEW to, NEW d \in Int, NEW e \in ConvertUnits(from, to, d)
  PROVE  e \in Int
<1>1. CASE from = to
  BY <1>1 DEF ConvertUnits
<1>2. CASE from # to /\ from = "octants" /\ to = "DEGREE TRUE"
  <2>1. PICK n \in 0..8 : e = Octants_to_degrees[n]
    BY <1>2 DEF ConvertUnits, Octants_to_degrees
  <2>2. e = Degrees(45 * n) /\ 45 * n \in Int
    BY <2>1 DEF Octants_to_degrees
  <2> QED BY <2>2, DegreesInt
<1>3. CASE from # to /\ from = "DEGREE TRUE" /\ to = "octants"
  <2>1. e = Degrees(Degrees_to_octants(d))
    BY <1>3 DEF ConvertUnits
  <2>2. Degrees_to_octants(d) \in Int
    BY OctantsInt
  <2> QED BY <2>1, <2>2, DegreesInt
<1>4. CASE /\ from # to
           /\ ~ (from = "octants" /\ to = "DEGREE TRUE")
           /\ ~ (from = "DEGREE TRUE" /\ to = "octants")
  <2>1. PICK c \in Find(from, to) : e = Convert(c, d)
    BY <1>4 DEF ConvertUnits
  <2>2. PICK num \in Int, den \in Nat \ {0}, add \in Int :
          num = c.num /\ den = c.den /\ add = c.add
    BY FindIs
  <2>3. d * num \in Int
    OBVIOUS
  <2>4. Rint(d * num, den) \in Int
    BY <2>3, RintIs
  <2> QED BY <2>1, <2>2, <2>4 DEF Convert
<1> QED
  BY <1>1, <1>2, <1>3, <1>4

----------------------------------------------------------------------------
(* Whatever is set by whichever function, under whichever options: it fits. *)

(* setc on a number. *)
LEMMA SetNumberTextFits ==
  ASSUME NEW info, Numeric(info), NEW old, Fits(info, old), NEW text \in Seq(Nat), NEW o,
         NEW r \in SetNumberText(info, old, text, o)
  PROVE  Fits(info, r.val)
<1>1. CASE IsNumber(text)
  BY <1>1, NumberInInt, AssignIFits DEF SetNumberText
<1>2. CASE ~ IsNumber(text)
  BY <1>2, UnsetFits DEF SetNumberText, Result
<1> QED
  BY <1>1, <1>2

(* setc, whatever the variable is. *)
LEMMA SetCFits ==
  ASSUME NEW info \in Infos, NEW old, Fits(info, old), NEW text \in Seq(Nat), NEW o,
         NEW r \in SetC(info, old, text, o)
  PROVE  Fits(info, r.val)
<1>1. CASE IsText(info.type)
  BY <1>1, SeqIsSequence, SetCTextFits
<1>2. CASE ~ IsText(info.type)
  <2>1. r \in SetNumberText(info, old, text, o)
    BY <1>2 DEF SetC, IsText
  <2> QED BY <1>2, <2>1, SetNumberTextFits DEF Numeric
<1> QED
  BY <1>1, <1>2

(* sets. *)
LEMMA SetSFits ==
  ASSUME NEW info \in Infos, NEW old, Fits(info, old), NEW text \in Seq(Nat), NEW o,
         NEW r \in SetS(info, old, text, o)
  PROVE  Fits(info, r.val)
<1>1. IsSequence(text)
  BY SeqIsSequence
<1>2. CASE info.type = "String"
  <2>1. r \in AssignC(info, text)
    BY <1>2 DEF SetS, IsText
  <2> QED BY <2>1, <1>1, <1>2, AssignCFits
<1>3. CASE info.type = "Binary"
  <2>1. r \in AssignB(info, text)
    BY <1>3 DEF SetS, IsText
  <2> QED BY <2>1, <1>1, <1>3, AssignBFits
<1>4. CASE ~ IsText(info.type)
  <2>1. r \in SetNumberText(info, old, text, o)
    BY <1>4 DEF SetS, IsText
  <2> QED BY <1>4, <2>1, SetNumberTextFits DEF Numeric
<1> QED
  BY <1>2, <1>3, <1>4 DEF IsText

(* setf, which parses what was formatted. *)
LEMMA SetFFits ==
  ASSUME NEW info \in Infos, NEW old, Fits(info, old), NEW text \in Seq(Nat), NEW o,
         NEW r \in SetF(info, old, text, o)
  PROVE  Fits(info, r.val)
<1>1. IsSequence(text)
  BY SeqIsSequence
<1>2. CASE text = <<>>
  BY <1>2, UnsetFits DEF SetF, Result
<1>3. CASE text # <<>> /\ info.type = "String"
  <2>1. r \in AssignC(info, text)
    BY <1>3 DEF SetF, IsText
  <2> QED BY <2>1, <1>1, <1>3, AssignCFits
<1>4. CASE text # <<>> /\ ~ IsText(info.type)
  <2>1. r \in SetD(info, old, NumberAtStart(text), o)
    BY <1>4 DEF SetF, IsText
  <2>2. NumberAtStart(text) \in Double
    BY NumberAtStartInt DEF Double
  <2> QED BY <2>1, <2>2, SetDFits
<1>5. CASE text # <<>> /\ info.type = "Binary"
  BY <1>5 DEF SetF, IsText
<1> QED
  BY <1>2, <1>3, <1>4, <1>5 DEF IsText

(* No call stores what the info of its variable does not allow. *)
LEMMA OutcomesFit ==
  ASSUME NEW info \in Infos, NEW old, Fits(info, old), NEW call \in Calls[info],
         NEW r \in Outcomes(info, old, call)
  PROVE  Fits(info, r.val)
<1>1. PICK o \in Options : r \in Setting(info, old, call, o)
  BY DEF Outcomes
<1>2. CASE call.by = "seti" /\ call.arg \in Int
  <2>1. r \in SetI(info, old, call.arg, o)
    BY <1>1, <1>2 DEF Setting
  <2>2. Numeric(info) /\ r \in AssignI(info, old, call.arg, o)
    BY <2>1 DEF SetI, Numeric
  <2> QED BY <2>2, <1>2, AssignIFits
<1>3. CASE call.by = "setd" /\ (call.arg = NaN \/ call.arg \in Int)
  <2>1. r \in SetD(info, old, call.arg, o) /\ call.arg \in Double
    BY <1>1, <1>3 DEF Setting, Double
  <2> QED BY <2>1, SetDFits
<1>4. CASE call.by \in {"setc", "setc_truncate", "sets", "setf"} /\ call.arg \in Seq(Nat)
  <2>1. \/ r \in SetC(info, old, call.arg, o)
        \/ r \in SetS(info, old, call.arg, o)
        \/ r \in SetF(info, old, call.arg, o)
    BY <1>1, <1>4 DEF Setting, SetC_truncate
  <2> QED BY <2>1, <1>4, SetCFits, SetSFits, SetFFits
<1> QED
  BY <1>2, <1>3, <1>4, CallsAssumption

(* Nor does setval or set from another variable, converted or not. *)
LEMMA OutcomesFromFit ==
  ASSUME NEW info \in Infos, NEW old, Fits(info, old),
         NEW from \in Infos, NEW val, Fits(from, val),
         NEW r \in OutcomesFrom(info, old, from, val)
  PROVE  Fits(info, r.val)
<1>1. PICK o \in Options : r \in SetVal(info, old, from, val, o)
  BY DEF OutcomesFrom
<1>2. CASE val = Unset
  BY <1>1, <1>2, UnsetFits DEF SetVal, Result
<1>3. CASE val # Unset /\ IsText(info.type)
  <2>1. r \in SetC(info, old, Text(from, val), o)
    BY <1>1, <1>3 DEF SetVal
  <2>2. IsSequence(Text(from, val))
    BY <1>3, TextOfNumberIs DEF Text, Fits
  <2> QED BY <1>3, <2>1, <2>2, SetCTextFits
<1>4. CASE val # Unset /\ ~ IsText(info.type) /\ ~ IsText(from.type)
  <2>1. PICK d \in ConvertUnits(from.unit, info.unit, Measure(from, val)) :
          r \in SetD(info, old, d, o)
    BY <1>1, <1>4 DEF SetVal
  <2>2. Measure(from, val) \in Int
    <3>1. val \in from.imin..from.imax
      BY <1>4 DEF Fits, Holds, IsText
    <3>2. val \in Int /\ Step(from) \in Int
      BY <3>1, InfosAssumption
    <3> QED BY <3>2 DEF Measure
  <2>3. d \in Double
    BY <2>1, <2>2, ConvertedInt DEF Double
  <2> QED BY <2>1, <2>3, SetDFits
<1>5. CASE val # Unset /\ ~ IsText(info.type) /\ IsText(from.type)
  BY <1>1, <1>5 DEF SetVal
<1> QED
  BY <1>2, <1>3, <1>4, <1>5

----------------------------------------------------------------------------
(* Maps, objects and buffers *)

(* The memory: what an address holds is an object or a buffer. *)
IsMap(f) == f = [k \in DOMAIN f |-> f[k]]

(* A variable or an attribute in memory has the four fields of Var. *)
IsObject(v) ==
  /\ v = [info |-> v.info, isset |-> v.isset, next |-> v.next, slot |-> v.slot]
  /\ v.info \in Infos /\ v.isset \in BOOLEAN

(* A buffer has its capacity and its bytes. *)
IsBuffer(b) == b = [cap |-> b.cap, bytes |-> b.bytes]

(* The objects and the buffers that are allocated, none of them at nullptr. *)
IsMemory(m) ==
  /\ m = [obj |-> m.obj, buf |-> m.buf]
  /\ IsMap(m.obj) /\ DOMAIN m.obj \subseteq Name \cup Attr
  /\ \A o \in DOMAIN m.obj : IsObject(m.obj[o])
  /\ IsMap(m.buf) /\ DOMAIN m.buf \subseteq Buffer
  /\ \A b \in DOMAIN m.buf : IsBuffer(m.buf[b])

(* g is f with v put at k, and f without some keys. *)
IsPut(g, f, k, v) ==
  /\ IsMap(g) /\ DOMAIN g = DOMAIN f \cup {k} /\ g[k] = v
  /\ \A j \in DOMAIN f \ {k} : g[j] = f[j]

(* g is f without keys. *)
IsWithout(g, f, keys) ==
  /\ IsMap(g) /\ DOMAIN g = DOMAIN f \ keys
  /\ \A j \in DOMAIN f \ keys : g[j] = f[j]

(* What Put does to a map. *)
LEMMA PutIs ==
  ASSUME NEW f, NEW k, NEW v, IsMap(f)
  PROVE  IsPut(Put(f, k, v), f, k, v)
BY DEF IsMap, Put, IsPut

(* What Without does to a map. *)
LEMMA WithoutIs ==
  ASSUME NEW f, NEW keys, IsMap(f)
  PROVE  IsWithout(Without(f, keys), f, keys)
BY DEF IsMap, Without, IsWithout

(* Linking changes a pointer. *)
LEMMA LinkDoes ==
  ASSUME NEW m, IsMemory(m), NEW o \in DOMAIN m.obj, NEW a,
         NEW n, n = Link(m, o, a)
  PROVE  /\ IsMemory(n) /\ n.buf = m.buf /\ DOMAIN n.obj = DOMAIN m.obj
         /\ n.obj[o] = [info |-> m.obj[o].info, isset |-> m.obj[o].isset, next |-> a,
                        slot |-> m.obj[o].slot]
         /\ \A p \in DOMAIN m.obj \ {o} : n.obj[p] = m.obj[p]
<1>1. n = [obj |-> [m.obj EXCEPT ![o] = [m.obj[o] EXCEPT !.next = a]], buf |-> m.buf]
  BY DEF IsMemory, Link
<1>2. n.obj = [m.obj EXCEPT ![o] = [m.obj[o] EXCEPT !.next = a]] /\ n.buf = m.buf
  BY <1>1
<1>3. [m.obj[o] EXCEPT !.next = a]
        = [info |-> m.obj[o].info, isset |-> m.obj[o].isset, next |-> a,
           slot |-> m.obj[o].slot]
  BY DEF IsMemory, IsObject
<1>4. /\ DOMAIN n.obj = DOMAIN m.obj /\ IsMap(n.obj)
      /\ n.obj[o] = [info |-> m.obj[o].info, isset |-> m.obj[o].isset, next |-> a,
                     slot |-> m.obj[o].slot]
      /\ \A p \in DOMAIN m.obj \ {o} : n.obj[p] = m.obj[p]
  BY <1>2, <1>3 DEF IsMap
<1>5. IsObject(n.obj[o])
  BY <1>4 DEF IsObject, IsMemory
<1>6. \A p \in DOMAIN n.obj : IsObject(n.obj[p])
  BY <1>4, <1>5 DEF IsMemory
<1>7. n = [obj |-> n.obj, buf |-> n.buf]
  BY <1>1
<1> QED
  BY <1>2, <1>4, <1>6, <1>7 DEF IsMemory

(* A new object is put at its address. *)
LEMMA WithObjDoes ==
  ASSUME NEW m, IsMemory(m), NEW o \in Name \cup Attr, NEW v, IsObject(v),
         NEW n, n = WithObj(m, o, v)
  PROVE  /\ IsMemory(n) /\ n.buf = m.buf /\ DOMAIN n.obj = DOMAIN m.obj \cup {o}
         /\ n.obj[o] = v
         /\ \A p \in DOMAIN m.obj \ {o} : n.obj[p] = m.obj[p]
<1>1. n = [obj |-> Put(m.obj, o, v), buf |-> m.buf]
  BY DEF IsMemory, WithObj
<1>2. n.obj = Put(m.obj, o, v) /\ n.buf = m.buf /\ n = [obj |-> n.obj, buf |-> n.buf]
  BY <1>1
<1>3. IsMap(m.obj)
  BY DEF IsMemory
<1>4. /\ IsMap(n.obj) /\ DOMAIN n.obj = DOMAIN m.obj \cup {o} /\ n.obj[o] = v
      /\ \A p \in DOMAIN m.obj \ {o} : n.obj[p] = m.obj[p]
  <2>1. IsPut(Put(m.obj, o, v), m.obj, o, v)
    BY <1>3, PutIs
  <2> QED BY <2>1, <1>2 DEF IsPut
<1> QED
  BY <1>2, <1>4 DEF IsMemory

(* A constructed variable has no value, no attributes and no buffer. *)
LEMMA NewVarIs ==
  ASSUME NEW info \in Infos
  PROVE  /\ IsObject(NewVar(info)) /\ NewVar(info).info = info
         /\ NewVar(info).isset = FALSE /\ NewVar(info).next = Nil
         /\ IsText(info.type) => NewVar(info).slot = Nil
BY DEF NewVar, EmptySlot, IsObject

(* Setting the flag and what is in the slot. *)
Marked(m, o, isset, slot) == [m EXCEPT !.obj[o].isset = isset, !.obj[o].slot = slot]

(* Changing isset and the slot of one object leaves all else. *)
LEMMA MarkedDoes ==
  ASSUME NEW m, IsMemory(m), NEW o \in DOMAIN m.obj, NEW isset \in BOOLEAN, NEW slot,
         NEW n, n = Marked(m, o, isset, slot)
  PROVE  /\ IsMemory(n) /\ n.buf = m.buf /\ DOMAIN n.obj = DOMAIN m.obj
         /\ n.obj[o] = [info |-> m.obj[o].info, isset |-> isset, next |-> m.obj[o].next,
                        slot |-> slot]
         /\ \A p \in DOMAIN m.obj \ {o} : n.obj[p] = m.obj[p]
<1> DEFINE v == [info |-> m.obj[o].info, isset |-> isset, next |-> m.obj[o].next,
                 slot |-> slot]
<1>1. n = [obj |-> [m.obj EXCEPT ![o] = [m.obj[o] EXCEPT !.isset = isset, !.slot = slot]],
           buf |-> m.buf]
  BY DEF IsMemory, Marked, IsMap
<1>2. /\ n.obj = [m.obj EXCEPT ![o] = [m.obj[o] EXCEPT !.isset = isset, !.slot = slot]]
      /\ n.buf = m.buf
  BY <1>1
<1>3. [m.obj[o] EXCEPT !.isset = isset, !.slot = slot] = v
  <2>1. PICK w : w = m.obj[o] /\ IsObject(w)
    BY DEF IsMemory
  <2>2. [w EXCEPT !.isset = isset, !.slot = slot]
          = [info |-> w.info, isset |-> isset, next |-> w.next, slot |-> slot]
    <3>1. w = [info |-> w.info, isset |-> w.isset, next |-> w.next, slot |-> w.slot]
      BY <2>1 DEF IsObject
    <3>2. PICK i, s, x, l : i = w.info /\ s = w.isset /\ x = w.next /\ l = w.slot
      OBVIOUS
    <3>3. w = [info |-> i, isset |-> s, next |-> x, slot |-> l]
      BY <3>1, <3>2
    <3>4. PICK u : u = [w EXCEPT !.isset = isset]
      OBVIOUS
    <3>5. u = [info |-> i, isset |-> isset, next |-> x, slot |-> l]
      BY <3>3, <3>4
    <3>6. [u EXCEPT !.slot = slot]
            = [info |-> i, isset |-> isset, next |-> x, slot |-> slot]
      BY <3>5
    <3>7. [w EXCEPT !.isset = isset, !.slot = slot] = [u EXCEPT !.slot = slot]
      BY <3>4, Zenon
    <3> QED BY <3>2, <3>6, <3>7
  <2> QED BY <2>1, <2>2
<1>4. IsObject(v)
  BY DEF IsMemory, IsObject
<1> HIDE DEF v
<1>5. /\ DOMAIN n.obj = DOMAIN m.obj /\ IsMap(n.obj) /\ n.obj[o] = v
      /\ \A p \in DOMAIN m.obj \ {o} : n.obj[p] = m.obj[p]
  BY <1>2, <1>3 DEF IsMap
<1>6. \A p \in DOMAIN n.obj : IsObject(n.obj[p])
  BY <1>4, <1>5 DEF IsMemory
<1>7. n = [obj |-> n.obj, buf |-> n.buf]
  BY <1>1
<1>8. IsMemory(n)
  BY <1>2, <1>5, <1>6, <1>7 DEF IsMemory
<1> QED
  BY <1>2, <1>5, <1>8 DEF v

----------------------------------------------------------------------------
(* The buffers and what the objects hold *)

(* Texts own their buffers, and every value is one that its variable may hold. *)
TextsOf(m) == {o \in DOMAIN m.obj : IsText(m.obj[o].info.type)}

(* A buffer has room for the bytes of an info. *)
LongEnough(b, info) == b.cap \in Nat /\ b.cap >= info.len

(* Every buffer is that of one text, long enough for its info. *)
Buffers(m) ==
  /\ \A o \in TextsOf(m) :
       /\ m.obj[o].isset => m.obj[o].slot # Nil
       /\ m.obj[o].slot # Nil => /\ m.obj[o].slot \in DOMAIN m.buf
                                 /\ LongEnough(m.buf[m.obj[o].slot], m.obj[o].info)
  /\ \A o, p \in TextsOf(m) :
       m.obj[o].slot # Nil /\ m.obj[o].slot = m.obj[p].slot => o = p
  /\ \A b \in DOMAIN m.buf : \E o \in TextsOf(m) : m.obj[o].slot = b

(* What is set is there, and is what its info may hold. *)
Values(m) ==
  \A o \in DOMAIN m.obj : /\ Fits(InfoOf(m, o), Held(m, o))
                          /\ m.obj[o].isset => Held(m, o) # Unset

(* The state of the allocations and values, whatever the pointers between objects. *)
Heap(m) == IsMemory(m) /\ Buffers(m) /\ Values(m)

(* The objects of m are there in n, with their values and pointers, save for the
   value of o. *)
SaveFor(m, n, o) ==
  /\ DOMAIN n.obj = DOMAIN m.obj
  /\ \A p \in DOMAIN m.obj : InfoOf(n, p) = InfoOf(m, p) /\ n.obj[p].next = m.obj[p].next
  /\ \A p \in DOMAIN m.obj \ {o} : Held(n, p) = Held(m, p)

(* What an object holds: nothing, the bytes of its buffer, or the number in its slot. *)
LEMMA HeldIs ==
  ASSUME NEW m, NEW o
  PROVE  /\ ~ m.obj[o].isset => Held(m, o) = Unset
         /\ m.obj[o].isset /\ IsText(InfoOf(m, o).type) =>
              Held(m, o) = m.buf[m.obj[o].slot].bytes
         /\ m.obj[o].isset /\ ~ IsText(InfoOf(m, o).type) => Held(m, o) = m.obj[o].slot
BY DEF Held

(* An object whose fields and buffer are not touched holds the same. *)
LEMMA HeldSame ==
  ASSUME NEW m, NEW n, NEW o, m.obj[o].isset \in BOOLEAN,
         InfoOf(n, o) = InfoOf(m, o), n.obj[o].isset = m.obj[o].isset,
         n.obj[o].slot = m.obj[o].slot,
         m.obj[o].isset /\ IsText(InfoOf(m, o).type) =>
           n.buf[m.obj[o].slot] = m.buf[m.obj[o].slot]
  PROVE  Held(n, o) = Held(m, o)
<1>1. CASE m.obj[o].isset /\ IsText(InfoOf(m, o).type)
  <2>1. /\ Held(m, o) = m.buf[m.obj[o].slot].bytes
        /\ Held(n, o) = n.buf[n.obj[o].slot].bytes
    BY <1>1 DEF Held
  <2> QED BY <1>1, <2>1
<1>2. CASE m.obj[o].isset /\ ~ IsText(InfoOf(m, o).type)
  BY <1>2, HeldIs
<1>3. CASE ~ m.obj[o].isset
  BY <1>3, HeldIs
<1> QED
  BY <1>1, <1>2, <1>3

(* Allocating an object leaves the others what they hold. *)
LEMMA HeapNew ==
  ASSUME NEW m, Heap(m), NEW o \in (Name \cup Attr) \ DOMAIN m.obj, NEW info \in Infos,
         NEW n, n = WithObj(m, o, NewVar(info))
  PROVE  /\ Heap(n) /\ DOMAIN n.obj = DOMAIN m.obj \cup {o}
         /\ InfoOf(n, o) = info /\ Held(n, o) = Unset /\ n.obj[o].next = Nil
         /\ \A p \in DOMAIN m.obj : n.obj[p] = m.obj[p] /\ Held(n, p) = Held(m, p)
<1>1. /\ IsObject(NewVar(info)) /\ NewVar(info).info = info
      /\ NewVar(info).isset = FALSE /\ NewVar(info).next = Nil
      /\ IsText(info.type) => NewVar(info).slot = Nil
  BY NewVarIs
<1>2. /\ IsMemory(n) /\ n.buf = m.buf /\ DOMAIN n.obj = DOMAIN m.obj \cup {o}
      /\ n.obj[o] = NewVar(info)
      /\ \A p \in DOMAIN m.obj \ {o} : n.obj[p] = m.obj[p]
  BY <1>1, WithObjDoes DEF Heap
<1>3. \A p \in DOMAIN m.obj : n.obj[p] = m.obj[p]
  BY <1>2
<1>4. \A p \in DOMAIN m.obj : Held(n, p) = Held(m, p)
  BY <1>2, <1>3, HeldSame DEF Heap, IsMemory, IsObject, InfoOf
<1>5. Held(n, o) = Unset
  BY <1>1, <1>2, HeldIs
<1>6. InfoOf(n, o) = info
  BY <1>1, <1>2 DEF InfoOf
<1>7. Values(n)
  BY <1>1, <1>2, <1>3, <1>4, <1>5, <1>6, UnsetFits DEF Values, Heap, InfoOf
<1>8. Buffers(n)
  BY <1>1, <1>2, <1>3 DEF Buffers, TextsOf, Heap
<1> QED
  BY <1>1, <1>2, <1>3, <1>4, <1>5, <1>6, <1>7, <1>8 DEF Heap

(* Setting the pointer of an object leaves all what they hold. *)
LEMMA HeapLink ==
  ASSUME NEW m, Heap(m), NEW o \in DOMAIN m.obj, NEW a, NEW n, n = Link(m, o, a)
  PROVE  /\ Heap(n) /\ DOMAIN n.obj = DOMAIN m.obj
         /\ n.obj[o].next = a
         /\ \A p \in DOMAIN m.obj \ {o} : n.obj[p].next = m.obj[p].next
         /\ \A p \in DOMAIN m.obj : InfoOf(n, p) = InfoOf(m, p) /\ Held(n, p) = Held(m, p)
<1>1. /\ IsMemory(n) /\ n.buf = m.buf /\ DOMAIN n.obj = DOMAIN m.obj
      /\ n.obj[o] = [info |-> m.obj[o].info, isset |-> m.obj[o].isset, next |-> a,
                     slot |-> m.obj[o].slot]
      /\ \A p \in DOMAIN m.obj \ {o} : n.obj[p] = m.obj[p]
  BY LinkDoes DEF Heap
<1>2. \A p \in DOMAIN m.obj : /\ n.obj[p].info = m.obj[p].info
                              /\ n.obj[p].isset = m.obj[p].isset
                              /\ n.obj[p].slot = m.obj[p].slot
  BY <1>1
<1>3. \A p \in DOMAIN m.obj : InfoOf(n, p) = InfoOf(m, p) /\ Held(n, p) = Held(m, p)
  BY <1>1, <1>2, HeldSame DEF Heap, IsMemory, IsObject, InfoOf
<1>4. Values(n)
  BY <1>1, <1>2, <1>3 DEF Values, Heap
<1>5. TextsOf(n) = TextsOf(m)
  BY <1>1, <1>2 DEF TextsOf
<1>6. Buffers(n)
  BY <1>1, <1>2, <1>5 DEF Buffers, Heap, TextsOf
<1> QED
  BY <1>1, <1>3, <1>4, <1>6 DEF Heap

(* Deleting objects with their buffers leaves the others what they hold. *)
LEMMA HeapDelete ==
  ASSUME NEW m, Heap(m), NEW S \in SUBSET DOMAIN m.obj, NEW n, n = Delete(m, S)
  PROVE  /\ Heap(n) /\ DOMAIN n.obj = DOMAIN m.obj \ S
         /\ \A p \in DOMAIN m.obj \ S : n.obj[p] = m.obj[p] /\ Held(n, p) = Held(m, p)
<1> DEFINE bufs == {m.obj[o].slot : o \in {p \in S : IsText(InfoOf(m, p).type)}}
<1>1. n = [obj |-> Without(m.obj, S), buf |-> Without(m.buf, bufs)]
  BY DEF Delete
<1>2. IsWithout(n.obj, m.obj, S) /\ IsWithout(n.buf, m.buf, bufs)
  BY <1>1, WithoutIs DEF Heap, IsMemory
<1>3. \A b \in bufs : \E o \in S : o \in TextsOf(m) /\ b = m.obj[o].slot
  BY DEF TextsOf, InfoOf
<1>4. \A o \in S : o \in TextsOf(m) => m.obj[o].slot \in bufs
  BY DEF TextsOf, InfoOf
<1>5. n = [obj |-> n.obj, buf |-> n.buf]
  BY <1>1
<1> HIDE DEF bufs
<1>6. /\ DOMAIN n.obj = DOMAIN m.obj \ S /\ \A p \in DOMAIN m.obj \ S : n.obj[p] = m.obj[p]
      /\ DOMAIN n.buf = DOMAIN m.buf \ bufs /\ \A b \in DOMAIN m.buf \ bufs : n.buf[b] = m.buf[b]
  BY <1>2 DEF IsWithout
<1>7. IsMemory(n)
  BY <1>2, <1>5, <1>6 DEF Heap, IsMemory, IsWithout
<1>8. \A p \in TextsOf(m) \ S : m.obj[p].slot # Nil => m.obj[p].slot \notin bufs
  BY <1>3 DEF Heap, Buffers
<1>9. TextsOf(n) = TextsOf(m) \ S
  BY <1>6 DEF TextsOf
<1>10. Buffers(n)
  <2>1. \A b \in DOMAIN n.buf : \E o \in TextsOf(n) : n.obj[o].slot = b
    BY <1>4, <1>6, <1>9 DEF Heap, Buffers, TextsOf
  <2>2. \A o \in TextsOf(n) :
          /\ n.obj[o].isset => n.obj[o].slot # Nil
          /\ n.obj[o].slot # Nil => /\ n.obj[o].slot \in DOMAIN n.buf
                                    /\ LongEnough(n.buf[n.obj[o].slot], n.obj[o].info)
    BY <1>6, <1>8, <1>9 DEF Heap, Buffers, TextsOf
  <2>3. \A o, p \in TextsOf(n) :
          n.obj[o].slot # Nil /\ n.obj[o].slot = n.obj[p].slot => o = p
    BY <1>6, <1>9 DEF Heap, Buffers, TextsOf
  <2> QED BY <2>1, <2>2, <2>3 DEF Buffers
<1>11. ASSUME NEW p \in DOMAIN m.obj \ S
       PROVE  Held(n, p) = Held(m, p)
  <2>1. /\ n.obj[p] = m.obj[p] /\ m.obj[p].isset \in BOOLEAN /\ InfoOf(n, p) = InfoOf(m, p)
    BY <1>6 DEF Heap, IsMemory, IsObject, InfoOf
  <2>2. m.obj[p].isset /\ IsText(InfoOf(m, p).type) =>
          n.buf[m.obj[p].slot] = m.buf[m.obj[p].slot]
    <3> SUFFICES ASSUME m.obj[p].isset, IsText(InfoOf(m, p).type)
                 PROVE  n.buf[m.obj[p].slot] = m.buf[m.obj[p].slot]
      OBVIOUS
    <3>1. p \in TextsOf(m) \ S
      BY DEF TextsOf, InfoOf
    <3>2. m.obj[p].slot \in DOMAIN m.buf \ bufs
      BY <3>1, <1>8 DEF Heap, Buffers
    <3> QED BY <3>2, <1>6
  <2> QED BY <2>1, <2>2, HeldSame
<1>12. Values(n)
  BY <1>6, <1>11 DEF Heap, Values, InfoOf
<1> QED
  BY <1>6, <1>7, <1>10, <1>11, <1>12 DEF Heap

(* There is a buffer for a text that has none. *)
LEMMA BufferFree ==
  ASSUME NEW m, Heap(m), NEW o \in TextsOf(m), m.obj[o].slot = Nil
  PROVE  AnyOf(FreeBufs(m)) \in Buffer \ DOMAIN m.buf
<1> SUFFICES ASSUME DOMAIN m.buf = Buffer PROVE FALSE
  <2>1. \E b : b \in FreeBufs(m) \/ DOMAIN m.buf = Buffer
    BY DEF Heap, IsMemory, FreeBufs
  <2> QED BY <2>1 DEF FreeBufs, AnyOf, Heap, IsMemory
<1> DEFINE T == (Name \cup Attr) \ {o}
           f == [b \in Buffer |-> CHOOSE p \in TextsOf(m) : m.obj[p].slot = b]
<1>1. ASSUME NEW b \in Buffer
      PROVE  f[b] \in TextsOf(m) /\ m.obj[f[b]].slot = b
  <2>1. \E p \in TextsOf(m) : m.obj[p].slot = b
    BY DEF Heap, Buffers
  <2> QED BY <2>1
<1>2. f \in [Buffer -> T]
  <2>1. ASSUME NEW b \in Buffer PROVE f[b] \in T
    <3>1. f[b] \in TextsOf(m) /\ m.obj[f[b]].slot = b
      BY <1>1
    <3>2. b # Nil
      BY RoomAssumption
    <3>3. f[b] # o
      BY <3>1, <3>2
    <3>4. f[b] \in Name \cup Attr
      BY <3>1 DEF TextsOf, Heap, IsMemory
    <3> QED BY <3>3, <3>4
  <2> QED BY <2>1
<1>3. \A b, c \in Buffer : b # c => f[b] # f[c]
  BY <1>1
<1>4. IsFiniteSet(Buffer) /\ Cardinality(Buffer) = MaxBuf
  BY FS_Interval, RoomAssumption DEF Buffer
<1>5. IsFiniteSet(Attr) /\ Cardinality(Attr) = MaxAttr
  BY FS_Interval, RoomAssumption DEF Attr
<1>6. IsFiniteSet(Name \cup Attr) /\ Cardinality(Name \cup Attr) = Cardinality(Name) + MaxAttr
  <2>1. Name \cap Attr = {} /\ Cardinality({}) = 0 /\ IsFiniteSet(Name)
    BY RoomAssumption, FS_EmptySet
  <2>2. Cardinality(Name) \in Nat
    BY <2>1, FS_CardinalityType
  <2>3. /\ IsFiniteSet(Name \cup Attr)
        /\ Cardinality(Name \cup Attr)
             = Cardinality(Name) + Cardinality(Attr) - Cardinality(Name \cap Attr)
    BY <2>1, <1>5, FS_Union
  <2>4. Cardinality(Name \cap Attr) = 0
    BY <2>1
  <2>5. PICK c \in Nat : c = Cardinality(Name)
    BY <2>2
  <2>6. MaxAttr \in Nat
    BY RoomAssumption
  <2> QED BY <2>3, <2>4, <2>5, <2>6, <1>5
<1>7. o \in Name \cup Attr
  BY DEF TextsOf, Heap, IsMemory
<1>8. IsFiniteSet(T) /\ Cardinality(T) = Cardinality(Name) + MaxAttr - 1
  <2>1. PICK all : all = Name \cup Attr
    OBVIOUS
  <2>2. /\ IsFiniteSet(all \ {o})
        /\ Cardinality(all \ {o}) = IF o \in all THEN Cardinality(all) - 1
                                     ELSE Cardinality(all)
    BY <1>6, <2>1, FS_RemoveElement
  <2>3. o \in all /\ T = all \ {o} /\ Cardinality(all) = Cardinality(Name) + MaxAttr
    BY <1>6, <1>7, <2>1
  <2>4. IsFiniteSet(T) /\ Cardinality(T) = Cardinality(all) - 1
    <3>1. IsFiniteSet(all \ {o}) /\ Cardinality(all \ {o}) = Cardinality(all) - 1
      BY <2>2, <2>3
    <3> HIDE DEF T
    <3> QED BY <3>1, <2>3
  <2>5. Cardinality(all) = Cardinality(Name) + MaxAttr
    BY <2>3
  <2>6. Cardinality(Name) \in Nat /\ MaxAttr \in Nat
    BY RoomAssumption, FS_CardinalityType
  <2> HIDE DEF T
  <2> QED BY <2>4, <2>5, <2>6
<1>9. Cardinality(T) < Cardinality(Buffer)
  <2>1. Cardinality(Name) \in Nat
    BY RoomAssumption, FS_CardinalityType
  <2> QED BY <2>1, <1>4, <1>8, RoomAssumption
<1> HIDE DEF f, T
<1> QED
  BY <1>2, <1>3, <1>4, <1>8, <1>9, FS_PigeonHole

(* What a text of n is, when it is o that has been given a buffer or bytes. *)
LEMMA AllocateDoes ==
  ASSUME NEW m, Heap(m), NEW o \in TextsOf(m), NEW n, n = Allocate(m, o)
  PROVE  /\ IsMemory(n) /\ Buffers(n) /\ DOMAIN n.obj = DOMAIN m.obj
         /\ \A p \in DOMAIN m.obj \ {o} : n.obj[p] = m.obj[p]
         /\ InfoOf(n, o) = InfoOf(m, o) /\ n.obj[o].next = m.obj[o].next
         /\ n.obj[o].slot # Nil
         /\ \A b \in DOMAIN m.buf : n.buf[b] = m.buf[b]
<1>1. CASE m.obj[o].slot # Nil
  BY <1>1 DEF Allocate, Heap
<1>2. CASE m.obj[o].slot = Nil
  <2> DEFINE b == AnyOf(FreeBufs(m))
             new == [cap |-> InfoOf(m, o).len, bytes |-> <<>>]
             slotted == [m EXCEPT !.obj[o].slot = b]
  <2>1. b \in Buffer \ DOMAIN m.buf /\ b # Nil
    BY <1>2, BufferFree, RoomAssumption
  <2>2. IsBuffer(new) /\ LongEnough(new, InfoOf(m, o))
    <3>1. InfoOf(m, o) \in Infos
      BY DEF TextsOf, Heap, IsMemory, IsObject, InfoOf
    <3>2. PICK l \in Nat : l = InfoOf(m, o).len
      BY <3>1, InfosAssumption
    <3> QED BY <3>2 DEF IsBuffer, LongEnough
  <2>3. IsMap(m.obj) /\ IsMap(m.buf) /\ o \in DOMAIN m.obj /\ IsObject(m.obj[o])
    BY DEF TextsOf, Heap, IsMemory
  <2>4. n = [obj |-> [m.obj EXCEPT ![o] = [m.obj[o] EXCEPT !.slot = b]],
             buf |-> Put(m.buf, b, new)]
    BY <1>2 DEF Allocate, Heap, IsMemory
  <2> HIDE DEF b, new, slotted
  <2>5. /\ n.obj = [m.obj EXCEPT ![o] = [m.obj[o] EXCEPT !.slot = b]]
        /\ n.buf = Put(m.buf, b, new) /\ n = [obj |-> n.obj, buf |-> n.buf]
    BY <2>4
  <2>6. [m.obj[o] EXCEPT !.slot = b]
          = [info |-> m.obj[o].info, isset |-> m.obj[o].isset, next |-> m.obj[o].next,
             slot |-> b]
    BY <2>3 DEF IsObject
  <2>7. /\ DOMAIN n.obj = DOMAIN m.obj /\ IsMap(n.obj)
        /\ n.obj[o] = [info |-> m.obj[o].info, isset |-> m.obj[o].isset,
                       next |-> m.obj[o].next, slot |-> b]
        /\ \A p \in DOMAIN m.obj \ {o} : n.obj[p] = m.obj[p]
    BY <2>3, <2>5, <2>6 DEF IsMap
  <2>8. IsObject(n.obj[o])
    BY <2>3, <2>7 DEF IsObject
  <2>9. IsPut(n.buf, m.buf, b, new)
    BY <2>3, <2>5, PutIs
  <2>10. IsMemory(n)
    BY <2>1, <2>2, <2>5, <2>7, <2>8, <2>9 DEF IsMemory, Heap, IsPut
  <2>11. TextsOf(n) = TextsOf(m)
    BY <2>7 DEF TextsOf
  <2>12. \A p \in TextsOf(m) \ {o} : m.obj[p].slot # b
    BY <2>1, RoomAssumption DEF Heap, Buffers
  <2>13. m.obj[o].isset = FALSE
    BY <1>2, <2>3 DEF Heap, Buffers, IsObject
  <2>14. Buffers(n)
    <3>1. \A c \in DOMAIN n.buf : \E p \in TextsOf(n) : n.obj[p].slot = c
      BY <1>2, <2>1, <2>7, <2>9, <2>11, RoomAssumption DEF Heap, Buffers, IsPut, IsMemory, TextsOf
    <3>2. \A p \in TextsOf(n) :
            /\ n.obj[p].isset => n.obj[p].slot # Nil
            /\ n.obj[p].slot # Nil => /\ n.obj[p].slot \in DOMAIN n.buf
                                      /\ LongEnough(n.buf[n.obj[p].slot], n.obj[p].info)
      <4>1. ASSUME NEW p \in TextsOf(m) \ {o}
            PROVE  /\ n.obj[p].isset => n.obj[p].slot # Nil
                   /\ n.obj[p].slot # Nil => /\ n.obj[p].slot \in DOMAIN n.buf
                                             /\ LongEnough(n.buf[n.obj[p].slot], n.obj[p].info)
        BY <2>7, <2>9, <2>12 DEF Heap, Buffers, IsPut, TextsOf
      <4>2. /\ n.obj[o].isset => n.obj[o].slot # Nil
            /\ n.obj[o].slot # Nil => /\ n.obj[o].slot \in DOMAIN n.buf
                                      /\ LongEnough(n.buf[n.obj[o].slot], n.obj[o].info)
        BY <2>1, <2>2, <2>7, <2>9, <2>13 DEF IsPut, InfoOf
      <4> QED BY <4>1, <4>2, <2>11
    <3>3. \A p, q \in TextsOf(n) :
            n.obj[p].slot # Nil /\ n.obj[p].slot = n.obj[q].slot => p = q
      BY <2>7, <2>11, <2>12 DEF Heap, Buffers, TextsOf
    <3> QED BY <3>1, <3>2, <3>3 DEF Buffers
  <2> QED BY <2>1, <2>7, <2>9, <2>10, <2>14 DEF IsPut, InfoOf
<1> QED
  BY <1>1, <1>2

(* The flag of an object is set. *)
LEMMA FlagSet ==
  ASSUME NEW v, IsObject(v), NEW t
  PROVE  [v EXCEPT !.isset = t]
           = [info |-> v.info, isset |-> t, next |-> v.next, slot |-> v.slot]
BY DEF IsObject

(* The buffer of a text gets its bytes. *)
Filled(m, n, o, bytes) ==
  /\ IsMemory(n) /\ Buffers(n) /\ DOMAIN n.obj = DOMAIN m.obj
  /\ \A p \in DOMAIN m.obj \ {o} : n.obj[p] = m.obj[p]
  /\ InfoOf(n, o) = InfoOf(m, o) /\ n.obj[o].next = m.obj[o].next
  /\ n.obj[o].isset = TRUE /\ n.obj[o].slot = m.obj[o].slot
  /\ n.buf[m.obj[o].slot].bytes = bytes
  /\ \A b \in DOMAIN m.buf \ {m.obj[o].slot} : n.buf[b] = m.buf[b]

(* Writing into the buffer of a text changes that buffer only. *)
LEMMA FillDoes ==
  ASSUME NEW m, IsMemory(m), Buffers(m), NEW o \in TextsOf(m), m.obj[o].slot # Nil,
         NEW bytes, NEW n, n = Fill(m, o, bytes)
  PROVE  Filled(m, n, o, bytes)
<1>1. PICK s : s = m.obj[o].slot
  OBVIOUS
<1>2. s \in DOMAIN m.buf /\ o \in DOMAIN m.obj /\ IsObject(m.obj[o]) /\ IsBuffer(m.buf[s])
  BY <1>1 DEF Buffers, TextsOf, IsMemory
<1>3. n = [obj |-> [m.obj EXCEPT ![o] = [m.obj[o] EXCEPT !.isset = TRUE]],
           buf |-> [m.buf EXCEPT ![s] = [m.buf[s] EXCEPT !.bytes = bytes]]]
  BY <1>1, <1>2 DEF Fill, IsMemory
<1>4. /\ n.obj = [m.obj EXCEPT ![o] = [m.obj[o] EXCEPT !.isset = TRUE]]
      /\ n.buf = [m.buf EXCEPT ![s] = [m.buf[s] EXCEPT !.bytes = bytes]]
      /\ n = [obj |-> n.obj, buf |-> n.buf]
  BY <1>3
<1>5. [m.obj[o] EXCEPT !.isset = TRUE]
        = [info |-> m.obj[o].info, isset |-> TRUE, next |-> m.obj[o].next, slot |-> s]
  BY <1>1, <1>2, FlagSet, Zenon
<1>6. [m.buf[s] EXCEPT !.bytes = bytes] = [cap |-> m.buf[s].cap, bytes |-> bytes]
  BY <1>2 DEF IsBuffer
<1>7. /\ DOMAIN n.obj = DOMAIN m.obj /\ IsMap(n.obj)
      /\ n.obj[o] = [info |-> m.obj[o].info, isset |-> TRUE, next |-> m.obj[o].next,
                     slot |-> s]
      /\ \A p \in DOMAIN m.obj \ {o} : n.obj[p] = m.obj[p]
  BY <1>2, <1>4, <1>5 DEF IsMap, IsMemory
<1>8. /\ DOMAIN n.buf = DOMAIN m.buf /\ IsMap(n.buf)
      /\ n.buf[s] = [cap |-> m.buf[s].cap, bytes |-> bytes]
      /\ \A b \in DOMAIN m.buf \ {s} : n.buf[b] = m.buf[b]
  BY <1>2, <1>4, <1>6 DEF IsMap, IsMemory
<1>9. IsObject(n.obj[o]) /\ IsBuffer(n.buf[s])
  BY <1>2, <1>7, <1>8 DEF IsObject, IsBuffer
<1>10. IsMemory(n)
  BY <1>4, <1>7, <1>8, <1>9 DEF IsMemory
<1>11. TextsOf(n) = TextsOf(m)
  BY <1>7 DEF TextsOf
<1>12. Buffers(n)
  <2>1. \A p \in DOMAIN m.obj : /\ n.obj[p].info = m.obj[p].info
                                /\ n.obj[p].slot = m.obj[p].slot
                                /\ p # o => n.obj[p].isset = m.obj[p].isset
    BY <1>1, <1>7
  <2>2. \A b \in DOMAIN m.buf, info \in Infos :
          LongEnough(m.buf[b], info) => LongEnough(n.buf[b], info)
    BY <1>8 DEF LongEnough
  <2>3. \A p \in DOMAIN m.obj : m.obj[p].info \in Infos
    BY DEF IsMemory, IsObject
  <2> QED BY <1>7, <1>8, <1>11, <2>1, <2>2, <2>3 DEF Buffers, TextsOf
<1> QED
  BY <1>1, <1>7, <1>8, <1>10, <1>12 DEF InfoOf, Filled

(* Storing a text allocates its buffer if it has none and fills it. *)
LEMMA StoreText ==
  ASSUME NEW m, Heap(m), NEW o \in TextsOf(m), NEW val, val # Unset,
         Fits(InfoOf(m, o), val), NEW n, n = Store(m, o, val)
  PROVE  Heap(n) /\ SaveFor(m, n, o) /\ Held(n, o) = val
<1>1. IsText(InfoOf(m, o).type) /\ o \in DOMAIN m.obj
  BY DEF TextsOf, InfoOf
<1>2. PICK a : a = Allocate(m, o)
  OBVIOUS
<1>3. n = Fill(a, o, val)
  BY <1>1, <1>2 DEF Store
<1>4. /\ IsMemory(a) /\ Buffers(a) /\ DOMAIN a.obj = DOMAIN m.obj
      /\ \A p \in DOMAIN m.obj \ {o} : a.obj[p] = m.obj[p]
      /\ InfoOf(a, o) = InfoOf(m, o) /\ a.obj[o].next = m.obj[o].next
      /\ a.obj[o].slot # Nil
      /\ \A b \in DOMAIN m.buf : a.buf[b] = m.buf[b]
  BY <1>2, AllocateDoes
<1>5. o \in TextsOf(a)
  BY <1>1, <1>4 DEF TextsOf, InfoOf
<1>6. /\ IsMemory(n) /\ Buffers(n) /\ DOMAIN n.obj = DOMAIN a.obj
      /\ \A p \in DOMAIN a.obj \ {o} : n.obj[p] = a.obj[p]
      /\ InfoOf(n, o) = InfoOf(a, o) /\ n.obj[o].next = a.obj[o].next
      /\ n.obj[o].isset = TRUE /\ n.obj[o].slot = a.obj[o].slot
      /\ n.buf[a.obj[o].slot].bytes = val
      /\ \A b \in DOMAIN a.buf \ {a.obj[o].slot} : n.buf[b] = a.buf[b]
  <2>1. Filled(a, n, o, val)
    BY <1>3, <1>4, <1>5, FillDoes
  <2> QED BY <2>1 DEF Filled
<1>7. Held(n, o) = val
  <2>1. n.obj[o].isset /\ IsText(InfoOf(n, o).type)
    BY <1>1, <1>4, <1>6
  <2>2. Held(n, o) = n.buf[n.obj[o].slot].bytes
    BY <2>1, HeldIs
  <2> QED BY <2>2, <1>6
<1>8. ASSUME NEW p \in DOMAIN m.obj \ {o}
      PROVE  n.obj[p] = m.obj[p] /\ InfoOf(n, p) = InfoOf(m, p) /\ Held(n, p) = Held(m, p)
  <2>1. /\ n.obj[p] = m.obj[p] /\ m.obj[p].isset \in BOOLEAN /\ InfoOf(n, p) = InfoOf(m, p)
        /\ a.obj[p] = m.obj[p]
    BY <1>4, <1>6 DEF Heap, IsMemory, IsObject, InfoOf
  <2>2. m.obj[p].isset /\ IsText(InfoOf(m, p).type) =>
          n.buf[m.obj[p].slot] = m.buf[m.obj[p].slot]
    <3> SUFFICES ASSUME m.obj[p].isset, IsText(InfoOf(m, p).type)
                 PROVE  n.buf[m.obj[p].slot] = m.buf[m.obj[p].slot]
      OBVIOUS
    <3>1. p \in TextsOf(m) /\ p \in TextsOf(a)
      BY <2>1, <1>4 DEF TextsOf, InfoOf
    <3>2. m.obj[p].slot # Nil /\ m.obj[p].slot \in DOMAIN m.buf
      BY <3>1 DEF Heap, Buffers
    <3>3. m.obj[p].slot # a.obj[o].slot
      BY <1>4, <1>5, <2>1, <3>1, <3>2 DEF Buffers
    <3>4. m.obj[p].slot \in DOMAIN a.buf
      BY <1>4, <2>1, <3>1, <3>2 DEF Buffers
    <3> QED BY <1>4, <1>6, <3>2, <3>3, <3>4
  <2> QED BY <2>1, <2>2, HeldSame
<1>9. SaveFor(m, n, o)
  BY <1>4, <1>6, <1>8 DEF SaveFor
<1>10. Values(n)
  BY <1>4, <1>6, <1>7, <1>8 DEF Values, Heap
<1> QED
  BY <1>6, <1>7, <1>9, <1>10 DEF Heap

(* Unsetting, or the slot of a number. *)
LEMMA MarkedHeap ==
  ASSUME NEW m, Heap(m), NEW o \in DOMAIN m.obj, NEW isset \in BOOLEAN, NEW slot,
         o \in TextsOf(m) => ~ isset /\ slot = m.obj[o].slot,
         NEW n, n = Marked(m, o, isset, slot),
         NEW val, val = IF isset THEN slot ELSE Unset, Fits(InfoOf(m, o), val),
         isset => val # Unset
  PROVE  Heap(n) /\ SaveFor(m, n, o) /\ Held(n, o) = val
<1>1. /\ IsMemory(n) /\ n.buf = m.buf /\ DOMAIN n.obj = DOMAIN m.obj
      /\ n.obj[o] = [info |-> m.obj[o].info, isset |-> isset, next |-> m.obj[o].next,
                     slot |-> slot]
      /\ \A p \in DOMAIN m.obj \ {o} : n.obj[p] = m.obj[p]
  BY MarkedDoes DEF Heap
<1>2. n.obj[o].info = m.obj[o].info /\ n.obj[o].isset = isset
      /\ n.obj[o].next = m.obj[o].next /\ n.obj[o].slot = slot
  BY <1>1
<1>3. TextsOf(n) = TextsOf(m)
  BY <1>1, <1>2 DEF TextsOf
<1>4. Buffers(n)
  BY <1>1, <1>2, <1>3 DEF Buffers, Heap, TextsOf
<1>5. \A p \in DOMAIN m.obj \ {o} : Held(n, p) = Held(m, p)
  BY <1>1, HeldSame DEF Heap, IsMemory, IsObject, InfoOf
<1>6. Held(n, o) = val
  <2>1. isset => ~ IsText(InfoOf(n, o).type)
    BY <1>2 DEF TextsOf, InfoOf
  <2> QED BY <1>2, <2>1, HeldIs
<1>7. SaveFor(m, n, o)
  BY <1>1, <1>2, <1>5 DEF SaveFor, InfoOf
<1>8. Values(n)
  BY <1>1, <1>2, <1>5, <1>6 DEF Values, Heap, InfoOf
<1> QED
  BY <1>1, <1>4, <1>6, <1>7, <1>8 DEF Heap

(* clear() marks a variable unset and keeps its buffer. *)
LEMMA ClearIs ==
  ASSUME NEW m, IsMemory(m), NEW o \in DOMAIN m.obj
  PROVE  Clear(m, o) = Marked(m, o, FALSE, m.obj[o].slot)
<1>0. PICK f \in BOOLEAN : f = FALSE
  OBVIOUS
<1>1. PICK n : n = Marked(m, o, f, m.obj[o].slot)
  OBVIOUS
<1>2. /\ IsMemory(n) /\ n.buf = m.buf /\ DOMAIN n.obj = DOMAIN m.obj
      /\ n.obj[o] = [info |-> m.obj[o].info, isset |-> f, next |-> m.obj[o].next,
                     slot |-> m.obj[o].slot]
      /\ \A p \in DOMAIN m.obj \ {o} : n.obj[p] = m.obj[p]
  BY <1>1, MarkedDoes
<1>3. PICK c : c = Clear(m, o)
  OBVIOUS
<1>4. c = [obj |-> [m.obj EXCEPT ![o] = [m.obj[o] EXCEPT !.isset = f]], buf |-> m.buf]
  <2>1. c = [m EXCEPT !.obj[o].isset = f]
    BY <1>0, <1>3, Zenon DEF Clear
  <2> QED BY <2>1 DEF IsMemory
<1>5. /\ c.obj = [m.obj EXCEPT ![o] = [m.obj[o] EXCEPT !.isset = f]] /\ c.buf = m.buf
      /\ c = [obj |-> c.obj, buf |-> c.buf]
  BY <1>4
<1>6. [m.obj[o] EXCEPT !.isset = f]
        = [info |-> m.obj[o].info, isset |-> f, next |-> m.obj[o].next,
           slot |-> m.obj[o].slot]
  <2>1. IsObject(m.obj[o])
    BY DEF IsMemory
  <2> QED BY <2>1, FlagSet, Zenon
<1>7. /\ DOMAIN c.obj = DOMAIN m.obj /\ IsMap(c.obj)
      /\ \A p \in DOMAIN m.obj : c.obj[p] = n.obj[p]
  BY <1>2, <1>5, <1>6 DEF IsMap, IsMemory
<1>8. c.obj = n.obj
  BY <1>2, <1>7 DEF IsMap, IsMemory
<1> QED
  <2>1. c = n
    BY <1>2, <1>5, <1>8 DEF IsMemory
  <2>2. n = Marked(m, o, FALSE, m.obj[o].slot)
    BY <1>0, <1>1, Zenon
  <2> QED BY <1>3, <2>1, <2>2

(* Storing a value the info allows, number or text, touches one object. *)
LEMMA StoreDoes ==
  ASSUME NEW m, Heap(m), NEW o \in DOMAIN m.obj, NEW val, Fits(InfoOf(m, o), val),
         NEW n, n = Store(m, o, val)
  PROVE  Heap(n) /\ SaveFor(m, n, o) /\ Held(n, o) = val
<1>1. CASE val = Unset
  <2>1. n = Clear(m, o)
    BY <1>1 DEF Store
  <2>2. n = Marked(m, o, FALSE, m.obj[o].slot)
    BY <2>1, ClearIs DEF Heap
  <2>3. PICK f \in BOOLEAN : f = FALSE
    OBVIOUS
  <2>4. n = Marked(m, o, f, m.obj[o].slot)
    BY <2>2, <2>3, Zenon
  <2>5. ~ f /\ val = (IF f THEN m.obj[o].slot ELSE Unset)
    BY <1>1, <2>3
  <2> HIDE <1>1
  <2> QED BY <2>4, <2>5, MarkedHeap
<1>2. CASE val # Unset /\ o \in TextsOf(m)
  BY <1>2, StoreText
<1>3. CASE val # Unset /\ o \notin TextsOf(m)
  <2>1. ~ IsText(InfoOf(m, o).type)
    BY <1>3 DEF TextsOf, InfoOf
  <2>2. PICK f \in BOOLEAN : f = TRUE
    OBVIOUS
  <2>3. n = [m EXCEPT !.obj[o].isset = TRUE, !.obj[o].slot = val]
    BY <1>3, <2>1 DEF Store
  <2>4. n = Marked(m, o, f, val)
    <3>1. n = Marked(m, o, TRUE, val)
      BY <2>3 DEF Marked
    <3> QED BY <3>1, <2>2, Zenon
  <2>5. f /\ val = (IF f THEN val ELSE Unset)
    BY <2>2
  <2> QED BY <1>3, <2>4, <2>5, MarkedHeap
<1> QED
  BY <1>1, <1>2, <1>3

(* Clearing a value touches one object. *)
LEMMA ClearDoes ==
  ASSUME NEW m, Heap(m), NEW o \in DOMAIN m.obj, NEW n, n = Clear(m, o)
  PROVE  Heap(n) /\ SaveFor(m, n, o) /\ Held(n, o) = Unset
<1>1. n = Store(m, o, Unset)
  BY DEF Store
<1> QED
  BY <1>1, StoreDoes, UnsetFits

(* What moving leaves: the value of from is that of o, and from is not set. *)
Moved(m, n, o, from) ==
  /\ DOMAIN n.obj = DOMAIN m.obj
  /\ \A p \in DOMAIN m.obj : InfoOf(n, p) = InfoOf(m, p) /\ n.obj[p].next = m.obj[p].next
  /\ \A p \in DOMAIN m.obj \ {o, from} : Held(n, p) = Held(m, p)
  /\ Held(n, o) = Held(m, from) /\ Held(n, from) = Unset

(* What o can take from another: its kind of value, which fits, in a buffer that is
   long enough. *)
Takes(m, o, from) ==
  m.obj[from].isset =>
    /\ o \in TextsOf(m) <=> from \in TextsOf(m)
    /\ Fits(InfoOf(m, o), Held(m, from))
    /\ from \in TextsOf(m) => LongEnough(m.buf[m.obj[from].slot], m.obj[o].info)

(* move_value of a text: the buffer of the target is freed and that of the source taken. *)
LEMMA MoveText ==
  ASSUME NEW m, Heap(m), NEW o \in TextsOf(m), NEW from \in TextsOf(m), o # from,
         Takes(m, o, from), m.obj[from].isset,
         NEW n, n = Move_value(m, o, from)
  PROVE  Heap(n) /\ Moved(m, n, o, from)
<1>19. PICK t \in BOOLEAN : t = TRUE
  OBVIOUS
<1>20. PICK f \in BOOLEAN : f = FALSE
  OBVIOUS
<1>21. PICK s, old : s = m.obj[from].slot /\ old = m.obj[o].slot
  OBVIOUS
<1>1. s = m.obj[from].slot /\ old = m.obj[o].slot /\ t = TRUE /\ f = FALSE
  BY <1>19, <1>20, <1>21
<1>2. /\ o \in DOMAIN m.obj /\ from \in DOMAIN m.obj /\ s # Nil /\ s \in DOMAIN m.buf
      /\ s # old /\ IsText(InfoOf(m, o).type) /\ IsText(InfoOf(m, from).type)
      /\ old # Nil => old \in DOMAIN m.buf
      /\ Nil \notin DOMAIN m.buf
  BY <1>1, RoomAssumption DEF TextsOf, Heap, Buffers, IsMemory, InfoOf
<1>3. PICK u : u = [m EXCEPT !.buf = Without(@, {old})]
  OBVIOUS
<1>4. PICK v : v = Marked(u, o, t, s)
  OBVIOUS
<1>5. n = Marked(v, from, f, Nil)
  <2>1. n = [m EXCEPT !.buf = Without(@, {m.obj[o].slot}),
                      !.obj[o].isset = TRUE, !.obj[o].slot = m.obj[from].slot,
                      !.obj[from].isset = FALSE, !.obj[from].slot = Nil]
    BY <1>2 DEF Move_value, Pointer, EmptySlot
  <2>2. n = [m EXCEPT !.buf = Without(@, {old}),
                      !.obj[o].isset = t, !.obj[o].slot = s,
                      !.obj[from].isset = f, !.obj[from].slot = Nil]
    BY <1>1, <2>1, Zenon
  <2> QED BY <1>3, <1>4, <2>2, Zenon DEF Marked
<1>6. /\ IsMemory(u) /\ u.obj = m.obj /\ IsWithout(u.buf, m.buf, {old})
  <2>1. u = [obj |-> m.obj, buf |-> Without(m.buf, {old})]
    BY <1>3 DEF Heap, IsMemory
  <2>2. u.obj = m.obj /\ u.buf = Without(m.buf, {old}) /\ u = [obj |-> u.obj, buf |-> u.buf]
    BY <2>1
  <2>3. IsWithout(u.buf, m.buf, {old})
    BY <2>2, WithoutIs DEF Heap, IsMemory
  <2> QED BY <2>2, <2>3 DEF Heap, IsMemory, IsWithout
<1>7. /\ IsMemory(v) /\ v.buf = u.buf /\ DOMAIN v.obj = DOMAIN u.obj
      /\ v.obj[o] = [info |-> u.obj[o].info, isset |-> t, next |-> u.obj[o].next, slot |-> s]
      /\ \A p \in DOMAIN u.obj \ {o} : v.obj[p] = u.obj[p]
  BY <1>2, <1>4, <1>6, MarkedDoes
<1>8. /\ IsMemory(n) /\ n.buf = v.buf /\ DOMAIN n.obj = DOMAIN v.obj
      /\ n.obj[from] = [info |-> v.obj[from].info, isset |-> f, next |-> v.obj[from].next,
                        slot |-> Nil]
      /\ \A p \in DOMAIN v.obj \ {from} : n.obj[p] = v.obj[p]
  BY <1>2, <1>5, <1>6, <1>7, MarkedDoes
<1>9. /\ DOMAIN n.obj = DOMAIN m.obj
      /\ n.obj[o] = [info |-> m.obj[o].info, isset |-> t, next |-> m.obj[o].next, slot |-> s]
      /\ n.obj[from] = [info |-> m.obj[from].info, isset |-> f, next |-> m.obj[from].next,
                        slot |-> Nil]
      /\ \A p \in DOMAIN m.obj \ {o, from} : n.obj[p] = m.obj[p]
      /\ DOMAIN n.buf = DOMAIN m.buf \ {old}
      /\ \A b \in DOMAIN m.buf \ {old} : n.buf[b] = m.buf[b]
  BY <1>2, <1>6, <1>7, <1>8 DEF IsWithout
<1>10. \A p \in DOMAIN m.obj : /\ n.obj[p].info = m.obj[p].info
                               /\ n.obj[p].next = m.obj[p].next
                               /\ InfoOf(n, p) = InfoOf(m, p)
  BY <1>9 DEF InfoOf
<1>11. /\ n.obj[o].slot = s /\ n.obj[o].isset = t
       /\ n.obj[from].slot = Nil /\ n.obj[from].isset = f
  BY <1>9
<1>12. TextsOf(n) = TextsOf(m)
  BY <1>9, <1>10 DEF TextsOf
<1>13. \A p \in TextsOf(m) \ {o, from} : m.obj[p].slot # Nil =>
          m.obj[p].slot # s /\ m.obj[p].slot # old
  BY <1>1, <1>2 DEF Heap, Buffers
<1>14. Buffers(n)
  <2>1. \A b \in DOMAIN n.buf : \E p \in TextsOf(n) : n.obj[p].slot = b
    <3> SUFFICES ASSUME NEW b \in DOMAIN m.buf \ {old} PROVE \E p \in TextsOf(m) : n.obj[p].slot = b
      BY <1>9, <1>12
    <3>1. PICK p \in TextsOf(m) : m.obj[p].slot = b
      BY DEF Heap, Buffers
    <3>2. CASE p = from
      BY <3>1, <3>2, <1>1, <1>11
    <3>3. CASE p # from
      <4>1. p # o /\ p \in DOMAIN m.obj
        BY <3>1, <1>1 DEF TextsOf
      <4> QED BY <3>1, <3>3, <4>1, <1>9
    <3> QED BY <3>2, <3>3
  <2>2. ASSUME NEW p \in TextsOf(m)
        PROVE  /\ n.obj[p].isset => n.obj[p].slot # Nil
               /\ n.obj[p].slot # Nil => /\ n.obj[p].slot \in DOMAIN n.buf
                                         /\ LongEnough(n.buf[n.obj[p].slot], n.obj[p].info)
    <3>1. CASE p = o
      <4>1. LongEnough(m.buf[s], m.obj[o].info)
        BY <1>1 DEF Takes
      <4>2. n.obj[o].info = m.obj[o].info
        BY <1>2, <1>10
      <4>3. s \in DOMAIN n.buf /\ n.buf[s] = m.buf[s]
        BY <1>2, <1>9
      <4> QED BY <3>1, <4>1, <4>2, <4>3, <1>2, <1>10, <1>11
    <3>2. CASE p = from
      BY <3>2, <1>1, <1>11
    <3>3. CASE p \notin {o, from}
      <4>1. p \in DOMAIN m.obj /\ n.obj[p] = m.obj[p]
        BY <3>3, <1>9 DEF TextsOf
      <4> QED BY <3>3, <4>1, <1>9, <1>13 DEF Heap, Buffers
    <3> QED BY <3>1, <3>2, <3>3
  <2>3. ASSUME NEW p \in TextsOf(m), NEW q \in TextsOf(m),
               n.obj[p].slot # Nil, n.obj[p].slot = n.obj[q].slot
        PROVE  p = q
    <3>1. \A r \in TextsOf(m) \ {o, from} : n.obj[r].slot = m.obj[r].slot
      BY <1>9 DEF TextsOf
    <3> QED BY <2>3, <3>1, <1>11, <1>13 DEF Heap, Buffers
  <2> QED BY <1>12, <2>1, <2>2, <2>3 DEF Buffers
<1>15. Held(n, o) = Held(m, from)
  <2>1. Held(m, from) = m.buf[s].bytes
    BY <1>1, <1>2, HeldIs
  <2>2. Held(n, o) = n.buf[s].bytes
    <3>1. n.obj[o].isset /\ IsText(InfoOf(n, o).type)
      BY <1>1, <1>2, <1>10, <1>11
    <3> QED BY <3>1, <1>11, HeldIs
  <2> QED BY <2>1, <2>2, <1>2, <1>9
<1>16. Held(n, from) = Unset
  <2>1. ~ n.obj[from].isset
    BY <1>1, <1>11
  <2> QED BY <2>1, HeldIs
<1>17. ASSUME NEW p \in DOMAIN m.obj \ {o, from}
       PROVE  Held(n, p) = Held(m, p)
  <2>1. n.obj[p] = m.obj[p] /\ InfoOf(n, p) = InfoOf(m, p) /\ m.obj[p].isset \in BOOLEAN
    BY <1>9, <1>10 DEF Heap, IsMemory, IsObject
  <2>2. m.obj[p].isset /\ IsText(InfoOf(m, p).type) =>
          n.buf[m.obj[p].slot] = m.buf[m.obj[p].slot]
    <3> SUFFICES ASSUME m.obj[p].isset, IsText(InfoOf(m, p).type)
                 PROVE  n.buf[m.obj[p].slot] = m.buf[m.obj[p].slot]
      OBVIOUS
    <3>1. p \in TextsOf(m) \ {o, from}
      BY DEF TextsOf, InfoOf
    <3>2. m.obj[p].slot \in DOMAIN m.buf /\ m.obj[p].slot # Nil
      BY <3>1 DEF Heap, Buffers
    <3> QED BY <3>1, <3>2, <1>9, <1>13
  <2> QED BY <2>1, <2>2, HeldSame
<1>18. Values(n)
  <2>1. Fits(InfoOf(n, o), Held(n, o))
    BY <1>2, <1>10, <1>15 DEF Takes
  <2>2. Fits(InfoOf(n, from), Held(n, from))
    BY <1>16, UnsetFits
  <2>3. \A p \in DOMAIN m.obj \ {o, from} : Fits(InfoOf(n, p), Held(n, p))
    BY <1>10, <1>17 DEF Heap, Values
  <2>4. Held(n, o) # Unset
    BY <1>2, <1>15 DEF Heap, Values
  <2>5. ~ n.obj[from].isset
    BY <1>1, <1>11
  <2>6. \A p \in DOMAIN m.obj \ {o, from} : n.obj[p].isset => Held(n, p) # Unset
    BY <1>9, <1>17 DEF Heap, Values
  <2> QED BY <1>9, <2>1, <2>2, <2>3, <2>4, <2>5, <2>6 DEF Values
<1> QED
  BY <1>8, <1>9, <1>10, <1>14, <1>15, <1>16, <1>17, <1>18 DEF Heap, Moved

(* move_value, of a number or a text: the target holds what the source held. *)
LEMMA MoveDoes ==
  ASSUME NEW m, Heap(m), NEW o \in DOMAIN m.obj, NEW from \in DOMAIN m.obj, o # from,
         Takes(m, o, from), NEW n, n = Move_value(m, o, from)
  PROVE  Heap(n) /\ Moved(m, n, o, from)
<1>1. CASE ~ m.obj[from].isset
  <2>1. n = Clear(m, o)
    BY <1>1 DEF Move_value
  <2>2. Heap(n) /\ SaveFor(m, n, o) /\ Held(n, o) = Unset
    BY <2>1, ClearDoes
  <2>3. Held(m, from) = Unset
    BY <1>1, HeldIs
  <2> QED BY <2>2, <2>3 DEF SaveFor, Moved
<1>2. CASE m.obj[from].isset /\ from \in TextsOf(m)
  <2>1. o \in TextsOf(m)
    BY <1>2 DEF Takes
  <2> QED BY <1>2, <2>1, MoveText
<1>3. CASE m.obj[from].isset /\ from \notin TextsOf(m)
  <2>1. ~ IsText(InfoOf(m, o).type) /\ ~ IsText(InfoOf(m, from).type) /\ o \notin TextsOf(m)
    BY <1>3 DEF Takes, TextsOf, InfoOf
  <2>2. n = [m EXCEPT !.obj[o].isset = TRUE, !.obj[o].slot = m.obj[from].slot,
                      !.obj[from].isset = FALSE]
    BY <1>3, <2>1 DEF Move_value, Number
  <2>3. Held(m, from) = m.obj[from].slot
    BY <1>3, <2>1, HeldIs
  <2>4. Fits(InfoOf(m, o), Held(m, from))
    BY <1>3 DEF Takes
  <2>5. PICK t \in BOOLEAN : t = TRUE
    OBVIOUS
  <2>6. PICK v : v = Marked(m, o, t, m.obj[from].slot)
    OBVIOUS
  <2>7. t /\ Held(m, from) = (IF t THEN m.obj[from].slot ELSE Unset)
    BY <2>3, <2>5
  <2>8. Heap(v) /\ SaveFor(m, v, o) /\ Held(v, o) = Held(m, from)
    <3>1. PICK h : h = Held(m, from)
      OBVIOUS
    <3>2. Heap(v) /\ SaveFor(m, v, o) /\ Held(v, o) = h
      <4>1. PICK s : s = m.obj[from].slot
        OBVIOUS
      <4>2. v = Marked(m, o, t, s) /\ h = (IF t THEN s ELSE Unset) /\ Fits(InfoOf(m, o), h)
        BY <2>4, <2>6, <2>7, <3>1, <4>1
      <4>3. h # Unset
        BY <1>3, <3>1 DEF Heap, Values
      <4> QED BY <2>1, <4>2, <4>3, MarkedHeap
    <3> QED BY <3>1, <3>2
  <2>9. n = Clear(v, from)
    BY <2>2, <2>5, <2>6, Zenon DEF Marked, Clear
  <2>10. Heap(n) /\ SaveFor(v, n, from) /\ Held(n, from) = Unset
    BY <2>8, <2>9, ClearDoes DEF SaveFor
  <2> QED BY <2>8, <2>10 DEF SaveFor, Moved
<1> QED
  BY <1>1, <1>2, <1>3

----------------------------------------------------------------------------
(* The order of the codes *)

(* Codes are in a total order. *)
LEMMA EarlierIs ==
  /\ \A c \in Codes : ~ Earlier(c, c)
  /\ \A c, d, e \in Codes : Earlier(c, d) /\ Earlier(d, e) => Earlier(c, e)
  /\ \A c, d \in Codes : c = d \/ Earlier(c, d) \/ Earlier(d, c)
<1>1. \A c \in Codes : c[1] = 0 /\ c[2] \in Nat /\ c[3] \in Nat /\ c = <<0, c[2], c[3]>>
  BY InfosAssumption
<1>2. \A c, d \in Codes : c[2] = d[2] /\ c[3] = d[3] => c = d
  BY <1>1
<1>3. \A c, d \in Codes : c = d \/ Earlier(c, d) \/ Earlier(d, c)
  BY <1>1, <1>2 DEF Earlier
<1>4. \A c \in Codes : ~ Earlier(c, c)
  BY <1>1 DEF Earlier
<1>5. \A c, d, e \in Codes : Earlier(c, d) /\ Earlier(d, e) => Earlier(c, e)
  BY <1>1 DEF Earlier
<1> QED
  BY <1>3, <1>4, <1>5

(* The object before the one at a place, and the pointer that is there. *)
At(o, s, i) == IF i = 0 THEN o ELSE s[i]
After(s, i) == IF i < Len(s) THEN s[i + 1] ELSE Nil
SetOf(s) == {s[i] : i \in 1..Len(s)}

(* From o the pointers lead along s. *)
Leads(m, o, s) ==
  /\ s \in Seq(Attr) /\ SetOf(s) \subseteq DOMAIN m.obj
  /\ \A i \in 0..Len(s) : m.obj[At(o, s, i)].next = After(s, i)
  /\ \A i, j \in 1..Len(s) : s[i] = s[j] => i = j

(* A list of attributes in which none comes twice is no longer than there are attributes. *)
LEMMA ShortEnough ==
  ASSUME NEW s \in Seq(Attr), \A i, j \in 1..Len(s) : s[i] = s[j] => i = j
  PROVE  Len(s) <= MaxAttr
<1> SUFFICES ASSUME Len(s) > MaxAttr PROVE FALSE
  BY RoomAssumption
<1>1. IsFiniteSet(Attr) /\ Cardinality(Attr) = MaxAttr
  BY FS_Interval, RoomAssumption DEF Attr
<1>2. PICK n \in Nat : n = Len(s)
  OBVIOUS
<1>3. IsFiniteSet(1..n) /\ Cardinality(1..n) = n
  BY FS_Interval
<1>4. s \in [1..n -> Attr]
  BY <1>2
<1>5. Cardinality(Attr) < Cardinality(1..n)
  BY <1>1, <1>2, <1>3, RoomAssumption
<1>6. \E i, j \in 1..n : i # j /\ s[i] = s[j]
  BY <1>1, <1>3, <1>4, <1>5, FS_PigeonHole
<1> QED
  BY <1>2, <1>6

----------------------------------------------------------------------------
(* Chain follows the pointers. *)

(* One more step along the pointers from o, where s has been seen. *)
Grown(m, o, s) ==
  LET a == m.obj[IF s = <<>> THEN o ELSE s[Len(s)]].next
  IN IF a # Nil /\ IsThere(m, a) THEN Append(s, a) ELSE s

(* f[n] is what has been seen after n steps. *)
IsChaining(m, o, k, f) == f = [n \in 0..k |-> IF n = 0 THEN <<>> ELSE Grown(m, o, f[n - 1])]

(* Such a function is defined for any number of steps. *)
LEMMA ChainingExists ==
  ASSUME NEW m, NEW o, NEW k \in Nat
  PROVE  \E f : IsChaining(m, o, k, f)
<1> DEFINE S == {n \in Nat : \E f : IsChaining(m, o, n, f)}
<1>1. 0 \in S
  <2>1. IsChaining(m, o, 0, [n \in 0..0 |-> <<>>])
    BY DEF IsChaining
  <2> QED BY <2>1
<1>2. ASSUME NEW n \in Nat, n \in S
      PROVE  n + 1 \in S
  <2>1. PICK f : IsChaining(m, o, n, f)
    BY <1>2
  <2> DEFINE g == [i \in 0..(n + 1) |-> IF i = n + 1 THEN Grown(m, o, f[n]) ELSE f[i]]
  <2>2. ASSUME NEW i \in 0..(n + 1)
        PROVE  g[i] = IF i = 0 THEN <<>> ELSE Grown(m, o, g[i - 1])
    <3>1. CASE i = n + 1
      <4>1. i # 0 /\ i - 1 = n /\ g[i - 1] = f[n]
        BY <3>1
      <4> QED BY <3>1, <4>1
    <3>2. CASE i # n + 1
      <4>1. i \in 0..n /\ g[i] = f[i]
        BY <3>2
      <4>2. i # 0 => g[i - 1] = f[i - 1]
        BY <4>1
      <4>3. f[i] = IF i = 0 THEN <<>> ELSE Grown(m, o, f[i - 1])
        BY <2>1, <4>1 DEF IsChaining
      <4> QED BY <4>1, <4>2, <4>3
    <3> QED BY <3>1, <3>2
  <2>3. IsChaining(m, o, n + 1, g)
    BY <2>2 DEF IsChaining
  <2> QED BY <2>3
<1> HIDE DEF S
<1>3. k \in S
  BY <1>1, <1>2, NatSetInduction
<1> QED
  BY <1>3 DEF S

(* The first attributes of a chain. *)
Start(s, n) == SubSeq(s, 1, IF n < Len(s) THEN n ELSE Len(s))

(* The start of a list. *)
LEMMA StartIs ==
  ASSUME NEW s \in Seq(Attr), NEW n \in Nat
  PROVE  /\ Start(s, n) \in Seq(Attr)
         /\ Len(Start(s, n)) = (IF n < Len(s) THEN n ELSE Len(s))
         /\ \A i \in 1..Len(Start(s, n)) : Start(s, n)[i] = s[i]
<1>1. PICK k \in 0..Len(s) : k = IF n < Len(s) THEN n ELSE Len(s)
  OBVIOUS
<1>2. Start(s, n) = SubSeq(s, 1, k)
  BY <1>1 DEF Start
<1> QED
  BY <1>1, <1>2

(* One step more sees one attribute more. *)
LEMMA StartGrows ==
  ASSUME NEW m, NEW o, NEW s, Leads(m, o, s), NEW n \in Nat
  PROVE  Grown(m, o, Start(s, n)) = Start(s, n + 1)
<1>1. PICK k \in 0..Len(s) : k = IF n < Len(s) THEN n ELSE Len(s)
  BY DEF Leads
<1>2. PICK t : t = Start(s, n)
  OBVIOUS
<1>3. t \in Seq(Attr) /\ Len(t) = k /\ \A i \in 1..k : t[i] = s[i]
  BY <1>1, <1>2, StartIs DEF Leads
<1>4. (IF t = <<>> THEN o ELSE t[Len(t)]) = At(o, s, k)
  BY <1>3 DEF At
<1>5. m.obj[At(o, s, k)].next = After(s, k)
  BY DEF Leads
<1>6. PICK u : u = Start(s, n + 1)
  OBVIOUS
<1>7. /\ u \in Seq(Attr) /\ Len(u) = (IF n + 1 < Len(s) THEN n + 1 ELSE Len(s))
      /\ \A i \in 1..Len(u) : u[i] = s[i]
  <2>1. s \in Seq(Attr)
    BY DEF Leads
  <2>2. PICK j \in Nat : j = n + 1
    OBVIOUS
  <2>3. u = Start(s, j)
    BY <1>6, <2>2
  <2>4. /\ u \in Seq(Attr) /\ Len(u) = (IF j < Len(s) THEN j ELSE Len(s))
        /\ \A i \in 1..Len(u) : u[i] = s[i]
    BY <2>1, <2>3, StartIs
  <2> QED BY <2>2, <2>4
<1>8. Len(s) \in Nat
  <2>1. s \in Seq(Attr)
    BY DEF Leads
  <2> QED BY <2>1
<1>9. CASE k < Len(s)
  <2>1. PICK a : a = s[k + 1]
    OBVIOUS
  <2>2. After(s, k) = a /\ a \in Attr /\ a \in DOMAIN m.obj
    BY <1>9, <2>1 DEF After, Leads, SetOf
  <2>3. a # Nil
    BY <2>2, RoomAssumption
  <2>4. Grown(m, o, t) = Append(t, a)
    BY <1>4, <1>5, <2>2, <2>3 DEF Grown, IsThere
  <2>5. Len(u) = k + 1
    BY <1>1, <1>7, <1>8, <1>9
  <2>6. PICK v \in Seq(Attr) : v = Append(t, a) /\ Len(v) = k + 1
    <3>1. t \in Seq(Attr) /\ a \in Attr
      BY <1>3, <2>2
    <3>2. Append(t, a) \in Seq(Attr) /\ Len(Append(t, a)) = Len(t) + 1
      BY <3>1
    <3> QED BY <1>3, <3>2
  <2>7. \A i \in 1..(k + 1) : v[i] = u[i]
    BY <1>3, <1>7, <2>1, <2>5, <2>6
  <2>8. v = u
    BY <1>7, <2>5, <2>6, <2>7
  <2> QED BY <1>2, <1>6, <2>4, <2>6, <2>8
<1>10. CASE ~ (k < Len(s))
  <2>1. After(s, k) = Nil
    BY <1>10 DEF After
  <2>2. Grown(m, o, t) = t
    BY <1>4, <1>5, <2>1 DEF Grown
  <2>3. Len(u) = k
    BY <1>1, <1>7, <1>8, <1>10
  <2>4. t = u
    BY <1>3, <1>7, <2>3
  <2> QED BY <1>2, <1>6, <2>2, <2>4
<1> QED
  BY <1>9, <1>10

(* The chain that is followed is the list the pointers lead along. *)
LEMMA ChainIs ==
  ASSUME NEW m, NEW o, NEW s, Leads(m, o, s)
  PROVE  Chain(m, o) = s
<1>1. MaxAttr \in Nat /\ Len(s) <= MaxAttr
  BY ShortEnough, RoomAssumption DEF Leads
<1> DEFINE f == CHOOSE f : IsChaining(m, o, MaxAttr, f)
<1>2. IsChaining(m, o, MaxAttr, f)
  <2>1. \E g : IsChaining(m, o, MaxAttr, g)
    <3> HIDE DEF f
    <3> QED BY <1>1, ChainingExists, Zenon
  <2> QED BY <2>1
<1>3. Chain(m, o) = f[MaxAttr]
  BY DEF Chain, IsChaining, Grown
<1> HIDE DEF f
<1> DEFINE S == {n \in Nat : n <= MaxAttr => f[n] = Start(s, n)}
<1>4. 0 \in S
  <2>1. f[0] = <<>>
    BY <1>1, <1>2 DEF IsChaining
  <2>2. Start(s, 0) = <<>>
    <3>1. Start(s, 0) \in Seq(Attr) /\ Len(Start(s, 0)) = 0
      BY StartIs DEF Leads
    <3> QED BY <3>1
  <2> QED BY <2>1, <2>2
<1>5. ASSUME NEW n \in Nat, n \in S
      PROVE  n + 1 \in S
  <2> SUFFICES ASSUME n + 1 <= MaxAttr PROVE f[n + 1] = Start(s, n + 1)
    OBVIOUS
  <2>1. f[n] = Start(s, n)
    BY <1>1, <1>5
  <2>2. n + 1 \in 0..MaxAttr /\ n + 1 # 0 /\ (n + 1) - 1 = n
    BY <1>1
  <2>3. f[n + 1] = Grown(m, o, f[n])
    BY <1>2, <2>2 DEF IsChaining
  <2> QED BY <2>1, <2>3, StartGrows
<1> HIDE DEF S
<1>6. MaxAttr \in S
  BY <1>1, <1>4, <1>5, NatSetInduction
<1>7. f[MaxAttr] = Start(s, MaxAttr)
  BY <1>1, <1>6 DEF S
<1>8. Start(s, MaxAttr) = s
  <2>1. PICK t : t = Start(s, MaxAttr)
    OBVIOUS
  <2>2. t \in Seq(Attr) /\ Len(t) = Len(s) /\ \A i \in 1..Len(t) : t[i] = s[i]
    BY <1>1, <2>1, StartIs DEF Leads
  <2> QED BY <2>1, <2>2 DEF Leads
<1> QED
  BY <1>3, <1>7, <1>8

----------------------------------------------------------------------------
(* Attributes in the order of their codes. *)
Rising(m, s) ==
  /\ s \in Seq(Attr)
  /\ \A i \in 1..Len(s) : s[i] \in DOMAIN m.obj /\ InfoOf(m, s[i]) \in Attributes
  /\ \A i, j \in 1..Len(s) : i < j => Earlier(CodeOf(m, s[i]), CodeOf(m, s[j]))

(* An object whose attributes are those of s. *)
Strand(m, o, s) ==
  /\ Rising(m, s)
  /\ o \notin DOMAIN m.obj => s = <<>>
  /\ o \in DOMAIN m.obj => \A i \in 0..Len(s) : m.obj[At(o, s, i)].next = After(s, i)

(* The attributes of a rising list are attributes, with the codes of attributes. *)
LEMMA RisingCodes ==
  ASSUME NEW m, NEW s, Rising(m, s), NEW i \in 1..Len(s)
  PROVE  s[i] \in Attr /\ CodeOf(m, s[i]) \in Codes /\ s[i] \in DOMAIN m.obj
<1>1. s[i] \in DOMAIN m.obj /\ InfoOf(m, s[i]) \in Attributes /\ s \in Seq(Attr)
  BY DEF Rising
<1>2. CodeOf(m, s[i]) = InfoOf(m, s[i]).code
  BY DEF CodeOf, InfoOf
<1> QED
  BY <1>1, <1>2 DEF Codes

(* No code comes twice. *)
LEMMA RisingOnce ==
  ASSUME NEW m, NEW s, Rising(m, s), NEW i \in 1..Len(s), NEW j \in 1..Len(s),
         CodeOf(m, s[i]) = CodeOf(m, s[j])
  PROVE  i = j
<1>1. Len(s) \in Nat
  BY DEF Rising
<1>2. CASE i < j
  BY <1>2, RisingCodes, EarlierIs DEF Rising
<1>3. CASE j < i
  BY <1>3, RisingCodes, EarlierIs DEF Rising
<1> QED
  BY <1>1, <1>2, <1>3

(* A strand is the chain of its object. *)
LEMMA StrandLeads ==
  ASSUME NEW m, NEW o \in DOMAIN m.obj, NEW s, Strand(m, o, s)
  PROVE  Leads(m, o, s) /\ Chain(m, o) = s
<1>1. Rising(m, s) /\ s \in Seq(Attr)
  BY DEF Strand, Rising
<1>2. \A i, j \in 1..Len(s) : s[i] = s[j] => i = j
  BY <1>1, RisingOnce
<1>3. SetOf(s) \subseteq DOMAIN m.obj
  BY <1>1, RisingCodes DEF SetOf
<1>4. Leads(m, o, s)
  BY <1>1, <1>2, <1>3 DEF Leads, Strand
<1> QED
  BY <1>4, ChainIs

(* How many attributes are passed. *)
IsPassed(m, s, code, k) ==
  /\ k \in 0..Len(s)
  /\ \A i \in 1..Len(s) : Earlier(CodeOf(m, s[i]), code) <=> i <= k

(* enqa and seta stop where the first attribute is that does not come before the code. *)
LEMMA PassedIs ==
  ASSUME NEW m, NEW s, Rising(m, s), NEW code \in Codes
  PROVE  IsPassed(m, s, code, Passed(m, s, code))
<1> DEFINE P(i) == Earlier(CodeOf(m, s[i]), code)
           S == {n \in Nat : n <= Len(s) => \E k \in 0..n : \A i \in 1..n : P(i) <=> i <= k}
<1>1. Len(s) \in Nat
  BY DEF Rising
<1>2. \A i, j \in 1..Len(s) : i < j /\ P(j) => P(i)
  BY RisingCodes, EarlierIs DEF Rising
<1>3. 0 \in S
  OBVIOUS
<1>4. ASSUME NEW n \in Nat, n \in S
      PROVE  n + 1 \in S
  <2> SUFFICES ASSUME n + 1 <= Len(s)
               PROVE  \E k \in 0..(n + 1) : \A i \in 1..(n + 1) : P(i) <=> i <= k
    OBVIOUS
  <2>1. PICK k \in 0..n : \A i \in 1..n : P(i) <=> i <= k
    BY <1>1, <1>4
  <2>2. n + 1 \in 1..Len(s)
    BY <1>1
  <2>3. CASE P(n + 1)
    <3>1. \A i \in 1..(n + 1) : P(i)
      <4> SUFFICES ASSUME NEW i \in 1..(n + 1) PROVE P(i)
        OBVIOUS
      <4>1. i = n + 1 \/ (i < n + 1 /\ i \in 1..Len(s))
        BY <1>1
      <4> HIDE DEF P
      <4> QED BY <4>1, <2>2, <2>3, <1>2
    <3> HIDE DEF P
    <3>2. \A i \in 1..(n + 1) : P(i) <=> i <= n + 1
      BY <3>1
    <3> QED BY <3>2
  <2>4. CASE ~ P(n + 1)
    <3> HIDE DEF P
    <3>1. \A i \in 1..(n + 1) : P(i) <=> i <= k
      BY <2>1, <2>4
    <3>2. k \in 0..(n + 1)
      OBVIOUS
    <3> QED BY <3>1, <3>2
  <2> QED BY <2>3, <2>4
<1> HIDE DEF S
<1>5. Len(s) \in S
  BY <1>1, <1>3, <1>4, NatSetInduction
<1>6. PICK k \in 0..Len(s) : \A i \in 1..Len(s) : P(i) <=> i <= k
  BY <1>1, <1>5 DEF S
<1>7. {i \in 1..Len(s) : \A j \in 1..i : P(j)} = 1..k
  <2> HIDE DEF P
  <2>1. ASSUME NEW i \in 1..Len(s)
        PROVE  (\A j \in 1..i : P(j)) <=> i <= k
    <3>1. (\A j \in 1..i : P(j)) => P(i)
      OBVIOUS
    <3>2. i <= k => \A j \in 1..i : j \in 1..Len(s) /\ j <= k
      BY <1>1
    <3> QED BY <3>1, <3>2, <1>6
  <2> QED BY <2>1, <1>1
<1>8. Cardinality(1..k) = k
  BY FS_Interval
<1>9. Passed(m, s, code) = k
  BY <1>7, <1>8 DEF Passed
<1> QED
  BY <1>6, <1>9 DEF IsPassed

(* enqa finds the attribute that has the code, if there is one. *)
LEMMA EnqaIs ==
  ASSUME NEW m, NEW o \in DOMAIN m.obj, NEW s, Strand(m, o, s), NEW code \in Codes,
         NEW k, k = Passed(m, s, code)
  PROVE  /\ IsPassed(m, s, code, k)
         /\ Before(m, o, code) = At(o, s, k)
         /\ \/ /\ Enqa(m, o, code) = Nil /\ \A i \in 1..Len(s) : CodeOf(m, s[i]) # code
            \/ /\ k + 1 \in 1..Len(s) /\ CodeOf(m, s[k + 1]) = code
               /\ Enqa(m, o, code) = s[k + 1] /\ Enqa(m, o, code) # Nil
<1>1. Rising(m, s) /\ Chain(m, o) = s /\ Len(s) \in Nat
  BY StrandLeads DEF Strand, Rising
<1>2. IsPassed(m, s, code, k)
  BY <1>1, PassedIs
<1>3. k \in 0..Len(s)
  BY <1>2 DEF IsPassed
<1>4. Enqa(m, o, code)
        = IF k + 1 <= Len(s) /\ CodeOf(m, s[k + 1]) = code THEN s[k + 1] ELSE Nil
  BY <1>1 DEF Enqa
<1>5. Before(m, o, code) = At(o, s, k)
  BY <1>1 DEF Before, At
<1>6. CASE k + 1 <= Len(s) /\ CodeOf(m, s[k + 1]) = code
  <2>1. k + 1 \in 1..Len(s)
    BY <1>1, <1>3, <1>6
  <2>2. s[k + 1] # Nil
    BY <1>1, <2>1, RisingCodes, RoomAssumption
  <2> QED BY <1>2, <1>4, <1>5, <1>6, <2>1, <2>2
<1>7. CASE ~ (k + 1 <= Len(s) /\ CodeOf(m, s[k + 1]) = code)
  <2>1. ASSUME NEW i \in 1..Len(s), CodeOf(m, s[i]) = code
        PROVE  FALSE
    <3>1. i > k
      BY <1>2, <2>1, EarlierIs DEF IsPassed
    <3>2. k + 1 \in 1..Len(s) /\ k + 1 < i
      BY <1>1, <1>3, <1>7, <2>1, <3>1
    <3>3. Earlier(CodeOf(m, s[k + 1]), code)
      BY <1>1, <2>1, <3>2 DEF Rising
    <3>4. ~ (k + 1 <= k)
      BY <1>3
    <3> QED BY <1>2, <3>2, <3>3, <3>4 DEF IsPassed
  <2> QED BY <1>2, <1>4, <1>5, <1>7, <2>1
<1> QED
  BY <1>6, <1>7

----------------------------------------------------------------------------
(* ch has the attributes of the variables: every attribute is in one place. *)
Shape(m, ch) ==
  /\ ch \in [Name -> Seq(Attr)]
  /\ \A x \in Name : Strand(m, x, ch[x])
  /\ \A x, y \in Name : x # y => SetOf(ch[x]) \cap SetOf(ch[y]) = {}
  /\ \A a \in Attr \cap DOMAIN m.obj : \E x \in Name : a \in SetOf(ch[x])

(* The state of the memory, with ch for the lists of attributes. *)
Good(m, ch) == Heap(m) /\ Shape(m, ch)

(* There is room for one more attribute. *)
LEMMA AttrFree ==
  ASSUME NEW m, NEW ch, Shape(m, ch)
  PROVE  AnyOf(FreeAttrs(m)) \in Attr \ DOMAIN m.obj
<1> SUFFICES ASSUME Attr \subseteq DOMAIN m.obj PROVE FALSE
  BY DEF FreeAttrs, AnyOf
<1> DEFINE owner(a) == CHOOSE x \in Name : a \in SetOf(ch[x])
           T == Name \X Codes
           f == [a \in Attr |-> <<owner(a), CodeOf(m, a)>>]
<1>1. ASSUME NEW a \in Attr
      PROVE  owner(a) \in Name /\ a \in SetOf(ch[owner(a)])
  <2>1. \E x \in Name : a \in SetOf(ch[x])
    BY DEF Shape
  <2> QED BY <2>1
<1> HIDE DEF owner
<1>2. ASSUME NEW a \in Attr
      PROVE  CodeOf(m, a) \in Codes
  <2>1. PICK i \in 1..Len(ch[owner(a)]) : a = ch[owner(a)][i]
    BY <1>1 DEF SetOf
  <2>2. Rising(m, ch[owner(a)])
    BY <1>1 DEF Shape, Strand
  <2> QED BY <2>1, <2>2, RisingCodes
<1>3. f \in [Attr -> T]
  BY <1>1, <1>2
<1>4. ASSUME NEW a \in Attr, NEW b \in Attr, f[a] = f[b]
      PROVE  a = b
  <2>1. owner(a) = owner(b) /\ CodeOf(m, a) = CodeOf(m, b)
    BY <1>4
  <2>2. PICK s : s = ch[owner(a)]
    OBVIOUS
  <2>3. PICK i \in 1..Len(s) : a = s[i]
    BY <1>1, <2>2 DEF SetOf
  <2>4. PICK j \in 1..Len(s) : b = s[j]
    BY <1>1, <2>1, <2>2 DEF SetOf
  <2>5. Rising(m, s)
    BY <1>1, <2>2 DEF Shape, Strand
  <2>6. i = j
    BY <2>1, <2>3, <2>4, <2>5, RisingOnce
  <2> QED BY <2>3, <2>4, <2>6
<1>5. IsFiniteSet(Attr) /\ Cardinality(Attr) = MaxAttr
  BY FS_Interval, RoomAssumption DEF Attr
<1>6. IsFiniteSet(T) /\ Cardinality(T) = Cardinality(Name) * Cardinality(Codes)
  BY FS_Product, RoomAssumption
<1>7. Cardinality(T) < Cardinality(Attr)
  BY <1>5, <1>6, RoomAssumption
<1> HIDE DEF f, T
<1> QED
  BY <1>3, <1>4, <1>5, <1>6, <1>7, FS_PigeonHole

----------------------------------------------------------------------------
(* Objects of m, but those of K, are in n as they were. *)
Outside(m, n, K) ==
  \A p \in DOMAIN m.obj \ K :
     /\ p \in DOMAIN n.obj /\ InfoOf(n, p) = InfoOf(m, p) /\ Held(n, p) = Held(m, p)
     /\ n.obj[p].next = m.obj[p].next

(* What the users see of a variable is the same. *)
SeenSame(m, n, z) ==
  /\ z \in DOMAIN n.obj <=> z \in DOMAIN m.obj
  /\ z \in DOMAIN m.obj =>
       /\ InfoOf(n, z) = InfoOf(m, z) /\ Held(n, z) = Held(m, z)
       /\ AttrsOf(n, z) = AttrsOf(m, z)

(* Changes elsewhere leave a strand. *)
LEMMA StrandKept ==
  ASSUME NEW m, NEW n, NEW o, NEW s, Strand(m, o, s), NEW K, Outside(m, n, K),
         o \notin K, SetOf(s) \cap K = {}, o \in DOMAIN m.obj
  PROVE  Strand(n, o, s)
<1>1. \A i \in 1..Len(s) : /\ s[i] \in DOMAIN n.obj /\ InfoOf(n, s[i]) = InfoOf(m, s[i])
                           /\ CodeOf(n, s[i]) = CodeOf(m, s[i])
                           /\ n.obj[s[i]].next = m.obj[s[i]].next
  BY DEF Strand, Rising, SetOf, Outside, CodeOf, InfoOf
<1>2. Rising(n, s)
  BY <1>1 DEF Strand, Rising
<1>3. o \in DOMAIN n.obj /\ n.obj[o].next = m.obj[o].next
  BY DEF Outside
<1>4. \A i \in 0..Len(s) : i = 0 \/ i \in 1..Len(s)
  BY DEF Strand, Rising
<1>5. \A i \in 0..Len(s) : n.obj[At(o, s, i)].next = After(s, i)
  BY <1>1, <1>3, <1>4 DEF Strand, At
<1> QED
  BY <1>2, <1>3, <1>5 DEF Strand

(* The attributes as the users see them, from the objects of s. *)
AreAttrs(f, m, s) ==
  /\ f = [c \in DOMAIN f |-> f[c]]
  /\ \A i \in 1..Len(s) : CodeOf(m, s[i]) \in DOMAIN f /\ f[CodeOf(m, s[i])] = View(m, s[i])
  /\ \A c \in DOMAIN f : \E i \in 1..Len(s) : c = CodeOf(m, s[i])

(* What enqa finds, code by code, are the attributes of the strand. *)
LEMMA AttrsOfAre ==
  ASSUME NEW m, NEW o \in DOMAIN m.obj, NEW s, Strand(m, o, s)
  PROVE  AreAttrs(AttrsOf(m, o), m, s)
<1> DEFINE found == [c \in Codes |-> Enqa(m, o, c)]
           f == [c \in {d \in Codes : found[d] # Nil} |-> View(m, found[c])]
<1>1. AttrsOf(m, o) = f
  BY DEF AttrsOf
<1>2. Rising(m, s)
  BY DEF Strand
<1>3. ASSUME NEW i \in 1..Len(s)
      PROVE  /\ CodeOf(m, s[i]) \in Codes /\ found[CodeOf(m, s[i])] = s[i]
             /\ found[CodeOf(m, s[i])] # Nil
  <2>1. PICK c \in Codes : c = CodeOf(m, s[i])
    BY <1>2, RisingCodes
  <2>2. PICK k : k = Passed(m, s, c)
    OBVIOUS
  <2>3. /\ k + 1 \in 1..Len(s) /\ CodeOf(m, s[k + 1]) = c
        /\ Enqa(m, o, c) = s[k + 1] /\ Enqa(m, o, c) # Nil
    BY <2>1, <2>2, EnqaIs
  <2>4. k + 1 = i
    BY <1>2, <2>1, <2>3, RisingOnce
  <2> QED BY <2>1, <2>3, <2>4
<1>4. ASSUME NEW c \in Codes, found[c] # Nil
      PROVE  \E i \in 1..Len(s) : c = CodeOf(m, s[i])
  <2>1. PICK k : k = Passed(m, s, c)
    OBVIOUS
  <2>2. k + 1 \in 1..Len(s) /\ CodeOf(m, s[k + 1]) = c
    BY <1>4, <2>1, EnqaIs
  <2> QED BY <2>2
<1> HIDE DEF found
<1>5. AreAttrs(f, m, s)
  BY <1>3, <1>4 DEF AreAttrs
<1> QED
  BY <1>1, <1>5

(* Two maps with the same entries. *)
LEMMA AttrsEqual ==
  ASSUME NEW m, NEW s, NEW n, NEW t, NEW f, NEW g, AreAttrs(f, m, s), AreAttrs(g, n, t),
         \A i \in 1..Len(s) : \E j \in 1..Len(t) : View(m, s[i]) = View(n, t[j]),
         \A j \in 1..Len(t) : \E i \in 1..Len(s) : View(m, s[i]) = View(n, t[j])
  PROVE  f = g
<1>1. \A o, p : View(m, o) = View(n, p) => CodeOf(m, o) = CodeOf(n, p)
  BY DEF View, CodeOf, InfoOf
<1>2. \A c \in DOMAIN f : c \in DOMAIN g /\ f[c] = g[c]
  BY <1>1 DEF AreAttrs
<1>3. \A c \in DOMAIN g : c \in DOMAIN f
  BY <1>1 DEF AreAttrs
<1> QED
  BY <1>2, <1>3 DEF AreAttrs

(* The map of attributes depends on what the strand holds only. *)
LEMMA AttrsKept ==
  ASSUME NEW m, NEW n, NEW o \in DOMAIN m.obj, NEW p \in DOMAIN n.obj, NEW s,
         Strand(m, o, s), Strand(n, p, s),
         \A i \in 1..Len(s) : InfoOf(n, s[i]) = InfoOf(m, s[i]) /\ Held(n, s[i]) = Held(m, s[i])
  PROVE  AttrsOf(n, p) = AttrsOf(m, o)
<1>1. AreAttrs(AttrsOf(n, p), n, s) /\ AreAttrs(AttrsOf(m, o), m, s)
  BY AttrsOfAre
<1>2. \A i \in 1..Len(s) : View(m, s[i]) = View(n, s[i])
  BY DEF View
<1> QED
  BY <1>1, <1>2, AttrsEqual

(* n is m with s for the attributes of x: other variables and their attributes are
   left alone, and those that are new were not allocated. *)
Replaces(m, n, x, ch, s) ==
  /\ Outside(m, n, {x} \cup SetOf(ch[x]))
  /\ \A p \in DOMAIN n.obj \ (Attr \cup {x}) : p \in DOMAIN m.obj
  /\ \A a \in Attr \cap DOMAIN n.obj :
       a \in SetOf(s) \/ (a \in DOMAIN m.obj /\ a \notin SetOf(ch[x]))
  /\ \A a \in SetOf(s) : a \in SetOf(ch[x]) \/ a \notin DOMAIN m.obj
  /\ Strand(n, x, s)

(* The strands of two variables have nothing in common. *)
LEMMA Apart ==
  ASSUME NEW m, NEW ch, Shape(m, ch), NEW x \in Name, NEW z \in Name, z # x
  PROVE  /\ Strand(m, z, ch[z]) /\ SetOf(ch[z]) \subseteq DOMAIN m.obj
         /\ z \notin {x} \cup SetOf(ch[x])
         /\ SetOf(ch[z]) \cap ({x} \cup SetOf(ch[x])) = {}
<1>1. \A y \in Name : SetOf(ch[y]) \subseteq Attr \cap DOMAIN m.obj
  BY RisingCodes DEF Shape, Strand, SetOf
<1>2. Name \cap Attr = {}
  BY RoomAssumption
<1>3. SetOf(ch[z]) \cap SetOf(ch[x]) = {}
  BY DEF Shape
<1> QED
  BY <1>1, <1>2, <1>3 DEF Shape

(* Giving x other attributes leaves the memory good and the other variables unseen. *)
LEMMA Replaced ==
  ASSUME NEW m, NEW ch, Good(m, ch), NEW x \in Name, NEW n, Heap(n), NEW s,
         Replaces(m, n, x, ch, s)
  PROVE  /\ Good(n, [ch EXCEPT ![x] = s])
         /\ \A z \in Name \ {x} : SeenSame(m, n, z)
<1> DEFINE K == {x} \cup SetOf(ch[x])
           new == [ch EXCEPT ![x] = s]
<1>1. Shape(m, ch) /\ ch \in [Name -> Seq(Attr)] /\ s \in Seq(Attr)
  BY DEF Good, Shape, Replaces, Strand, Rising
<1>2. new \in [Name -> Seq(Attr)] /\ new[x] = s /\ \A z \in Name \ {x} : new[z] = ch[z]
  BY <1>1
<1> HIDE DEF new
<1>3. ASSUME NEW z \in Name \ {x}
      PROVE  z \in DOMAIN n.obj <=> z \in DOMAIN m.obj
  <2>1. z \notin Attr /\ z \notin K
    BY <1>1, Apart, RoomAssumption
  <2> QED BY <2>1 DEF Replaces, Outside
<1>4. ASSUME NEW z \in Name \ {x}
      PROVE  Strand(n, z, ch[z])
  <2>1. /\ Strand(m, z, ch[z]) /\ SetOf(ch[z]) \cap K = {} /\ z \notin K
    BY <1>1, Apart
  <2>2. CASE z \in DOMAIN m.obj
    BY <2>1, <2>2, StrandKept DEF Replaces
  <2>3. CASE z \notin DOMAIN m.obj
    <3>1. z \notin DOMAIN n.obj
      BY <1>3, <2>3
    <3>2. ch[z] = <<>> /\ Len(ch[z]) = 0
      BY <2>1, <2>3 DEF Strand
    <3>3. Rising(n, ch[z])
      BY <3>2, <2>1 DEF Rising, Strand
    <3> QED BY <3>1, <3>2, <3>3 DEF Strand
  <2> QED BY <2>2, <2>3
<1>5. ASSUME NEW z \in Name \ {x}
      PROVE  SetOf(ch[z]) \cap SetOf(s) = {}
  <2>1. SetOf(ch[z]) \cap K = {} /\ SetOf(ch[z]) \subseteq DOMAIN m.obj
    BY <1>1, Apart
  <2> QED BY <2>1 DEF Replaces
<1>6. \A y, z \in Name : y # z => SetOf(new[y]) \cap SetOf(new[z]) = {}
  <2> SUFFICES ASSUME NEW y \in Name, NEW z \in Name, y # z
               PROVE  SetOf(new[y]) \cap SetOf(new[z]) = {}
    OBVIOUS
  <2>1. CASE y = x
    BY <2>1, <1>2, <1>5
  <2>2. CASE z = x
    BY <2>2, <1>2, <1>5
  <2>3. CASE y # x /\ z # x
    BY <2>3, <1>2 DEF Good, Shape
  <2> QED BY <2>1, <2>2, <2>3
<1>7. ASSUME NEW a \in Attr \cap DOMAIN n.obj
      PROVE  \E z \in Name : a \in SetOf(new[z])
  <2>1. CASE a \in SetOf(s)
    BY <2>1, <1>2
  <2>2. CASE a \in DOMAIN m.obj /\ a \notin SetOf(ch[x])
    <3>1. PICK z \in Name : a \in SetOf(ch[z])
      BY <2>2, <1>1 DEF Shape
    <3>2. z # x
      BY <2>2, <3>1
    <3> QED BY <3>1, <3>2, <1>2
  <2> QED BY <2>1, <2>2 DEF Replaces
<1>8. \A z \in Name : Strand(n, z, new[z])
  BY <1>2, <1>4 DEF Replaces
<1>9. Shape(n, new)
  BY <1>2, <1>6, <1>7, <1>8 DEF Shape
<1>10. ASSUME NEW z \in Name \ {x}
       PROVE  SeenSame(m, n, z)
  <2>1. /\ Strand(m, z, ch[z]) /\ SetOf(ch[z]) \cap K = {} /\ z \notin K
        /\ SetOf(ch[z]) \subseteq DOMAIN m.obj
    BY <1>1, Apart
  <2> SUFFICES ASSUME z \in DOMAIN m.obj
               PROVE  /\ InfoOf(n, z) = InfoOf(m, z) /\ Held(n, z) = Held(m, z)
                      /\ AttrsOf(n, z) = AttrsOf(m, z)
    BY <1>3 DEF SeenSame
  <2>2. InfoOf(n, z) = InfoOf(m, z) /\ Held(n, z) = Held(m, z) /\ z \in DOMAIN n.obj
    BY <2>1 DEF Replaces, Outside
  <2>3. \A i \in 1..Len(ch[z]) : ch[z][i] \in DOMAIN m.obj \ K
    BY <2>1 DEF SetOf
  <2>4. \A i \in 1..Len(ch[z]) : /\ InfoOf(n, ch[z][i]) = InfoOf(m, ch[z][i])
                                 /\ Held(n, ch[z][i]) = Held(m, ch[z][i])
    BY <2>3 DEF Replaces, Outside
  <2>5. AttrsOf(n, z) = AttrsOf(m, z)
    BY <1>4, <2>1, <2>2, <2>4, AttrsKept
  <2> QED BY <2>2, <2>5
<1> QED
  BY <1>9, <1>10 DEF Good, new

----------------------------------------------------------------------------
(* Operations on good memories *)

(* ViewOf changes for x. *)
Value(info, val, attrs) == [info |-> info, val |-> val, attrs |-> attrs]

(* If only x is seen to change, the view changes at x only. *)
LEMMA ViewPut ==
  ASSUME NEW m, NEW n, NEW x \in Name, x \in DOMAIN n.obj,
         \A z \in Name \ {x} : SeenSame(m, n, z)
  PROVE  ViewOf(n) = Put(ViewOf(m), x, Value(InfoOf(n, x), Held(n, x), AttrsOf(n, x)))
<1> DEFINE V(k) == [y \in {z \in Name : IsThere(k, z)} |->
                      Value(InfoOf(k, y), Held(k, y), AttrsOf(k, y))]
           A == {z \in Name : IsThere(m, z)}
           B == {z \in Name : IsThere(n, z)}
<1>1. ViewOf(m) = V(m) /\ ViewOf(n) = V(n)
  BY DEF ViewOf, Value
<1>2. B = A \cup {x}
  BY DEF SeenSame, IsThere
<1>3. \A z \in A \ {x} : V(n)[z] = V(m)[z]
  BY DEF SeenSame, IsThere
<1>4. V(n)[x] = Value(InfoOf(n, x), Held(n, x), AttrsOf(n, x))
  BY DEF IsThere
<1>5. DOMAIN V(m) = A /\ DOMAIN V(n) = B /\ V(n) = [z \in B |-> V(n)[z]]
  OBVIOUS
<1>6. PICK f, g : f = V(m) /\ g = V(n)
  OBVIOUS
<1> HIDE DEF V, A, B
<1>7. \A z \in B : g[z] = IF z = x THEN Value(InfoOf(n, x), Held(n, x), AttrsOf(n, x)) ELSE f[z]
  BY <1>2, <1>3, <1>4, <1>6
<1>8. g = Put(f, x, Value(InfoOf(n, x), Held(n, x), AttrsOf(n, x)))
  BY <1>2, <1>5, <1>6, <1>7 DEF Put
<1> QED
  BY <1>1, <1>6, <1>8

(* The view of a variable: its info, what it holds and its attributes. *)
LEMMA ViewIs ==
  ASSUME NEW m, NEW x \in Name, x \in DOMAIN m.obj
  PROVE  /\ x \in DOMAIN ViewOf(m)
         /\ ViewOf(m)[x] = Value(InfoOf(m, x), Held(m, x), AttrsOf(m, x))
         /\ ViewOf(m)[x].info = InfoOf(m, x) /\ ViewOf(m)[x].val = Held(m, x)
         /\ ViewOf(m)[x].attrs = AttrsOf(m, x)
<1>1. /\ x \in DOMAIN ViewOf(m)
      /\ ViewOf(m)[x] = [info |-> InfoOf(m, x), val |-> Held(m, x), attrs |-> AttrsOf(m, x)]
  BY DEF ViewOf, IsThere
<1> QED
  BY <1>1 DEF Value

(* An empty strand is an empty map of attributes. *)
LEMMA NoneAreAttrs ==
  ASSUME NEW m, NEW o \in DOMAIN m.obj, Strand(m, o, <<>>)
  PROVE  AttrsOf(m, o) = Nothing
<1>1. AreAttrs(AttrsOf(m, o), m, <<>>)
  BY AttrsOfAre
<1>2. PICK f : f = AttrsOf(m, o)
  OBVIOUS
<1>3. DOMAIN f = {} /\ f = [c \in DOMAIN f |-> f[c]]
  BY <1>1, <1>2 DEF AreAttrs
<1> QED
  BY <1>2, <1>3 DEF Nothing

(* Changing what one object holds leaves every strand. *)
LEMMA StrandSaved ==
  ASSUME NEW m, NEW n, NEW o \in DOMAIN m.obj, NEW s, Strand(m, o, s), NEW x, SaveFor(m, n, x)
  PROVE  Strand(n, o, s)
<1>1. \A i \in 1..Len(s) : /\ s[i] \in DOMAIN n.obj /\ InfoOf(n, s[i]) = InfoOf(m, s[i])
                           /\ CodeOf(n, s[i]) = CodeOf(m, s[i])
                           /\ n.obj[s[i]].next = m.obj[s[i]].next
  BY DEF Strand, Rising, SaveFor, CodeOf, InfoOf
<1>2. Rising(n, s)
  BY <1>1 DEF Strand, Rising
<1>3. o \in DOMAIN n.obj /\ n.obj[o].next = m.obj[o].next
  BY DEF SaveFor
<1>4. \A i \in 0..Len(s) : i = 0 \/ i \in 1..Len(s)
  BY DEF Strand, Rising
<1>5. \A i \in 0..Len(s) : n.obj[At(o, s, i)].next = After(s, i)
  BY <1>1, <1>3, <1>4 DEF Strand, At
<1> QED
  BY <1>2, <1>3, <1>5 DEF Strand

(* Changing what a variable holds leaves its attributes and those of the others. *)
LEMMA SavedReplaces ==
  ASSUME NEW m, NEW ch, Good(m, ch), NEW x \in Name, x \in DOMAIN m.obj,
         NEW n, SaveFor(m, n, x)
  PROVE  Replaces(m, n, x, ch, ch[x]) /\ AttrsOf(n, x) = AttrsOf(m, x)
<1>1. Strand(m, x, ch[x])
  BY DEF Good, Shape
<1>2. Strand(n, x, ch[x])
  BY <1>1, StrandSaved
<1>3. Outside(m, n, {x} \cup SetOf(ch[x])) /\ DOMAIN n.obj = DOMAIN m.obj
  BY DEF Outside, SaveFor
<1>4. Replaces(m, n, x, ch, ch[x])
  BY <1>2, <1>3 DEF Replaces
<1>5. \A i \in 1..Len(ch[x]) : ch[x][i] \in DOMAIN m.obj \ {x}
  BY <1>1, RisingCodes, RoomAssumption DEF Strand
<1>6. \A i \in 1..Len(ch[x]) : /\ InfoOf(n, ch[x][i]) = InfoOf(m, ch[x][i])
                               /\ Held(n, ch[x][i]) = Held(m, ch[x][i])
  BY <1>5 DEF SaveFor
<1>7. AttrsOf(n, x) = AttrsOf(m, x)
  BY <1>1, <1>2, <1>3, <1>6, AttrsKept
<1> QED
  BY <1>4, <1>7

(* The same attributes. *)
LEMMA SameChains ==
  ASSUME NEW ch \in [Name -> Seq(Attr)], NEW x \in Name
  PROVE  [ch EXCEPT ![x] = ch[x]] = ch
OBVIOUS

(* Storing a value in a variable: its attributes and the other variables stay. *)
LEMMA StoreSound ==
  ASSUME NEW m, NEW ch, Good(m, ch), NEW x \in Name, x \in DOMAIN m.obj, NEW val,
         Fits(InfoOf(m, x), val), NEW n, n = Store(m, x, val)
  PROVE  /\ Good(n, ch) /\ SaveFor(m, n, x) /\ Held(n, x) = val
         /\ AttrsOf(n, x) = AttrsOf(m, x)
         /\ ViewOf(n) = Put(ViewOf(m), x, Value(InfoOf(m, x), val, AttrsOf(m, x)))
<1>1. Heap(n) /\ SaveFor(m, n, x) /\ Held(n, x) = val
  BY StoreDoes DEF Good
<1>2. Replaces(m, n, x, ch, ch[x]) /\ AttrsOf(n, x) = AttrsOf(m, x)
  BY <1>1, SavedReplaces
<1>3. Good(n, [ch EXCEPT ![x] = ch[x]]) /\ \A z \in Name \ {x} : SeenSame(m, n, z)
  BY <1>1, <1>2, Replaced
<1>4. Good(n, ch)
  BY <1>3, SameChains DEF Good, Shape
<1>5. x \in DOMAIN n.obj /\ InfoOf(n, x) = InfoOf(m, x)
  BY <1>1 DEF SaveFor
<1>6. ViewOf(n) = Put(ViewOf(m), x, Value(InfoOf(n, x), Held(n, x), AttrsOf(n, x)))
  BY <1>3, <1>5, ViewPut
<1> QED
  BY <1>1, <1>2, <1>4, <1>5, <1>6

(* Constructing a variable: it is seen unset and without attributes. *)
LEMMA MadeSound ==
  ASSUME NEW m, NEW ch, Good(m, ch), NEW x \in Name, x \notin DOMAIN m.obj, NEW info \in Infos,
         NEW n, n = WithObj(m, x, NewVar(info))
  PROVE  /\ Good(n, ch) /\ DOMAIN n.obj = DOMAIN m.obj \cup {x}
         /\ InfoOf(n, x) = info /\ Held(n, x) = Unset /\ AttrsOf(n, x) = Nothing
         /\ \A p \in DOMAIN m.obj : n.obj[p] = m.obj[p] /\ Held(n, p) = Held(m, p)
         /\ ch[x] = <<>>
         /\ ViewOf(n) = Put(ViewOf(m), x, Value(info, Unset, Nothing))
<1>1. /\ Heap(n) /\ DOMAIN n.obj = DOMAIN m.obj \cup {x}
      /\ InfoOf(n, x) = info /\ Held(n, x) = Unset /\ n.obj[x].next = Nil
      /\ \A p \in DOMAIN m.obj : n.obj[p] = m.obj[p] /\ Held(n, p) = Held(m, p)
  BY HeapNew DEF Good
<1>2. ch[x] = <<>> /\ Rising(m, ch[x])
  BY DEF Good, Shape, Strand
<1>3. Len(ch[x]) = 0
  BY <1>2
<1>4. Rising(n, ch[x])
  BY <1>2, <1>3 DEF Rising
<1>5. Strand(n, x, ch[x])
  <2>1. \A i \in 0..Len(ch[x]) : At(x, ch[x], i) = x /\ After(ch[x], i) = Nil
    BY <1>3 DEF At, After
  <2> QED BY <1>1, <1>4, <2>1 DEF Strand
<1>6. Outside(m, n, {x} \cup SetOf(ch[x]))
  BY <1>1 DEF Outside, InfoOf
<1>7. SetOf(ch[x]) = {}
  BY <1>3 DEF SetOf
<1>8. Replaces(m, n, x, ch, ch[x])
  <2>1. x \notin Attr
    BY RoomAssumption
  <2> QED BY <1>1, <1>5, <1>6, <1>7, <2>1 DEF Replaces
<1>9. Good(n, [ch EXCEPT ![x] = ch[x]]) /\ \A z \in Name \ {x} : SeenSame(m, n, z)
  BY <1>1, <1>8, Replaced
<1>10. Good(n, ch)
  BY <1>9, SameChains DEF Good, Shape
<1>11. AttrsOf(n, x) = Nothing
  BY <1>1, <1>2, <1>5, NoneAreAttrs
<1>12. ViewOf(n) = Put(ViewOf(m), x, Value(InfoOf(n, x), Held(n, x), AttrsOf(n, x)))
  BY <1>1, <1>9, ViewPut
<1> QED
  BY <1>1, <1>2, <1>10, <1>11, <1>12

(* The attributes of x are deleted. *)
LEMMA ClearedDoes ==
  ASSUME NEW m, NEW ch, Good(m, ch), NEW x \in Name, x \in DOMAIN m.obj,
         NEW n, n = Clear_attrs(m, x)
  PROVE  /\ Heap(n) /\ Replaces(m, n, x, ch, <<>>) /\ x \in DOMAIN n.obj
         /\ InfoOf(n, x) = InfoOf(m, x) /\ Held(n, x) = Held(m, x)
<1>1. Strand(m, x, ch[x]) /\ Chain(m, x) = ch[x]
  BY StrandLeads DEF Good, Shape
<1>2. PICK S : S = SetOf(ch[x])
  OBVIOUS
<1>3. S \subseteq DOMAIN m.obj /\ S \subseteq Attr /\ x \notin S
  BY <1>1, <1>2, RisingCodes, RoomAssumption DEF SetOf, Strand
<1>4. PICK d : d = Delete(m, S)
  OBVIOUS
<1>5. /\ Heap(d) /\ DOMAIN d.obj = DOMAIN m.obj \ S
      /\ \A p \in DOMAIN m.obj \ S : d.obj[p] = m.obj[p] /\ Held(d, p) = Held(m, p)
  BY <1>3, <1>4, HeapDelete DEF Good
<1>6. n = Link(d, x, Nil)
  BY <1>1, <1>2, <1>4 DEF Clear_attrs, ChainSet, SetOf
<1>7. /\ Heap(n) /\ DOMAIN n.obj = DOMAIN d.obj
      /\ n.obj[x].next = Nil
      /\ \A p \in DOMAIN d.obj \ {x} : n.obj[p].next = d.obj[p].next
      /\ \A p \in DOMAIN d.obj : InfoOf(n, p) = InfoOf(d, p) /\ Held(n, p) = Held(d, p)
  BY <1>3, <1>5, <1>6, HeapLink
<1>8. \A p \in DOMAIN m.obj \ S : InfoOf(n, p) = InfoOf(m, p) /\ Held(n, p) = Held(m, p)
  BY <1>5, <1>7 DEF InfoOf
<1>9. Outside(m, n, {x} \cup S)
  BY <1>5, <1>7, <1>8 DEF Outside
<1>10. Strand(n, x, <<>>)
  <2>1. \A i \in 0..Len(<<>>) : At(x, <<>>, i) = x /\ After(<<>>, i) = Nil
    BY DEF At, After
  <2>2. Rising(n, <<>>)
    BY DEF Rising
  <2> QED BY <1>7, <2>1, <2>2 DEF Strand
<1>11. SetOf(<<>>) = {}
  BY DEF SetOf
<1>12. Replaces(m, n, x, ch, <<>>)
  BY <1>2, <1>5, <1>7, <1>9, <1>10, <1>11 DEF Replaces
<1> QED
  BY <1>3, <1>5, <1>7, <1>8, <1>12

(* clear_attrs: the attributes are deleted and no other variable changes. *)
LEMMA ClearedSound ==
  ASSUME NEW m, NEW ch, Good(m, ch), NEW x \in Name, x \in DOMAIN m.obj,
         NEW n, n = Clear_attrs(m, x)
  PROVE  /\ Good(n, [ch EXCEPT ![x] = <<>>])
         /\ ViewOf(n) = Put(ViewOf(m), x, Value(InfoOf(m, x), Held(m, x), Nothing))
<1>1. /\ Heap(n) /\ Replaces(m, n, x, ch, <<>>) /\ x \in DOMAIN n.obj
      /\ InfoOf(n, x) = InfoOf(m, x) /\ Held(n, x) = Held(m, x)
  BY ClearedDoes
<1>2. Good(n, [ch EXCEPT ![x] = <<>>]) /\ \A z \in Name \ {x} : SeenSame(m, n, z)
  BY <1>1, Replaced
<1>3. AttrsOf(n, x) = Nothing
  BY <1>1, NoneAreAttrs DEF Replaces
<1>4. ViewOf(n) = Put(ViewOf(m), x, Value(InfoOf(n, x), Held(n, x), AttrsOf(n, x)))
  BY <1>1, <1>2, ViewPut
<1> QED
  BY <1>1, <1>2, <1>3, <1>4

(* n is m with the attribute a after end: a copy of from. *)
Appended(m, n, end, a, from) ==
  /\ Heap(n) /\ a \in Attr \ DOMAIN m.obj /\ DOMAIN n.obj = DOMAIN m.obj \cup {a}
  /\ \A p \in DOMAIN m.obj : InfoOf(n, p) = InfoOf(m, p) /\ Held(n, p) = Held(m, p)
  /\ InfoOf(n, a) = InfoOf(m, from) /\ Held(n, a) = Held(m, from)
  /\ \A p \in DOMAIN m.obj \ {end} : n.obj[p].next = m.obj[p].next
  /\ n.obj[end].next = a /\ n.obj[a].next = Nil

(* Copying one attribute to the end of a chain. *)
LEMMA AppendDoes ==
  ASSUME NEW m, NEW ch, Good(m, ch), NEW end \in DOMAIN m.obj, NEW from \in DOMAIN m.obj,
         InfoOf(m, from) \in Infos, NEW n, n = Append_copy(m, end, from)
  PROVE  \E a : Appended(m, n, end, a, from)
<1>1. PICK a : a = AnyOf(FreeAttrs(m))
  OBVIOUS
<1>2. a \in Attr \ DOMAIN m.obj /\ a # end /\ a # from
  BY <1>1, AttrFree DEF Good
<1>3. PICK info \in Infos : info = InfoOf(m, from)
  OBVIOUS
<1>4. PICK v : v = WithObj(m, a, NewVar(info))
  OBVIOUS
<1>5. /\ Heap(v) /\ DOMAIN v.obj = DOMAIN m.obj \cup {a}
      /\ InfoOf(v, a) = info /\ Held(v, a) = Unset /\ v.obj[a].next = Nil
      /\ \A p \in DOMAIN m.obj : v.obj[p] = m.obj[p] /\ Held(v, p) = Held(m, p)
  BY <1>2, <1>4, HeapNew DEF Good
<1>6. PICK w : w = Link(v, end, a)
  OBVIOUS
<1>7. /\ Heap(w) /\ DOMAIN w.obj = DOMAIN v.obj
      /\ w.obj[end].next = a
      /\ \A p \in DOMAIN v.obj \ {end} : w.obj[p].next = v.obj[p].next
      /\ \A p \in DOMAIN v.obj : InfoOf(w, p) = InfoOf(v, p) /\ Held(w, p) = Held(v, p)
  BY <1>5, <1>6, HeapLink
<1>8. \A p \in DOMAIN m.obj : InfoOf(w, p) = InfoOf(m, p) /\ Held(w, p) = Held(m, p)
  BY <1>5, <1>7 DEF InfoOf
<1>9. PICK h : h = Held(w, from)
  OBVIOUS
<1>10. h = Held(m, from) /\ InfoOf(w, a) = InfoOf(m, from) /\ a \in DOMAIN w.obj
  BY <1>3, <1>5, <1>7, <1>8, <1>9
<1>11. Fits(InfoOf(w, a), h)
  BY <1>10 DEF Good, Heap, Values
<1>12. n = Store(w, a, h)
  BY <1>1, <1>3, <1>4, <1>6, <1>9 DEF Append_copy, Copy_value
<1>13. Heap(n) /\ SaveFor(w, n, a) /\ Held(n, a) = h
  BY <1>7, <1>10, <1>11, <1>12, StoreDoes
<1>14. DOMAIN n.obj = DOMAIN m.obj \cup {a}
  BY <1>5, <1>7, <1>13 DEF SaveFor
<1>15. \A p \in DOMAIN m.obj : InfoOf(n, p) = InfoOf(m, p) /\ Held(n, p) = Held(m, p)
  BY <1>2, <1>5, <1>7, <1>8, <1>13 DEF SaveFor
<1>16. InfoOf(n, a) = InfoOf(m, from) /\ Held(n, a) = Held(m, from)
  BY <1>10, <1>13 DEF SaveFor
<1>17. /\ \A p \in DOMAIN m.obj \ {end} : n.obj[p].next = m.obj[p].next
       /\ n.obj[end].next = a /\ n.obj[a].next = Nil
  BY <1>2, <1>5, <1>7, <1>13 DEF SaveFor
<1> QED
  BY <1>2, <1>13, <1>14, <1>15, <1>16, <1>17 DEF Appended

(* The pointers lead to the attribute that is appended. *)
LEMMA AppendedStrand ==
  ASSUME NEW m, NEW x \in Name, x \in DOMAIN m.obj, NEW t, Strand(m, x, t), NEW from,
         InfoOf(m, from) \in Attributes,
         \A i \in 1..Len(t) : Earlier(CodeOf(m, t[i]), CodeOf(m, from)),
         NEW n, NEW a, Appended(m, n, At(x, t, Len(t)), a, from)
  PROVE  Strand(n, x, Append(t, a))
<1>1. t \in Seq(Attr) /\ Rising(m, t)
  BY DEF Strand, Rising
<1>2. PICK k \in Nat : k = Len(t)
  BY <1>1
<1>3. PICK end : end = At(x, t, k)
  OBVIOUS
<1>4. Appended(m, n, end, a, from)
  BY <1>2, <1>3
<1>5. a \in Attr /\ a \notin DOMAIN m.obj
  BY <1>4 DEF Appended
<1>6. PICK u : u = Append(t, a)
  OBVIOUS
<1>7. u \in Seq(Attr) /\ Len(u) = Len(t) + 1 /\ u[Len(t) + 1] = a
      /\ \A i \in 1..Len(t) : u[i] = t[i]
  BY <1>1, <1>5, <1>6
<1>8. Len(u) = k + 1 /\ u[k + 1] = a /\ \A i \in 1..k : u[i] = t[i]
  BY <1>2, <1>7
<1>9. \A i \in 1..k : /\ t[i] \in DOMAIN m.obj /\ InfoOf(m, t[i]) \in Attributes
                      /\ t[i] \in Attr
  BY <1>1, <1>2 DEF Rising
<1>10. \A i \in 1..k : /\ u[i] \in DOMAIN n.obj /\ InfoOf(n, u[i]) = InfoOf(m, t[i])
                       /\ CodeOf(n, u[i]) = CodeOf(m, t[i])
  BY <1>4, <1>8, <1>9 DEF Appended, CodeOf, InfoOf
<1>11. /\ a \in DOMAIN n.obj /\ InfoOf(n, a) = InfoOf(m, from)
       /\ CodeOf(n, a) = CodeOf(m, from)
  BY <1>4 DEF Appended, CodeOf, InfoOf
<1>12. Rising(n, u)
  <2>1. \A i \in 1..(k + 1) : u[i] \in DOMAIN n.obj /\ InfoOf(n, u[i]) \in Attributes
    BY <1>8, <1>9, <1>10, <1>11
  <2>2. ASSUME NEW i \in 1..(k + 1), NEW j \in 1..(k + 1), i < j
        PROVE  Earlier(CodeOf(n, u[i]), CodeOf(n, u[j]))
    <3>1. i \in 1..k /\ CodeOf(n, u[i]) = CodeOf(m, t[i])
      BY <2>2, <1>10
    <3>2. CASE j \in 1..k
      BY <2>2, <3>1, <3>2, <1>1, <1>2, <1>10 DEF Rising
    <3>3. CASE j = k + 1
      BY <3>1, <3>3, <1>2, <1>8, <1>11
    <3> QED BY <3>2, <3>3
  <2> QED BY <1>7, <1>8, <2>1, <2>2 DEF Rising
<1>13. x \in DOMAIN n.obj /\ x \notin Attr
  BY <1>4, RoomAssumption DEF Appended
<1>14. ASSUME NEW i \in 0..(k + 1)
       PROVE  n.obj[At(x, u, i)].next = After(u, i)
  <2>1. CASE i = k + 1
    <3>1. At(x, u, i) = a /\ After(u, i) = Nil
      BY <2>1, <1>8 DEF At, After
    <3> QED BY <3>1, <1>4 DEF Appended
  <2>2. CASE i = k
    <3>1. At(x, u, i) = end /\ After(u, i) = a
      BY <2>2, <1>3, <1>8 DEF At, After
    <3> QED BY <3>1, <1>4 DEF Appended
  <2>3. CASE i < k
    <3>1. At(x, u, i) = At(x, t, i) /\ After(u, i) = After(t, i)
      BY <2>3, <1>2, <1>8 DEF At, After
    <3>2. m.obj[At(x, t, i)].next = After(t, i)
      BY <1>2, <2>3 DEF Strand
    <3>3. At(x, t, i) \in DOMAIN m.obj /\ At(x, t, i) # end
      <4>1. end = t[k] /\ k \in 1..k
        BY <2>3, <1>3 DEF At
      <4>2. CASE i = 0
        BY <4>1, <4>2, <1>9, <1>13 DEF At
      <4>3. CASE i # 0
        <5>1. At(x, t, i) = t[i] /\ i \in 1..k
          BY <2>3, <4>3 DEF At
        <5>2. t[i] # t[k]
          <6>1. i \in 1..Len(t) /\ k \in 1..Len(t) /\ i # k
            BY <1>2, <2>3, <4>1, <5>1
          <6> QED BY <6>1, <1>1, RisingOnce
        <5> QED BY <4>1, <5>1, <5>2, <1>9
      <4> QED BY <4>2, <4>3
    <3> QED BY <3>1, <3>2, <3>3, <1>4 DEF Appended
  <2> QED BY <2>1, <2>2, <2>3
<1> QED
  BY <1>6, <1>8, <1>12, <1>13, <1>14 DEF Strand

(* n is m with copies of the first k of s for the attributes of x, which had none. *)
CopiedAs(m, n, x, ch, s, k, t) ==
  /\ Heap(n) /\ Replaces(m, n, x, ch, t) /\ x \in DOMAIN n.obj
  /\ InfoOf(n, x) = InfoOf(m, x) /\ Held(n, x) = Held(m, x)
  /\ Len(t) = k
  /\ \A i \in 1..k : InfoOf(n, t[i]) = InfoOf(m, s[i]) /\ Held(n, t[i]) = Held(m, s[i])

(* Nothing has been copied before the first attribute. *)
LEMMA CopyStarts ==
  ASSUME NEW m, NEW ch, Good(m, ch), NEW x \in Name, x \in DOMAIN m.obj, ch[x] = <<>>, NEW s
  PROVE  CopiedAs(m, m, x, ch, s, 0, <<>>)
<1>1. Strand(m, x, ch[x])
  BY DEF Good, Shape
<1>2. Strand(m, x, <<>>)
  BY <1>1
<1>3. SetOf(<<>>) = {} /\ Len(<<>>) = 0
  BY DEF SetOf
<1>4. SetOf(ch[x]) = {}
  BY <1>3
<1>5. Replaces(m, m, x, ch, <<>>)
  BY <1>2, <1>3, <1>4 DEF Replaces, Outside
<1> QED
  BY <1>3, <1>5 DEF CopiedAs, Good

(* Each step of the loop of setattrs copies one more. *)
LEMMA CopyGoesOn ==
  ASSUME NEW m, NEW ch, Good(m, ch), NEW x \in Name, x \in DOMAIN m.obj, ch[x] = <<>>,
         NEW s, Rising(m, s), NEW k \in Nat, k + 1 <= Len(s),
         NEW n, NEW t, CopiedAs(m, n, x, ch, s, k, t),
         NEW w, w = Append_copy(n, Last_of(n, x), s[k + 1])
  PROVE  \E u : CopiedAs(m, w, x, ch, s, k + 1, u)
<1>1. /\ Heap(n) /\ Replaces(m, n, x, ch, t) /\ x \in DOMAIN n.obj
      /\ InfoOf(n, x) = InfoOf(m, x) /\ Held(n, x) = Held(m, x)
      /\ Len(t) = k
      /\ \A i \in 1..k : InfoOf(n, t[i]) = InfoOf(m, s[i]) /\ Held(n, t[i]) = Held(m, s[i])
  BY DEF CopiedAs
<1>2. Good(n, [ch EXCEPT ![x] = t])
  BY <1>1, Replaced
<1>3. Strand(n, x, t) /\ Chain(n, x) = t /\ Rising(n, t) /\ t \in Seq(Attr)
  <2>1. Strand(n, x, t)
    BY <1>1 DEF Replaces
  <2>2. Rising(n, t) /\ t \in Seq(Attr)
    BY <2>1 DEF Strand, Rising
  <2> QED BY <1>1, <2>1, <2>2, StrandLeads
<1>4. Last_of(n, x) = At(x, t, k)
  <2>1. t = <<>> <=> k = 0
    BY <1>1, <1>3
  <2> QED BY <2>1, <1>1, <1>3 DEF Last_of, At
<1>5. PICK end : end = At(x, t, k)
  OBVIOUS
<1>6. end \in DOMAIN n.obj
  <2>1. k = 0 \/ k \in 1..Len(t)
    BY <1>1
  <2> QED BY <2>1, <1>1, <1>3, <1>5, RisingCodes DEF At
<1>7. SetOf(ch[x]) = {} /\ x \notin Attr
  BY RoomAssumption DEF SetOf
<1>8. \A p \in DOMAIN m.obj \ {x} :
        /\ p \in DOMAIN n.obj /\ InfoOf(n, p) = InfoOf(m, p) /\ Held(n, p) = Held(m, p)
        /\ n.obj[p].next = m.obj[p].next
  BY <1>1, <1>7 DEF Replaces, Outside
<1>9. Len(s) \in Nat /\ k + 1 \in 1..Len(s)
  BY DEF Rising
<1>10. PICK from : from = s[k + 1]
  OBVIOUS
<1>11. /\ from \in DOMAIN m.obj /\ from # x /\ InfoOf(m, from) \in Attributes
       /\ InfoOf(m, from) \in Infos
  BY <1>7, <1>9, <1>10, RisingCodes, InfosAssumption DEF Rising
<1>12. /\ from \in DOMAIN n.obj /\ InfoOf(n, from) = InfoOf(m, from)
       /\ Held(n, from) = Held(m, from)
  BY <1>8, <1>11
<1>13. PICK a : Appended(n, w, end, a, from)
  BY <1>2, <1>4, <1>5, <1>6, <1>10, <1>11, <1>12, AppendDoes
<1>14. ASSUME NEW i \in 1..Len(t)
       PROVE  Earlier(CodeOf(n, t[i]), CodeOf(n, from))
  <2>1. CodeOf(n, t[i]) = CodeOf(m, s[i]) /\ CodeOf(n, from) = CodeOf(m, s[k + 1])
    BY <1>1, <1>10, <1>12 DEF CodeOf, InfoOf
  <2>2. i \in 1..Len(s) /\ k + 1 \in 1..Len(s) /\ i < k + 1
    BY <1>1, <1>9
  <2> QED BY <2>1, <2>2 DEF Rising
<1>15. PICK u : u = Append(t, a)
  OBVIOUS
<1>16. Strand(w, x, u)
  <2>1. Appended(n, w, At(x, t, Len(t)), a, from)
    BY <1>1, <1>5, <1>13
  <2> QED BY <1>1, <1>3, <1>11, <1>12, <1>14, <1>15, <2>1, AppendedStrand
<1>17. a \in Attr /\ a \notin DOMAIN n.obj
  BY <1>13 DEF Appended
<1>18. Len(u) = k + 1 /\ u[k + 1] = a /\ \A i \in 1..k : u[i] = t[i]
  <2>1. Len(u) = Len(t) + 1 /\ u[Len(t) + 1] = a /\ \A i \in 1..Len(t) : u[i] = t[i]
    BY <1>3, <1>15, <1>17
  <2> QED BY <1>1, <2>1
<1>19. SetOf(u) = SetOf(t) \cup {a}
  <2>1. \A i \in 1..(k + 1) : i \in 1..k \/ i = k + 1
    OBVIOUS
  <2>2. SetOf(u) \subseteq SetOf(t) \cup {a}
    BY <2>1, <1>1, <1>18 DEF SetOf
  <2>3. a \in SetOf(u) /\ SetOf(t) \subseteq SetOf(u)
    <3>1. k + 1 \in 1..(k + 1) /\ \A i \in 1..k : i \in 1..(k + 1)
      OBVIOUS
    <3> QED BY <3>1, <1>1, <1>18 DEF SetOf
  <2> QED BY <2>2, <2>3
<1>20. \A p \in DOMAIN m.obj \ {x} : p # end
  <2> SUFFICES ASSUME NEW p \in DOMAIN m.obj, p # x, p = end PROVE FALSE
    OBVIOUS
  <2>1. k \in 1..Len(t) /\ p = t[k]
    BY <1>1, <1>5 DEF At
  <2>2. p \in SetOf(t)
    BY <2>1 DEF SetOf
  <2>3. p \notin DOMAIN m.obj
    BY <2>2, <1>1, <1>7 DEF Replaces
  <2> QED BY <2>3
<1>21. /\ Heap(w) /\ DOMAIN w.obj = DOMAIN n.obj \cup {a}
       /\ \A q \in DOMAIN n.obj : InfoOf(w, q) = InfoOf(n, q) /\ Held(w, q) = Held(n, q)
       /\ InfoOf(w, a) = InfoOf(n, from) /\ Held(w, a) = Held(n, from)
       /\ \A p \in DOMAIN n.obj \ {end} : w.obj[p].next = n.obj[p].next
  BY <1>13 DEF Appended
<1>22. Outside(m, w, {x} \cup SetOf(ch[x]))
  BY <1>7, <1>8, <1>20, <1>21 DEF Outside
<1>23. a \notin DOMAIN m.obj
  BY <1>1, <1>8, <1>17
<1>24. Replaces(m, w, x, ch, u)
  <2>1. \A p \in DOMAIN w.obj \ (Attr \cup {x}) : p \in DOMAIN m.obj
    BY <1>1, <1>17, <1>21 DEF Replaces
  <2>2. \A b \in Attr \cap DOMAIN w.obj :
          b \in SetOf(u) \/ (b \in DOMAIN m.obj /\ b \notin SetOf(ch[x]))
    BY <1>1, <1>19, <1>21 DEF Replaces
  <2>3. \A b \in SetOf(u) : b \in SetOf(ch[x]) \/ b \notin DOMAIN m.obj
    BY <1>1, <1>19, <1>23 DEF Replaces
  <2> QED BY <1>16, <1>22, <2>1, <2>2, <2>3 DEF Replaces
<1>25. ASSUME NEW i \in 1..(k + 1)
       PROVE  InfoOf(w, u[i]) = InfoOf(m, s[i]) /\ Held(w, u[i]) = Held(m, s[i])
  <2>1. CASE i = k + 1
    BY <2>1, <1>10, <1>12, <1>18, <1>21
  <2>2. CASE i \in 1..k
    <3>1. u[i] = t[i] /\ t[i] \in DOMAIN n.obj
      BY <2>2, <1>1, <1>3, <1>18, RisingCodes
    <3> QED BY <2>2, <3>1, <1>1, <1>21
  <2> QED BY <2>1, <2>2
<1> QED
  BY <1>1, <1>18, <1>21, <1>24, <1>25 DEF CopiedAs

(* f[n] is the memory after n attributes of s were copied to o. *)
IsCopying(m, o, s, k, f) ==
  f = [n \in 0..k |-> IF n = 0 THEN m
                      ELSE Append_copy(f[n - 1], Last_of(f[n - 1], o), s[n])]

(* Such a function is defined for any number of them. *)
LEMMA CopyingExists ==
  ASSUME NEW m, NEW o, NEW s, NEW k \in Nat
  PROVE  \E f : IsCopying(m, o, s, k, f)
<1> DEFINE S == {n \in Nat : \E f : IsCopying(m, o, s, n, f)}
           next(w, n) == Append_copy(w, Last_of(w, o), s[n])
<1>1. 0 \in S
  <2>1. IsCopying(m, o, s, 0, [n \in 0..0 |-> m])
    BY DEF IsCopying
  <2> QED BY <2>1
<1>2. ASSUME NEW n \in Nat, n \in S
      PROVE  n + 1 \in S
  <2>1. PICK f : IsCopying(m, o, s, n, f)
    BY <1>2
  <2> DEFINE g == [i \in 0..(n + 1) |-> IF i = n + 1 THEN next(f[n], n + 1) ELSE f[i]]
  <2>0. f = [i \in 0..n |-> IF i = 0 THEN m ELSE next(f[i - 1], i)]
    BY <2>1 DEF IsCopying
  <2> HIDE DEF next
  <2>2. ASSUME NEW i \in 0..(n + 1)
        PROVE  g[i] = IF i = 0 THEN m ELSE next(g[i - 1], i)
    <3>1. CASE i = n + 1
      <4>1. i # 0 /\ i - 1 = n /\ g[i - 1] = f[n]
        BY <3>1
      <4> QED BY <3>1, <4>1
    <3>2. CASE i # n + 1
      <4>1. i \in 0..n /\ g[i] = f[i]
        BY <3>2
      <4>2. i # 0 => g[i - 1] = f[i - 1]
        BY <4>1
      <4>3. f[i] = IF i = 0 THEN m ELSE next(f[i - 1], i)
        BY <2>0, <4>1
      <4> QED BY <4>1, <4>2, <4>3
    <3> QED BY <3>1, <3>2
  <2>3. g = [i \in 0..(n + 1) |-> IF i = 0 THEN m ELSE next(g[i - 1], i)]
    BY <2>2
  <2> HIDE DEF g
  <2>4. IsCopying(m, o, s, n + 1, g)
    BY <2>3 DEF IsCopying, next
  <2> QED BY <2>4
<1> HIDE DEF S
<1>3. k \in S
  BY <1>1, <1>2, NatSetInduction
<1> QED
  BY <1>3 DEF S

(* After the loop all are copied, in their order. *)
LEMMA CopyChainDoes ==
  ASSUME NEW m, NEW ch, Good(m, ch), NEW x \in Name, x \in DOMAIN m.obj, ch[x] = <<>>,
         NEW from \in DOMAIN m.obj, NEW s, Strand(m, from, s),
         NEW n, n = CopyChain(m, x, from)
  PROVE  \E t : CopiedAs(m, n, x, ch, s, Len(s), t)
<1>1. Chain(m, from) = s /\ Rising(m, s) /\ Len(s) \in Nat
  BY StrandLeads DEF Strand, Rising
<1> DEFINE f == CHOOSE f : IsCopying(m, x, s, Len(s), f)
<1>2. IsCopying(m, x, s, Len(s), f)
  <2>1. \E g : IsCopying(m, x, s, Len(s), g)
    <3> HIDE DEF f
    <3> QED BY <1>1, CopyingExists, Zenon
  <2> QED BY <2>1
<1>3. CopyChain(m, x, from) = f[Len(s)]
  BY <1>1 DEF CopyChain, IsCopying
<1> HIDE DEF f
<1> DEFINE S == {k \in Nat : k <= Len(s) => \E t : CopiedAs(m, f[k], x, ch, s, k, t)}
<1>4. 0 \in S
  <2>1. f[0] = m
    BY <1>1, <1>2 DEF IsCopying
  <2>2. CopiedAs(m, m, x, ch, s, 0, <<>>)
    BY CopyStarts
  <2> QED BY <2>1, <2>2
<1>5. ASSUME NEW k \in Nat, k \in S
      PROVE  k + 1 \in S
  <2> SUFFICES ASSUME k + 1 <= Len(s)
               PROVE  \E t : CopiedAs(m, f[k + 1], x, ch, s, k + 1, t)
    OBVIOUS
  <2>1. PICK t : CopiedAs(m, f[k], x, ch, s, k, t)
    BY <1>1, <1>5
  <2>2. k + 1 \in 0..Len(s) /\ k + 1 # 0 /\ (k + 1) - 1 = k
    BY <1>1
  <2>3. f[k + 1] = Append_copy(f[k], Last_of(f[k], x), s[k + 1])
    BY <1>2, <2>2 DEF IsCopying
  <2>4. PICK v, w : v = f[k] /\ w = f[k + 1]
    OBVIOUS
  <2>5. \E u : CopiedAs(m, w, x, ch, s, k + 1, u)
    BY <1>1, <2>1, <2>3, <2>4, CopyGoesOn
  <2> QED BY <2>4, <2>5
<1> HIDE DEF S
<1>6. Len(s) \in S
  BY <1>1, <1>4, <1>5, NatSetInduction
<1> QED
  BY <1>1, <1>3, <1>6 DEF S

(* The attributes of x become those of from, the rest is as it was. *)
LEMMA SetattrsDoes ==
  ASSUME NEW m, NEW ch, Good(m, ch), NEW x \in Name, x \in DOMAIN m.obj,
         NEW c, c = Clear_attrs(m, x), NEW from \in DOMAIN c.obj, NEW s, Strand(c, from, s),
         NEW n, n = Setattrs(m, x, from)
  PROVE  /\ \E g : Good(n, g)
         /\ ViewOf(n) = Put(ViewOf(m), x, Value(InfoOf(m, x), Held(m, x), AttrsOf(c, from)))
<1>1. /\ Heap(c) /\ Replaces(m, c, x, ch, <<>>) /\ x \in DOMAIN c.obj
      /\ InfoOf(c, x) = InfoOf(m, x) /\ Held(c, x) = Held(m, x)
  BY ClearedDoes
<1>2. PICK g : g = [ch EXCEPT ![x] = <<>>]
  OBVIOUS
<1>3. Good(c, g) /\ \A z \in Name \ {x} : SeenSame(m, c, z)
  BY <1>1, <1>2, Replaced
<1>4. g[x] = <<>>
  BY <1>2 DEF Good, Shape
<1>5. n = CopyChain(c, x, from)
  BY DEF Setattrs
<1>6. PICK t : CopiedAs(c, n, x, g, s, Len(s), t)
  BY <1>1, <1>3, <1>4, <1>5, CopyChainDoes
<1>7. /\ Heap(n) /\ Replaces(c, n, x, g, t) /\ x \in DOMAIN n.obj
      /\ InfoOf(n, x) = InfoOf(c, x) /\ Held(n, x) = Held(c, x)
      /\ Len(t) = Len(s)
      /\ \A i \in 1..Len(s) : InfoOf(n, t[i]) = InfoOf(c, s[i]) /\ Held(n, t[i]) = Held(c, s[i])
  BY <1>6 DEF CopiedAs
<1>8. Good(n, [g EXCEPT ![x] = t]) /\ \A z \in Name \ {x} : SeenSame(c, n, z)
  BY <1>3, <1>7, Replaced
<1>9. \A z \in Name \ {x} : SeenSame(m, n, z)
  BY <1>3, <1>8 DEF SeenSame
<1>10. AttrsOf(n, x) = AttrsOf(c, from)
  <2>1. AreAttrs(AttrsOf(n, x), n, t) /\ AreAttrs(AttrsOf(c, from), c, s)
    BY <1>7, AttrsOfAre DEF Replaces
  <2>2. \A i \in 1..Len(s) : View(n, t[i]) = View(c, s[i])
    BY <1>7 DEF View
  <2>3. /\ \A i \in 1..Len(t) : \E j \in 1..Len(s) : View(n, t[i]) = View(c, s[j])
        /\ \A j \in 1..Len(s) : \E i \in 1..Len(t) : View(n, t[i]) = View(c, s[j])
    BY <1>7, <2>2
  <2> QED BY <2>1, <2>3, AttrsEqual
<1>11. ViewOf(n) = Put(ViewOf(m), x, Value(InfoOf(n, x), Held(n, x), AttrsOf(n, x)))
  BY <1>7, <1>9, ViewPut
<1> QED
  BY <1>1, <1>7, <1>8, <1>10, <1>11

(* From another variable, or from itself: they are deleted first. *)
LEMMA SetattrsSound ==
  ASSUME NEW m, NEW ch, Good(m, ch), NEW x \in Name, x \in DOMAIN m.obj,
         NEW y \in Name, y \in DOMAIN m.obj, NEW n, n = Setattrs(m, x, y)
  PROVE  /\ \E g : Good(n, g)
         /\ ViewOf(n) = Put(ViewOf(m), x, Value(InfoOf(m, x), Held(m, x),
                              IF x = y THEN Nothing ELSE AttrsOf(m, y)))
<1>1. PICK c : c = Clear_attrs(m, x)
  OBVIOUS
<1>2. /\ Heap(c) /\ Replaces(m, c, x, ch, <<>>) /\ x \in DOMAIN c.obj
  BY <1>1, ClearedDoes
<1>3. CASE x = y
  <2>1. Strand(c, y, <<>>) /\ y \in DOMAIN c.obj
    BY <1>2, <1>3 DEF Replaces
  <2>2. AttrsOf(c, y) = Nothing
    BY <2>1, NoneAreAttrs
  <2>3. /\ \E g : Good(n, g)
        /\ ViewOf(n) = Put(ViewOf(m), x, Value(InfoOf(m, x), Held(m, x), AttrsOf(c, y)))
    BY <1>1, <2>1, SetattrsDoes
  <2> QED BY <1>3, <2>2, <2>3
<1>4. CASE x # y
  <2>1. Good(c, [ch EXCEPT ![x] = <<>>]) /\ \A z \in Name \ {x} : SeenSame(m, c, z)
    BY <1>2, Replaced
  <2>2. y \in DOMAIN c.obj /\ AttrsOf(c, y) = AttrsOf(m, y)
    BY <1>4, <2>1 DEF SeenSame
  <2>3. PICK s : Strand(c, y, s)
    BY <2>1 DEF Good, Shape
  <2>4. /\ \E g : Good(n, g)
        /\ ViewOf(n) = Put(ViewOf(m), x, Value(InfoOf(m, x), Held(m, x), AttrsOf(c, y)))
    BY <1>1, <2>2, <2>3, SetattrsDoes
  <2> QED BY <1>4, <2>2, <2>4
<1> QED
  BY <1>3, <1>4

(* From an attribute, to a variable that has none. *)
LEMMA SetattrsFromAttr ==
  ASSUME NEW m, NEW ch, Good(m, ch), NEW x \in Name, x \in DOMAIN m.obj, ch[x] = <<>>,
         NEW a \in Attr, a \in DOMAIN m.obj, NEW s, Strand(m, a, s),
         NEW n, n = Setattrs(m, x, a)
  PROVE  /\ \E g : Good(n, g)
         /\ ViewOf(n) = Put(ViewOf(m), x, Value(InfoOf(m, x), Held(m, x), AttrsOf(m, a)))
<1>1. PICK c : c = Clear_attrs(m, x)
  OBVIOUS
<1>2. /\ Heap(c) /\ Replaces(m, c, x, ch, <<>>) /\ x \in DOMAIN c.obj
  BY <1>1, ClearedDoes
<1>3. SetOf(ch[x]) = {}
  BY DEF SetOf
<1>4. Outside(m, c, {x}) /\ a # x
  BY <1>2, <1>3, RoomAssumption DEF Replaces
<1>5. \A i \in 1..Len(s) : s[i] \in DOMAIN m.obj /\ s[i] # x
  BY RisingCodes, RoomAssumption DEF Strand
<1>6. SetOf(s) \cap {x} = {}
  BY <1>5 DEF SetOf
<1>7. Strand(c, a, s) /\ a \in DOMAIN c.obj
  BY <1>4, <1>6, StrandKept DEF Outside
<1>8. \A i \in 1..Len(s) : InfoOf(c, s[i]) = InfoOf(m, s[i]) /\ Held(c, s[i]) = Held(m, s[i])
  BY <1>4, <1>5 DEF Outside
<1>9. AttrsOf(c, a) = AttrsOf(m, a)
  BY <1>7, <1>8, AttrsKept
<1>10. /\ \E g : Good(n, g)
       /\ ViewOf(n) = Put(ViewOf(m), x, Value(InfoOf(m, x), Held(m, x), AttrsOf(c, a)))
  BY <1>1, <1>7, SetattrsDoes
<1> QED
  BY <1>9, <1>10

(* The attributes that come after one. *)
LEMMA TailStrand ==
  ASSUME NEW m, NEW o \in DOMAIN m.obj, NEW s, Strand(m, o, s), NEW k, k \in 1..Len(s)
  PROVE  /\ Strand(m, s[k], SubSeq(s, k + 1, Len(s)))
         /\ s[k] \in DOMAIN m.obj
         /\ AttrsOf(m, s[k]) = Abstract!Only(AttrsOf(m, o),
              {c \in DOMAIN AttrsOf(m, o) : Earlier(CodeOf(m, s[k]), c)})
<1>1. Rising(m, s) /\ s \in Seq(Attr) /\ Len(s) \in Nat
  BY DEF Strand, Rising
<1>2. PICK t : t = SubSeq(s, k + 1, Len(s))
  OBVIOUS
<1>3. PICK l \in Nat : l = Len(s)
  BY <1>1
<1>4. k \in 1..l
  BY <1>3
<1>5. t \in Seq(Attr) /\ Len(t) = l - k /\ \A i \in 1..(l - k) : t[i] = s[i + k]
  <2>1. t = SubSeq(s, k + 1, l) /\ k + 1 \in 1..(l + 1)
    BY <1>2, <1>3, <1>4
  <2>2. \A i \in (k + 1)..l : s[i] \in Attr
    BY <1>1, <1>3, <1>4
  <2> QED BY <1>1, <1>3, <1>4, <2>1, <2>2
<1>6. \A i \in 1..(l - k) : i + k \in 1..Len(s)
  BY <1>3, <1>4
<1>7. Rising(m, t)
  <2>1. \A i \in 1..(l - k) : t[i] \in DOMAIN m.obj /\ InfoOf(m, t[i]) \in Attributes
    BY <1>1, <1>5, <1>6 DEF Rising
  <2>2. ASSUME NEW i \in 1..(l - k), NEW j \in 1..(l - k), i < j
        PROVE  Earlier(CodeOf(m, t[i]), CodeOf(m, t[j]))
    <3>1. i + k < j + k
      BY <2>2, <1>3, <1>4
    <3> QED BY <3>1, <1>1, <1>5, <1>6 DEF Rising
  <2> QED BY <1>5, <2>1, <2>2 DEF Rising
<1>8. s[k] \in DOMAIN m.obj
  BY <1>1, RisingCodes
<1>9. ASSUME NEW i \in 0..(l - k)
      PROVE  m.obj[At(s[k], t, i)].next = After(t, i)
  <2>1. At(s[k], t, i) = s[i + k]
    BY <1>4, <1>5 DEF At
  <2>2. After(t, i) = After(s, i + k)
    <3>1. CASE i < l - k
      <4>1. i + 1 \in 1..(l - k) /\ i + k < l /\ (i + 1) + k = i + k + 1
        BY <3>1, <1>3, <1>4
      <4> QED BY <3>1, <4>1, <1>3, <1>5 DEF After
    <3>2. CASE ~ (i < l - k)
      <4>1. ~ (i + k < l)
        BY <3>2, <1>3, <1>4
      <4> QED BY <3>2, <4>1, <1>3, <1>5 DEF After
    <3> QED BY <3>1, <3>2
  <2>3. i + k \in 0..Len(s) /\ At(o, s, i + k) = s[i + k]
    BY <1>3, <1>4 DEF At
  <2> QED BY <2>1, <2>2, <2>3 DEF Strand
<1>10. Strand(m, s[k], t)
  BY <1>5, <1>7, <1>8, <1>9 DEF Strand
<1>11. PICK f, g : f = AttrsOf(m, o) /\ g = AttrsOf(m, s[k])
  OBVIOUS
<1>12. AreAttrs(f, m, s) /\ AreAttrs(g, m, t)
  BY <1>8, <1>10, <1>11, AttrsOfAre
<1>13. PICK code : code = CodeOf(m, s[k])
  OBVIOUS
<1>14. ASSUME NEW c \in DOMAIN g
       PROVE  c \in DOMAIN f /\ Earlier(code, c) /\ g[c] = f[c]
  <2>1. PICK i \in 1..(l - k) : c = CodeOf(m, t[i]) /\ g[c] = View(m, t[i])
    BY <1>5, <1>12 DEF AreAttrs
  <2>2. c = CodeOf(m, s[i + k]) /\ g[c] = View(m, s[i + k]) /\ i + k \in 1..Len(s)
    BY <2>1, <1>5, <1>6
  <2>3. k < i + k
    BY <1>4
  <2> QED BY <2>2, <2>3, <1>1, <1>12, <1>13 DEF AreAttrs, Rising
<1>15. ASSUME NEW c \in DOMAIN f, Earlier(code, c)
       PROVE  c \in DOMAIN g
  <2>1. PICK j \in 1..Len(s) : c = CodeOf(m, s[j])
    BY <1>12 DEF AreAttrs
  <2>2. k < j
    <3>1. CASE j < k
      <4>1. Earlier(c, code)
        BY <3>1, <2>1, <1>1, <1>13 DEF Rising
      <4>2. c \in Codes /\ code \in Codes
        BY <1>1, <1>13, <2>1, RisingCodes
      <4> QED BY <4>1, <4>2, <1>15, EarlierIs
    <3>2. CASE j = k
      BY <3>2, <1>1, <1>13, <1>15, <2>1, RisingCodes, EarlierIs
    <3> QED BY <3>1, <3>2, <1>1
  <2>3. PICK i : i = j - k
    OBVIOUS
  <2>4. i \in 1..(l - k) /\ i + k = j
    BY <2>2, <2>3, <1>3, <1>4
  <2>5. t[i] = s[j]
    BY <2>4, <1>5
  <2> QED BY <2>1, <2>4, <2>5, <1>5, <1>12 DEF AreAttrs
<1>16. g = Abstract!Only(f, {c \in DOMAIN f : Earlier(code, c)})
  <2>1. g = [c \in DOMAIN g |-> g[c]]
    BY <1>12 DEF AreAttrs
  <2>2. DOMAIN g = DOMAIN f \cap {c \in DOMAIN f : Earlier(code, c)}
    BY <1>14, <1>15
  <2>3. \A c \in DOMAIN g : g[c] = f[c]
    BY <1>14
  <2> QED BY <2>1, <2>2, <2>3 DEF Abstract!Only
<1> QED
  BY <1>2, <1>8, <1>10, <1>11, <1>13, <1>16

(* The pointers are the same, whatever the values. *)
SamePointers(m, n) ==
  /\ DOMAIN n.obj = DOMAIN m.obj
  /\ \A p \in DOMAIN m.obj : InfoOf(n, p) = InfoOf(m, p) /\ n.obj[p].next = m.obj[p].next

(* The shape is a matter of pointers and infos only. *)
LEMMA ShapeSame ==
  ASSUME NEW m, NEW ch, Shape(m, ch), NEW n, SamePointers(m, n)
  PROVE  Shape(n, ch)
<1>1. ASSUME NEW x \in Name
      PROVE  Strand(n, x, ch[x])
  <2>1. PICK s : s = ch[x]
    OBVIOUS
  <2>2. Strand(m, x, s) /\ Rising(m, s)
    BY <2>1 DEF Shape, Strand
  <2>3. \A i \in 1..Len(s) : /\ s[i] \in DOMAIN n.obj /\ InfoOf(n, s[i]) = InfoOf(m, s[i])
                             /\ CodeOf(n, s[i]) = CodeOf(m, s[i])
                             /\ n.obj[s[i]].next = m.obj[s[i]].next
    BY <2>2 DEF Rising, SamePointers, CodeOf, InfoOf
  <2>4. Rising(n, s)
    BY <2>2, <2>3 DEF Rising
  <2>5. x \in DOMAIN m.obj => n.obj[x].next = m.obj[x].next
    BY DEF SamePointers
  <2>6. \A i \in 0..Len(s) : i = 0 \/ i \in 1..Len(s)
    BY <2>2 DEF Rising
  <2>7. x \in DOMAIN m.obj => \A i \in 0..Len(s) : n.obj[At(x, s, i)].next = After(s, i)
    BY <2>2, <2>3, <2>5, <2>6 DEF Strand, At
  <2> QED BY <2>1, <2>2, <2>4, <2>7 DEF Strand, SamePointers
<1> QED
  BY <1>1 DEF Shape, SamePointers

(* A second variable changes. *)
LEMMA ViewPutTwo ==
  ASSUME NEW m, NEW n, NEW x \in Name, x \in DOMAIN n.obj, NEW y \in Name, y \in DOMAIN n.obj,
         x # y, \A z \in Name \ {x, y} : SeenSame(m, n, z)
  PROVE  ViewOf(n)
           = Put(Put(ViewOf(m), x, Value(InfoOf(n, x), Held(n, x), AttrsOf(n, x))),
                 y, Value(InfoOf(n, y), Held(n, y), AttrsOf(n, y)))
<1> DEFINE V(k) == [z \in {w \in Name : IsThere(k, w)} |->
                      Value(InfoOf(k, z), Held(k, z), AttrsOf(k, z))]
           A == {z \in Name : IsThere(m, z)}
           B == {z \in Name : IsThere(n, z)}
<1>1. ViewOf(m) = V(m) /\ ViewOf(n) = V(n)
  BY DEF ViewOf, Value
<1>2. B = A \cup {x, y}
  BY DEF SeenSame, IsThere
<1>3. \A z \in A \ {x, y} : V(n)[z] = V(m)[z]
  BY DEF SeenSame, IsThere
<1>4. PICK p, q : /\ p = Value(InfoOf(n, x), Held(n, x), AttrsOf(n, x))
                  /\ q = Value(InfoOf(n, y), Held(n, y), AttrsOf(n, y))
  OBVIOUS
<1>5. V(n)[x] = p /\ V(n)[y] = q
  BY <1>4 DEF IsThere
<1>6. DOMAIN V(m) = A /\ DOMAIN V(n) = B /\ V(n) = [z \in B |-> V(n)[z]]
  OBVIOUS
<1>7. PICK f, g : f = V(m) /\ g = V(n)
  OBVIOUS
<1> HIDE DEF V, A, B
<1>8. \A z \in B : g[z] = IF z = y THEN q ELSE IF z = x THEN p ELSE f[z]
  BY <1>2, <1>3, <1>5, <1>7
<1>9. PICK h : h = Put(f, x, p)
  OBVIOUS
<1>10. DOMAIN h = A \cup {x} /\ \A z \in DOMAIN h : h[z] = IF z = x THEN p ELSE f[z]
  BY <1>6, <1>7, <1>9 DEF Put
<1>11. \A z \in B : g[z] = IF z = y THEN q ELSE h[z]
  BY <1>2, <1>8, <1>10
<1>12. g = Put(h, y, q)
  <2>1. DOMAIN h \cup {y} = B
    BY <1>2, <1>10
  <2> QED BY <2>1, <1>6, <1>7, <1>11 DEF Put
<1> QED
  BY <1>1, <1>4, <1>7, <1>9, <1>12

(* The second of two changes of a variable is the one that is seen. *)
LEMMA PutTwice ==
  ASSUME NEW f, NEW x, NEW v, NEW w
  PROVE  Put(Put(f, x, v), x, w) = Put(f, x, w)
<1>1. PICK g : g = Put(f, x, v)
  OBVIOUS
<1>2. DOMAIN g = DOMAIN f \cup {x} /\ \A j \in DOMAIN g : g[j] = IF j = x THEN v ELSE f[j]
  BY <1>1 DEF Put
<1>3. DOMAIN g \cup {x} = DOMAIN f \cup {x}
  BY <1>2
<1>4. Put(g, x, w) = Put(f, x, w)
  BY <1>2, <1>3 DEF Put
<1> QED
  BY <1>1, <1>4

(* Changes of two variables may be made in any order. *)
LEMMA PutSwap ==
  ASSUME NEW f, NEW x, NEW v, NEW y, NEW w, x # y
  PROVE  Put(Put(f, x, v), y, w) = Put(Put(f, y, w), x, v)
<1>1. PICK g, h : g = Put(f, x, v) /\ h = Put(f, y, w)
  OBVIOUS
<1>2. DOMAIN g = DOMAIN f \cup {x} /\ \A j \in DOMAIN g : g[j] = IF j = x THEN v ELSE f[j]
  BY <1>1 DEF Put
<1>3. DOMAIN h = DOMAIN f \cup {y} /\ \A j \in DOMAIN h : h[j] = IF j = y THEN w ELSE f[j]
  BY <1>1 DEF Put
<1>4. DOMAIN g \cup {y} = DOMAIN h \cup {x}
  BY <1>2, <1>3
<1>5. \A j \in DOMAIN g \cup {y} :
        (IF j = y THEN w ELSE g[j]) = (IF j = x THEN v ELSE h[j])
  BY <1>2, <1>3
<1>6. Put(g, y, w) = Put(h, x, v)
  BY <1>4, <1>5 DEF Put
<1> QED
  BY <1>1, <1>6

(* The value of y goes to x, and the attributes stay. *)
LEMMA MovedSound ==
  ASSUME NEW m, NEW ch, Good(m, ch), NEW x \in Name, x \in DOMAIN m.obj,
         NEW y \in Name, y \in DOMAIN m.obj, x # y, Takes(m, x, y),
         NEW n, n = Move_value(m, x, y)
  PROVE  /\ Good(n, ch) /\ SamePointers(m, n)
         /\ Held(n, x) = Held(m, y) /\ Held(n, y) = Unset
         /\ AttrsOf(n, x) = AttrsOf(m, x) /\ AttrsOf(n, y) = AttrsOf(m, y)
         /\ ViewOf(n) = Put(Put(ViewOf(m), x, Value(InfoOf(m, x), Held(m, y), AttrsOf(m, x))),
                            y, Value(InfoOf(m, y), Unset, AttrsOf(m, y)))
<1>1. Heap(n) /\ Moved(m, n, x, y)
  BY MoveDoes DEF Good
<1>2. SamePointers(m, n)
  BY <1>1 DEF Moved, SamePointers
<1>3. Good(n, ch)
  BY <1>1, <1>2, ShapeSame DEF Good
<1>4. ASSUME NEW z \in Name, z \in DOMAIN m.obj
      PROVE  AttrsOf(n, z) = AttrsOf(m, z)
  <2>1. Strand(m, z, ch[z]) /\ Strand(n, z, ch[z])
    BY <1>3 DEF Good, Shape
  <2>2. \A i \in 1..Len(ch[z]) : ch[z][i] \in DOMAIN m.obj \ {x, y}
    BY <2>1, RisingCodes, RoomAssumption DEF Strand
  <2>3. \A i \in 1..Len(ch[z]) : /\ InfoOf(n, ch[z][i]) = InfoOf(m, ch[z][i])
                                 /\ Held(n, ch[z][i]) = Held(m, ch[z][i])
    BY <1>1, <2>2 DEF Moved
  <2>4. z \in DOMAIN n.obj
    BY <1>4, <1>2 DEF SamePointers
  <2> QED BY <1>4, <2>1, <2>3, <2>4, AttrsKept
<1>5. \A z \in Name \ {x, y} : SeenSame(m, n, z)
  BY <1>1, <1>4 DEF Moved, SeenSame
<1>6. x \in DOMAIN n.obj /\ y \in DOMAIN n.obj
  BY <1>1 DEF Moved
<1>7. ViewOf(n)
        = Put(Put(ViewOf(m), x, Value(InfoOf(n, x), Held(n, x), AttrsOf(n, x))),
              y, Value(InfoOf(n, y), Held(n, y), AttrsOf(n, y)))
  BY <1>5, <1>6, ViewPutTwo
<1>8. /\ InfoOf(n, x) = InfoOf(m, x) /\ InfoOf(n, y) = InfoOf(m, y)
      /\ Held(n, x) = Held(m, y) /\ Held(n, y) = Unset
  BY <1>1 DEF Moved
<1>9. AttrsOf(n, x) = AttrsOf(m, x) /\ AttrsOf(n, y) = AttrsOf(m, y)
  BY <1>4
<1> QED
  BY <1>2, <1>3, <1>7, <1>8, <1>9

(* The attributes of y go to x, which has none. *)
LEMMA ChainMoved ==
  ASSUME NEW m, NEW ch, Good(m, ch), NEW x \in Name, x \in DOMAIN m.obj,
         NEW y \in Name, y \in DOMAIN m.obj, x # y, ch[x] = <<>>,
         NEW n, n = Link(Link(m, x, m.obj[y].next), y, Nil)
  PROVE  /\ \E g : Good(n, g)
         /\ ViewOf(n) = Put(Put(ViewOf(m), x, Value(InfoOf(m, x), Held(m, x), AttrsOf(m, y))),
                            y, Value(InfoOf(m, y), Held(m, y), Nothing))
<1>1. PICK s : s = ch[y]
  OBVIOUS
<1>2. Strand(m, y, s) /\ Rising(m, s)
  BY <1>1 DEF Good, Shape, Strand
<1>3. PICK w : w = Link(m, x, m.obj[y].next)
  OBVIOUS
<1>4. /\ Heap(w) /\ DOMAIN w.obj = DOMAIN m.obj
      /\ w.obj[x].next = m.obj[y].next
      /\ \A p \in DOMAIN m.obj \ {x} : w.obj[p].next = m.obj[p].next
      /\ \A p \in DOMAIN m.obj : InfoOf(w, p) = InfoOf(m, p) /\ Held(w, p) = Held(m, p)
  BY <1>3, HeapLink DEF Good
<1>5. n = Link(w, y, Nil)
  BY <1>3
<1>6. /\ Heap(n) /\ DOMAIN n.obj = DOMAIN w.obj
      /\ n.obj[y].next = Nil
      /\ \A p \in DOMAIN w.obj \ {y} : n.obj[p].next = w.obj[p].next
      /\ \A p \in DOMAIN w.obj : InfoOf(n, p) = InfoOf(w, p) /\ Held(n, p) = Held(w, p)
  BY <1>4, <1>5, HeapLink
<1>7. /\ DOMAIN n.obj = DOMAIN m.obj /\ n.obj[x].next = m.obj[y].next /\ n.obj[y].next = Nil
      /\ \A p \in DOMAIN m.obj : InfoOf(n, p) = InfoOf(m, p) /\ Held(n, p) = Held(m, p)
      /\ \A p \in DOMAIN m.obj \ {x, y} : n.obj[p].next = m.obj[p].next
  BY <1>4, <1>6
<1>8. Outside(m, n, {x, y})
  BY <1>7 DEF Outside
<1>9. \A i \in 1..Len(s) : /\ s[i] \in DOMAIN n.obj /\ s[i] \notin {x, y}
                           /\ InfoOf(n, s[i]) = InfoOf(m, s[i])
                           /\ CodeOf(n, s[i]) = CodeOf(m, s[i])
                           /\ n.obj[s[i]].next = m.obj[s[i]].next
  BY <1>2, <1>7, RisingCodes, RoomAssumption DEF CodeOf, InfoOf
<1>10. Strand(n, x, s)
  <2>1. Rising(n, s)
    BY <1>2, <1>9 DEF Rising
  <2>2. \A i \in 0..Len(s) : i = 0 \/ i \in 1..Len(s)
    BY <1>2 DEF Rising
  <2>3. \A i \in 0..Len(s) : n.obj[At(x, s, i)].next = After(s, i)
    <3>1. m.obj[y].next = After(s, 0)
      <4>1. 0 \in 0..Len(s) /\ At(y, s, 0) = y
        BY <1>2 DEF Rising, At
      <4> QED BY <4>1, <1>2 DEF Strand
    <3>2. \A i \in 1..Len(s) : m.obj[s[i]].next = After(s, i)
      <4>1. \A i \in 1..Len(s) : i \in 0..Len(s) /\ At(y, s, i) = s[i]
        BY <1>2 DEF Rising, At
      <4> QED BY <4>1, <1>2 DEF Strand
    <3> QED BY <2>2, <3>1, <3>2, <1>7, <1>9 DEF At
  <2> QED BY <2>1, <2>3, <1>7 DEF Strand
<1>11. Strand(n, y, <<>>)
  <2>1. \A i \in 0..Len(<<>>) : At(y, <<>>, i) = y /\ After(<<>>, i) = Nil
    BY DEF At, After
  <2>2. Rising(n, <<>>)
    BY DEF Rising
  <2> QED BY <1>7, <2>1, <2>2 DEF Strand
<1>12. PICK g : g = [z \in Name |-> IF z = x THEN s ELSE IF z = y THEN <<>> ELSE ch[z]]
  OBVIOUS
<1>13. g[x] = s /\ g[y] = <<>> /\ \A z \in Name \ {x, y} : g[z] = ch[z]
  BY <1>12
<1>14. SetOf(<<>>) = {} /\ SetOf(ch[x]) = {}
  BY DEF SetOf
<1>15. ASSUME NEW z \in Name \ {x, y}
       PROVE  Strand(n, z, ch[z]) /\ SeenSame(m, n, z)
  <2>1. Strand(m, z, ch[z])
    BY DEF Good, Shape
  <2>2. \A i \in 1..Len(ch[z]) : ch[z][i] \in DOMAIN m.obj /\ ch[z][i] \notin {x, y}
    BY <2>1, RisingCodes, RoomAssumption DEF Strand
  <2>3. CASE z \in DOMAIN m.obj
    <3>1. SetOf(ch[z]) \cap {x, y} = {}
      BY <2>2 DEF SetOf
    <3>2. Strand(n, z, ch[z])
      BY <2>1, <2>3, <3>1, <1>8, StrandKept
    <3>3. AttrsOf(n, z) = AttrsOf(m, z)
      <4>1. \A i \in 1..Len(ch[z]) : /\ InfoOf(n, ch[z][i]) = InfoOf(m, ch[z][i])
                                     /\ Held(n, ch[z][i]) = Held(m, ch[z][i])
        BY <2>2, <1>7
      <4>2. z \in DOMAIN n.obj
        BY <2>3, <1>7
      <4> QED BY <2>1, <2>3, <3>2, <4>1, <4>2, AttrsKept
    <3> QED BY <3>2, <3>3, <1>7 DEF SeenSame
  <2>4. CASE z \notin DOMAIN m.obj
    <3>1. ch[z] = <<>> /\ Len(ch[z]) = 0
      BY <2>1, <2>4 DEF Strand
    <3>2. Rising(n, ch[z])
      BY <2>1, <3>1 DEF Rising, Strand
    <3> QED BY <2>4, <3>1, <3>2, <1>7 DEF SeenSame, Strand
  <2> QED BY <2>3, <2>4
<1>16. Shape(n, g)
  <2>1. g \in [Name -> Seq(Attr)]
    BY <1>2, <1>12 DEF Good, Shape, Rising
  <2>2. \A z \in Name : Strand(n, z, g[z])
    BY <1>10, <1>11, <1>13, <1>15
  <2>3. ASSUME NEW v \in Name, NEW z \in Name, v # z
        PROVE  SetOf(g[v]) \cap SetOf(g[z]) = {}
    <3>1. \A u \in Name \ {x, y} : SetOf(g[u]) \cap SetOf(s) = {}
      BY <1>1, <1>13 DEF Good, Shape
    <3>2. CASE v = y \/ z = y
      BY <3>2, <1>13, <1>14
    <3>3. CASE v # y /\ z # y /\ (v = x \/ z = x)
      BY <2>3, <3>1, <3>3, <1>13
    <3>4. CASE v \notin {x, y} /\ z \notin {x, y}
      BY <2>3, <3>4, <1>13 DEF Good, Shape
    <3> QED BY <3>2, <3>3, <3>4
  <2>4. ASSUME NEW a \in Attr \cap DOMAIN n.obj
        PROVE  \E z \in Name : a \in SetOf(g[z])
    <3>1. PICK z \in Name : a \in SetOf(ch[z])
      BY <1>7 DEF Good, Shape
    <3>2. CASE z = y
      BY <3>1, <3>2, <1>1, <1>13
    <3>3. CASE z # y
      BY <3>1, <3>3, <1>13, <1>14
    <3> QED BY <3>2, <3>3
  <2> QED BY <2>1, <2>2, <2>3, <2>4 DEF Shape
<1>17. AttrsOf(n, y) = Nothing
  BY <1>7, <1>11, NoneAreAttrs
<1>18. AttrsOf(n, x) = AttrsOf(m, y)
  <2>1. \A i \in 1..Len(s) : /\ InfoOf(n, s[i]) = InfoOf(m, s[i])
                             /\ Held(n, s[i]) = Held(m, s[i])
    BY <1>7, <1>9
  <2> QED BY <2>1, <1>2, <1>7, <1>10, AttrsKept
<1>19. ViewOf(n)
         = Put(Put(ViewOf(m), x, Value(InfoOf(n, x), Held(n, x), AttrsOf(n, x))),
               y, Value(InfoOf(n, y), Held(n, y), AttrsOf(n, y)))
  BY <1>7, <1>15, ViewPutTwo
<1> QED
  BY <1>6, <1>7, <1>16, <1>17, <1>18, <1>19 DEF Good

(* ~Var: the variable is gone with its attributes and buffers, the others stay. *)
LEMMA DestructedSound ==
  ASSUME NEW m, NEW ch, Good(m, ch), NEW x \in Name, x \in DOMAIN m.obj,
         NEW n, n = Destructed(m, x)
  PROVE  /\ \E g : Good(n, g)
         /\ ViewOf(n) = Abstract!Only(ViewOf(m), DOMAIN ViewOf(m) \ {x})
<1>1. Strand(m, x, ch[x]) /\ Chain(m, x) = ch[x]
  BY StrandLeads DEF Good, Shape
<1>2. PICK S : S = {x} \cup SetOf(ch[x])
  OBVIOUS
<1>3. S \subseteq DOMAIN m.obj
  BY <1>1, <1>2, RisingCodes DEF SetOf, Strand
<1>4. n = Delete(m, S)
  BY <1>1, <1>2 DEF Destructed, ChainSet, SetOf
<1>5. /\ Heap(n) /\ DOMAIN n.obj = DOMAIN m.obj \ S
      /\ \A p \in DOMAIN m.obj \ S : n.obj[p] = m.obj[p] /\ Held(n, p) = Held(m, p)
  BY <1>3, <1>4, HeapDelete DEF Good
<1>6. Outside(m, n, S)
  BY <1>5 DEF Outside, InfoOf
<1>7. Strand(n, x, <<>>)
  <2>1. Rising(n, <<>>)
    BY DEF Rising
  <2>2. x \notin DOMAIN n.obj
    BY <1>2, <1>5
  <2> QED BY <2>1, <2>2 DEF Strand
<1>8. SetOf(<<>>) = {}
  BY DEF SetOf
<1>9. Replaces(m, n, x, ch, <<>>)
  BY <1>2, <1>5, <1>6, <1>7, <1>8 DEF Replaces
<1>10. Good(n, [ch EXCEPT ![x] = <<>>]) /\ \A z \in Name \ {x} : SeenSame(m, n, z)
  BY <1>5, <1>9, Replaced
<1> DEFINE V(k) == [z \in {w \in Name : IsThere(k, w)} |->
                      Value(InfoOf(k, z), Held(k, z), AttrsOf(k, z))]
           A == {z \in Name : IsThere(m, z)}
           B == {z \in Name : IsThere(n, z)}
<1>11. ViewOf(m) = V(m) /\ ViewOf(n) = V(n)
  BY DEF ViewOf, Value
<1>12. B = A \ {x}
  BY <1>2, <1>5, <1>10 DEF SeenSame, IsThere
<1>13. \A z \in B : V(n)[z] = V(m)[z]
  BY <1>10, <1>12 DEF SeenSame, IsThere
<1>14. DOMAIN V(m) = A /\ DOMAIN V(n) = B /\ V(n) = [z \in B |-> V(n)[z]]
  OBVIOUS
<1>15. PICK f, g : f = V(m) /\ g = V(n)
  OBVIOUS
<1> HIDE DEF V, A, B
<1>16. g = Abstract!Only(f, DOMAIN f \ {x})
  <2>1. DOMAIN f \cap (DOMAIN f \ {x}) = B
    BY <1>12, <1>14, <1>15
  <2>2. \A z \in B : g[z] = f[z]
    BY <1>13, <1>15
  <2>3. g = [z \in B |-> g[z]]
    BY <1>14, <1>15
  <2> QED BY <2>1, <2>2, <2>3 DEF Abstract!Only
<1> QED
  BY <1>10, <1>11, <1>15, <1>16

----------------------------------------------------------------------------
(* Attributes put and taken out *)

(* n is m with the attribute a between before and next: a copy of from. *)
Inserted(m, n, before, a, from, next) ==
  /\ Heap(n) /\ a \in Attr \ DOMAIN m.obj /\ DOMAIN n.obj = DOMAIN m.obj \cup {a}
  /\ \A p \in DOMAIN m.obj : InfoOf(n, p) = InfoOf(m, p) /\ Held(n, p) = Held(m, p)
  /\ InfoOf(n, a) = InfoOf(m, from) /\ Held(n, a) = Held(m, from)
  /\ \A p \in DOMAIN m.obj \ {before} : n.obj[p].next = m.obj[p].next
  /\ n.obj[before].next = a /\ n.obj[a].next = next

(* The attribute that seta makes, linked between two others. *)
LEMMA InsertDoes ==
  ASSUME NEW m, NEW ch, Good(m, ch), NEW before \in DOMAIN m.obj, NEW from \in DOMAIN m.obj,
         InfoOf(m, from) \in Infos, NEW next, NEW a, a = AnyOf(FreeAttrs(m)),
         NEW made, made = Copy_value(WithObj(m, a, NewVar(InfoOf(m, from))), a, from),
         NEW n, n = Link(Link(made, a, next), before, a)
  PROVE  Inserted(m, n, before, a, from, next)
<1>2. a \in Attr \ DOMAIN m.obj /\ a # before /\ a # from
  BY AttrFree DEF Good
<1>3. PICK info \in Infos : info = InfoOf(m, from)
  OBVIOUS
<1>4. PICK v : v = WithObj(m, a, NewVar(info))
  OBVIOUS
<1>5. /\ Heap(v) /\ DOMAIN v.obj = DOMAIN m.obj \cup {a}
      /\ InfoOf(v, a) = info /\ Held(v, a) = Unset /\ v.obj[a].next = Nil
      /\ \A p \in DOMAIN m.obj : v.obj[p] = m.obj[p] /\ Held(v, p) = Held(m, p)
  BY <1>2, <1>4, HeapNew DEF Good
<1>6. \A p \in DOMAIN m.obj : InfoOf(v, p) = InfoOf(m, p)
  BY <1>5 DEF InfoOf
<1>7. PICK h : h = Held(v, from)
  OBVIOUS
<1>8. h = Held(m, from) /\ InfoOf(v, a) = InfoOf(m, from) /\ a \in DOMAIN v.obj
  BY <1>3, <1>5, <1>7
<1>9. Fits(InfoOf(v, a), h)
  BY <1>8 DEF Good, Heap, Values
<1>10. made = Store(v, a, h)
  BY <1>3, <1>4, <1>7 DEF Copy_value
<1>11. Heap(made) /\ SaveFor(v, made, a) /\ Held(made, a) = h
  BY <1>8, <1>9, <1>10, <1>5, StoreDoes
<1>12. PICK w : w = Link(made, a, next)
  OBVIOUS
<1>13. a \in DOMAIN made.obj /\ before \in DOMAIN made.obj
  BY <1>5, <1>11 DEF SaveFor
<1>14. /\ Heap(w) /\ DOMAIN w.obj = DOMAIN made.obj
       /\ w.obj[a].next = next
       /\ \A p \in DOMAIN made.obj \ {a} : w.obj[p].next = made.obj[p].next
       /\ \A p \in DOMAIN made.obj : InfoOf(w, p) = InfoOf(made, p) /\ Held(w, p) = Held(made, p)
  BY <1>11, <1>12, <1>13, HeapLink
<1>15. /\ Heap(n) /\ DOMAIN n.obj = DOMAIN w.obj
       /\ n.obj[before].next = a
       /\ \A p \in DOMAIN w.obj \ {before} : n.obj[p].next = w.obj[p].next
       /\ \A p \in DOMAIN w.obj : InfoOf(n, p) = InfoOf(w, p) /\ Held(n, p) = Held(w, p)
  BY <1>12, <1>13, <1>14, HeapLink
<1>16. DOMAIN n.obj = DOMAIN m.obj \cup {a}
  BY <1>5, <1>11, <1>14, <1>15 DEF SaveFor
<1>17. \A p \in DOMAIN m.obj : InfoOf(n, p) = InfoOf(m, p) /\ Held(n, p) = Held(m, p)
  BY <1>2, <1>5, <1>6, <1>11, <1>14, <1>15 DEF SaveFor
<1>18. InfoOf(n, a) = InfoOf(m, from) /\ Held(n, a) = Held(m, from)
  BY <1>8, <1>11, <1>14, <1>15 DEF SaveFor
<1>19. /\ \A p \in DOMAIN m.obj \ {before} : n.obj[p].next = m.obj[p].next
       /\ n.obj[a].next = next
  BY <1>2, <1>5, <1>11, <1>14, <1>15 DEF SaveFor
<1> QED
  BY <1>2, <1>15, <1>16, <1>17, <1>18, <1>19 DEF Inserted

(* The objects of a strand are told apart. *)
LEMMA PlacesDiffer ==
  ASSUME NEW m, NEW x \in Name, NEW s, Rising(m, s),
         NEW i \in 0..Len(s), NEW j \in 0..Len(s), At(x, s, i) = At(x, s, j)
  PROVE  i = j
<1>1. x \notin Attr /\ Len(s) \in Nat
  BY RoomAssumption DEF Rising
<1>2. \A k \in 0..Len(s) : k = 0 \/ (k \in 1..Len(s) /\ At(x, s, k) = s[k] /\ s[k] \in Attr)
  BY <1>1, RisingCodes DEF At
<1>3. At(x, s, 0) = x
  BY DEF At
<1>4. CASE i = 0 \/ j = 0
  BY <1>1, <1>2, <1>3, <1>4
<1>5. CASE i \in 1..Len(s) /\ j \in 1..Len(s)
  <2>1. s[i] = s[j]
    BY <1>1, <1>5 DEF At
  <2> QED BY <1>5, <2>1, RisingOnce
<1> QED
  BY <1>2, <1>4, <1>5

(* No attribute has the code. *)
Lacks(m, s, code) == \A i \in 1..Len(s) : CodeOf(m, s[i]) # code

(* t is s with a after the first k. *)
IsInserted(s, t, k, a) ==
  /\ Len(t) = Len(s) + 1
  /\ t[k + 1] = a /\ \A i \in 1..k : t[i] = s[i]
  /\ \A i \in (k + 1)..Len(s) : t[i + 1] = s[i]

(* If no attribute has the code, seta makes the strand one longer where the code belongs. *)
LEMMA InsertedStrand ==
  ASSUME NEW m, NEW x \in Name, x \in DOMAIN m.obj, NEW s, Strand(m, x, s), NEW from,
         InfoOf(m, from) \in Attributes, NEW code, code = CodeOf(m, from),
         NEW k, IsPassed(m, s, code, k), Lacks(m, s, code),
         NEW n, NEW a, Inserted(m, n, At(x, s, k), a, from, After(s, k))
  PROVE  \E t : Strand(n, x, t) /\ IsInserted(s, t, k, a)
<1>0. \A i \in 1..Len(s) : CodeOf(m, s[i]) # code
  BY DEF Lacks
<1>1. s \in Seq(Attr) /\ Rising(m, s)
  BY DEF Strand, Rising
<1>2. PICK l \in Nat : l = Len(s)
  BY <1>1
<1>3. k \in 0..l
  BY <1>2 DEF IsPassed
<1>4. PICK before : before = At(x, s, k)
  OBVIOUS
<1>5. /\ a \in Attr \ DOMAIN m.obj /\ DOMAIN n.obj = DOMAIN m.obj \cup {a}
      /\ \A p \in DOMAIN m.obj : InfoOf(n, p) = InfoOf(m, p) /\ Held(n, p) = Held(m, p)
      /\ InfoOf(n, a) = InfoOf(m, from)
      /\ \A p \in DOMAIN m.obj \ {before} : n.obj[p].next = m.obj[p].next
      /\ n.obj[before].next = a /\ n.obj[a].next = After(s, k)
  BY <1>4 DEF Inserted
<1>6. \A i \in 1..l : s[i] \in Attr /\ s[i] \in DOMAIN m.obj /\ InfoOf(m, s[i]) \in Attributes
  BY <1>1, <1>2 DEF Rising
<1>7. PICK t : t = [i \in 1..(l + 1) |-> IF i <= k THEN s[i] ELSE IF i = k + 1 THEN a
                                                             ELSE s[i - 1]]
  OBVIOUS
<1>8. /\ DOMAIN t = 1..(l + 1) /\ t[k + 1] = a /\ \A i \in 1..k : t[i] = s[i]
      /\ \A i \in (k + 1)..l : t[i + 1] = s[i]
      /\ \A i \in 1..(l + 1) : \/ i \in 1..k
                               \/ i = k + 1
                               \/ i - 1 \in (k + 1)..l /\ t[i] = s[i - 1]
  BY <1>3, <1>7
<1>9. t \in Seq(Attr) /\ Len(t) = l + 1
  <2>1. \A i \in 1..(l + 1) : t[i] \in Attr
    BY <1>3, <1>5, <1>6, <1>8
  <2>2. t = [i \in 1..(l + 1) |-> t[i]]
    BY <1>7
  <2> QED BY <2>1, <2>2
<1>10. \A i \in 1..l : CodeOf(n, s[i]) = CodeOf(m, s[i]) /\ CodeOf(m, s[i]) \in Codes
  BY <1>1, <1>2, <1>5, <1>6, RisingCodes DEF CodeOf, InfoOf
<1>11. CodeOf(n, a) = code /\ code \in Codes
  BY <1>5 DEF CodeOf, InfoOf, Codes
<1>12. /\ \A i \in 1..k : Earlier(CodeOf(n, s[i]), CodeOf(n, a))
       /\ \A i \in (k + 1)..l : Earlier(CodeOf(n, a), CodeOf(n, s[i]))
  <2>1. ASSUME NEW i \in 1..k
        PROVE  Earlier(CodeOf(n, s[i]), CodeOf(n, a))
    <3>1. i \in 1..l /\ i <= k
      BY <1>3
    <3> QED BY <3>1, <1>2, <1>10, <1>11 DEF IsPassed
  <2>2. ASSUME NEW i \in (k + 1)..l
        PROVE  Earlier(CodeOf(n, a), CodeOf(n, s[i]))
    <3>1. i \in 1..l /\ ~ (i <= k)
      BY <1>3
    <3>2. ~ Earlier(CodeOf(m, s[i]), code)
      BY <3>1, <1>2 DEF IsPassed
    <3>3. CodeOf(m, s[i]) # code
      BY <3>1, <1>0, <1>2
    <3>4. CodeOf(m, s[i]) \in Codes
      BY <3>1, <1>10
    <3>5. Earlier(code, CodeOf(m, s[i]))
      BY <3>2, <3>3, <3>4, <1>11, EarlierIs
    <3> QED BY <3>1, <3>5, <1>10, <1>11
  <2> QED BY <2>1, <2>2
<1>13. \A i, j \in 1..l : i < j => Earlier(CodeOf(n, s[i]), CodeOf(n, s[j]))
  BY <1>1, <1>2, <1>10 DEF Rising
<1>14. Rising(n, t)
  <2>1. \A i \in 1..(l + 1) : t[i] \in DOMAIN n.obj /\ InfoOf(n, t[i]) \in Attributes
    BY <1>3, <1>5, <1>6, <1>8
  <2>2. ASSUME NEW i \in 1..(l + 1), NEW j \in 1..(l + 1), i < j
        PROVE  Earlier(CodeOf(n, t[i]), CodeOf(n, t[j]))
    <3>1. CASE i \in 1..k /\ j \in 1..k
      BY <2>2, <3>1, <1>3, <1>8, <1>13
    <3>2. CASE i \in 1..k /\ j = k + 1
      BY <3>2, <1>8, <1>12
    <3>3. CASE i \in 1..k /\ j - 1 \in (k + 1)..l
      <4>1. t[i] = s[i] /\ t[j] = s[j - 1]
        BY <3>3, <1>3, <1>8
      <4>2. i \in 1..l /\ j - 1 \in 1..l /\ i < j - 1
        BY <3>3, <1>3
      <4> QED BY <4>1, <4>2, <1>13
    <3>4. CASE i = k + 1 /\ j - 1 \in (k + 1)..l
      <4>1. t[i] = a /\ t[j] = s[j - 1]
        BY <3>4, <1>3, <1>8
      <4> QED BY <3>4, <4>1, <1>12
    <3>5. CASE i - 1 \in (k + 1)..l /\ j - 1 \in (k + 1)..l
      <4>1. t[i] = s[i - 1] /\ t[j] = s[j - 1]
        BY <3>5, <1>3, <1>8
      <4>2. i - 1 \in 1..l /\ j - 1 \in 1..l /\ i - 1 < j - 1
        BY <2>2, <3>5, <1>3
      <4> QED BY <4>1, <4>2, <1>13
    <3> QED BY <2>2, <3>1, <3>2, <3>3, <3>4, <3>5, <1>3
  <2> QED BY <1>9, <2>1, <2>2 DEF Rising
<1>15. ASSUME NEW i \in 0..l, i # k
       PROVE  n.obj[At(x, s, i)].next = After(s, i)
  <2>1. At(x, s, i) # before
    BY <1>1, <1>2, <1>3, <1>4, <1>15, PlacesDiffer
  <2>2. At(x, s, i) \in DOMAIN m.obj
    BY <1>6 DEF At
  <2> QED BY <2>1, <2>2, <1>2, <1>5 DEF Strand
<1>16. ASSUME NEW i \in 0..(l + 1)
       PROVE  n.obj[At(x, t, i)].next = After(t, i)
  <2>1. CASE i = k
    <3>1. At(x, t, i) = before /\ After(t, i) = a
      BY <2>1, <1>3, <1>4, <1>8, <1>9 DEF At, After
    <3> QED BY <3>1, <1>5
  <2>2. CASE i = k + 1
    <3>1. At(x, t, i) = a /\ After(t, i) = After(s, k)
      <4>1. At(x, t, i) = a
        BY <2>2, <1>3, <1>8 DEF At
      <4>2. CASE k < l
        <5>1. t[(k + 1) + 1] = s[k + 1]
          BY <4>2, <1>3, <1>8
        <5> QED BY <4>1, <4>2, <5>1, <2>2, <1>2, <1>3, <1>9 DEF After
      <4>3. CASE ~ (k < l)
        BY <4>1, <4>3, <2>2, <1>2, <1>3, <1>9 DEF After
      <4> QED BY <4>2, <4>3
    <3> QED BY <3>1, <1>5
  <2>3. CASE i < k
    <3>1. At(x, t, i) = At(x, s, i) /\ After(t, i) = After(s, i)
      BY <2>3, <1>2, <1>3, <1>8, <1>9 DEF At, After
    <3> QED BY <3>1, <2>3, <1>3, <1>15
  <2>4. CASE i > k + 1
    <3>1. PICK j : j = i - 1
      OBVIOUS
    <3>2. j \in (k + 1)..l /\ j \in 0..l /\ j # k /\ i = j + 1
      BY <2>4, <3>1, <1>3
    <3>3. At(x, t, i) = At(x, s, j)
      BY <3>2, <1>3, <1>8 DEF At
    <3>4. After(t, i) = After(s, j)
      <4>1. CASE j < l
        <5>1. t[(j + 1) + 1] = s[j + 1]
          BY <4>1, <3>2, <1>3, <1>8
        <5> QED BY <4>1, <5>1, <3>2, <1>2, <1>9 DEF After
      <4>2. CASE ~ (j < l)
        BY <4>2, <3>2, <1>2, <1>9 DEF After
      <4> QED BY <4>1, <4>2
    <3> QED BY <3>2, <3>3, <3>4, <1>15
  <2> QED BY <2>1, <2>2, <2>3, <2>4, <1>3
<1>17. x \in DOMAIN n.obj
  BY <1>5
<1>18. Strand(n, x, t)
  BY <1>9, <1>14, <1>16, <1>17 DEF Strand
<1> QED
  BY <1>2, <1>8, <1>9, <1>18 DEF IsInserted

(* n is w without old. *)
Dropped(w, n, old) ==
  /\ DOMAIN n.obj = DOMAIN w.obj \ {old}
  /\ \A p \in DOMAIN n.obj : n.obj[p] = w.obj[p] /\ Held(n, p) = Held(w, p)

(* t is s with a at a place. *)
IsReplaced(s, t, j, a) ==
  Len(t) = Len(s) /\ t[j] = a /\ \A i \in 1..Len(s) : i # j => t[i] = s[i]

(* If one has, it is replaced in its place. *)
LEMMA ReplacedStrand ==
  ASSUME NEW m, NEW x \in Name, x \in DOMAIN m.obj, NEW s, Strand(m, x, s), NEW from,
         InfoOf(m, from) \in Attributes,
         NEW k \in 0..Len(s), NEW j \in 1..Len(s), j = k + 1, CodeOf(m, s[j]) = CodeOf(m, from),
         NEW w, NEW a, Inserted(m, w, At(x, s, k), a, from, After(s, j)),
         NEW n, Dropped(w, n, s[j])
  PROVE  \E t : Strand(n, x, t) /\ IsReplaced(s, t, j, a)
<1>1. s \in Seq(Attr) /\ Rising(m, s)
  BY DEF Strand, Rising
<1>2. PICK l \in Nat : l = Len(s)
  BY <1>1
<1>3. k \in 0..l /\ j \in 1..l /\ j = k + 1
  BY <1>2
<1>4. PICK before, old : before = At(x, s, k) /\ old = s[j]
  OBVIOUS
<1>0. /\ DOMAIN n.obj = DOMAIN w.obj \ {s[j]}
      /\ \A p \in DOMAIN n.obj : n.obj[p] = w.obj[p]
  BY DEF Dropped
<1>5. /\ a \in Attr \ DOMAIN m.obj /\ DOMAIN w.obj = DOMAIN m.obj \cup {a}
      /\ \A p \in DOMAIN m.obj : InfoOf(w, p) = InfoOf(m, p)
      /\ InfoOf(w, a) = InfoOf(m, from)
      /\ \A p \in DOMAIN m.obj \ {before} : w.obj[p].next = m.obj[p].next
      /\ w.obj[before].next = a /\ w.obj[a].next = After(s, j)
  BY <1>4 DEF Inserted
<1>6. \A i \in 1..l : s[i] \in Attr /\ s[i] \in DOMAIN m.obj /\ InfoOf(m, s[i]) \in Attributes
  BY <1>1, <1>2 DEF Rising
<1>7. \A i, h \in 0..l : At(x, s, i) = At(x, s, h) => i = h
  BY <1>1, <1>2, PlacesDiffer
<1>8. \A i \in 1..l : At(x, s, i) = s[i]
  BY DEF At
<1>9. \A i \in 0..l : i # j => At(x, s, i) # old
  BY <1>3, <1>4, <1>7, <1>8
<1>10. \A i \in 0..l : At(x, s, i) \in DOMAIN m.obj /\ At(x, s, i) # a
  BY <1>5, <1>6 DEF At
<1>11. a \in DOMAIN n.obj /\ old # a
  BY <1>0, <1>3, <1>4, <1>5, <1>6
<1>12. \A i \in 0..l : i # j => At(x, s, i) \in DOMAIN n.obj
  BY <1>0, <1>4, <1>5, <1>9, <1>10
<1>13. PICK t : t = [i \in 1..l |-> IF i = j THEN a ELSE s[i]]
  OBVIOUS
<1>14. /\ DOMAIN t = 1..l /\ t[j] = a /\ \A i \in 1..l : i # j => t[i] = s[i]
  BY <1>3, <1>13
<1>15. t \in Seq(Attr) /\ Len(t) = l
  <2>1. \A i \in 1..l : t[i] \in Attr
    BY <1>5, <1>6, <1>14
  <2>2. t = [i \in 1..l |-> t[i]]
    BY <1>13
  <2> QED BY <2>1, <2>2
<1>16. \A i \in 1..l : i # j =>
         /\ s[i] \in DOMAIN n.obj /\ InfoOf(n, s[i]) = InfoOf(m, s[i])
         /\ CodeOf(n, s[i]) = CodeOf(m, s[i])
  <2> SUFFICES ASSUME NEW i \in 1..l, i # j
               PROVE  /\ s[i] \in DOMAIN n.obj /\ InfoOf(n, s[i]) = InfoOf(m, s[i])
                      /\ CodeOf(n, s[i]) = CodeOf(m, s[i])
    OBVIOUS
  <2>1. s[i] \in DOMAIN n.obj
    BY <1>8, <1>12
  <2>2. InfoOf(n, s[i]) = InfoOf(w, s[i])
    BY <1>0, <2>1 DEF InfoOf
  <2>3. InfoOf(w, s[i]) = InfoOf(m, s[i])
    BY <1>5, <1>6
  <2> QED BY <2>1, <2>2, <2>3 DEF CodeOf, InfoOf
<1>17. InfoOf(n, a) = InfoOf(m, from) /\ CodeOf(n, a) = CodeOf(m, s[j])
  <2>1. InfoOf(n, a) = InfoOf(w, a)
    BY <1>0, <1>11 DEF InfoOf
  <2> QED BY <2>1, <1>5 DEF CodeOf, InfoOf
<1>18. \A i \in 1..l : CodeOf(n, t[i]) = CodeOf(m, s[i])
  BY <1>14, <1>16, <1>17
<1>19. Rising(n, t)
  <2>1. \A i \in 1..l : t[i] \in DOMAIN n.obj /\ InfoOf(n, t[i]) \in Attributes
    BY <1>6, <1>11, <1>14, <1>16, <1>17
  <2>2. \A i, h \in 1..l : i < h => Earlier(CodeOf(n, t[i]), CodeOf(n, t[h]))
    BY <1>1, <1>2, <1>18 DEF Rising
  <2> QED BY <1>15, <2>1, <2>2 DEF Rising
<1>20. ASSUME NEW i \in 0..l
       PROVE  n.obj[At(x, t, i)].next = After(t, i)
  <2>1. CASE i = k
    <3>1. At(x, t, i) = before /\ After(t, i) = a
      BY <2>1, <1>3, <1>4, <1>14, <1>15 DEF At, After
    <3>2. before \in DOMAIN n.obj
      BY <1>3, <1>4, <1>12
    <3> QED BY <3>1, <3>2, <1>0, <1>5
  <2>2. CASE i = j
    <3>1. At(x, t, i) = a
      BY <2>2, <1>3, <1>14 DEF At
    <3>2. After(t, i) = After(s, j)
      BY <2>2, <1>2, <1>3, <1>14, <1>15 DEF After
    <3> QED BY <3>1, <3>2, <1>0, <1>5, <1>11
  <2>3. CASE i # k /\ i # j
    <3>1. At(x, t, i) = At(x, s, i)
      BY <2>3, <1>14 DEF At
    <3>2. After(t, i) = After(s, i)
      <4>1. i < l => i + 1 \in 1..l /\ i + 1 # j
        BY <2>3, <1>3
      <4> QED BY <4>1, <1>2, <1>14, <1>15 DEF After
    <3>3. At(x, s, i) \in DOMAIN n.obj /\ At(x, s, i) # before /\ At(x, s, i) \in DOMAIN m.obj
      BY <2>3, <1>3, <1>4, <1>7, <1>10, <1>12
    <3>4. n.obj[At(x, s, i)].next = m.obj[At(x, s, i)].next
      BY <3>3, <1>0, <1>5
    <3> QED BY <3>1, <3>2, <3>4, <1>2 DEF Strand
  <2> QED BY <2>1, <2>2, <2>3
<1>21. x \in DOMAIN n.obj
  <2>1. At(x, s, 0) = x /\ 0 \in 0..l /\ 0 # j
    BY <1>3 DEF At
  <2> QED BY <2>1, <1>12
<1>22. Strand(n, x, t)
  BY <1>15, <1>19, <1>20, <1>21 DEF Strand
<1> QED
  BY <1>2, <1>14, <1>15, <1>22 DEF IsReplaced

(* n is m without old, before and next being joined. *)
Unlinked(m, n, before, old, next) ==
  /\ DOMAIN n.obj = DOMAIN m.obj \ {old}
  /\ \A p \in DOMAIN n.obj : InfoOf(n, p) = InfoOf(m, p)
  /\ \A p \in DOMAIN n.obj \ {before} : n.obj[p].next = m.obj[p].next
  /\ n.obj[before].next = next

(* t is s without the attribute after the first k. *)
IsRemoved(s, t, k) ==
  /\ Len(t) = Len(s) - 1
  /\ \A i \in 1..k : t[i] = s[i]
  /\ \A i \in (k + 1)..(Len(s) - 1) : t[i] = s[i + 1]

(* unseta takes an attribute out of the strand. *)
LEMMA RemovedStrand ==
  ASSUME NEW m, NEW x \in Name, x \in DOMAIN m.obj, NEW s, Strand(m, x, s),
         NEW k \in 0..Len(s), NEW j \in 1..Len(s), j = k + 1,
         NEW n, Unlinked(m, n, At(x, s, k), s[j], After(s, j))
  PROVE  \E t : Strand(n, x, t) /\ IsRemoved(s, t, k)
<1>1. s \in Seq(Attr) /\ Rising(m, s)
  BY DEF Strand, Rising
<1>2. PICK l \in Nat : l = Len(s)
  BY <1>1
<1>3. k \in 0..l /\ k + 1 \in 1..l /\ l - 1 \in Nat
  BY <1>2
<1>4. PICK before, old : before = At(x, s, k) /\ old = s[k + 1]
  OBVIOUS
<1>5. /\ DOMAIN n.obj = DOMAIN m.obj \ {old}
      /\ \A p \in DOMAIN n.obj : InfoOf(n, p) = InfoOf(m, p)
      /\ \A p \in DOMAIN n.obj \ {before} : n.obj[p].next = m.obj[p].next
      /\ n.obj[before].next = After(s, k + 1)
  BY <1>4 DEF Unlinked
<1>6. \A i \in 1..l : s[i] \in Attr /\ s[i] \in DOMAIN m.obj /\ InfoOf(m, s[i]) \in Attributes
  BY <1>1, <1>2 DEF Rising
<1>7. \A i, h \in 0..l : At(x, s, i) = At(x, s, h) => i = h
  BY <1>1, <1>2, PlacesDiffer
<1>8. \A i \in 1..l : At(x, s, i) = s[i]
  BY DEF At
<1>9. \A i \in 0..l : i # k + 1 => At(x, s, i) \in DOMAIN n.obj
  <2>1. \A i \in 0..l : At(x, s, i) \in DOMAIN m.obj
    BY <1>6 DEF At
  <2> QED BY <2>1, <1>3, <1>4, <1>5, <1>7, <1>8
<1>10. \A i \in 1..l : i # k + 1 =>
         /\ s[i] \in DOMAIN n.obj /\ InfoOf(n, s[i]) = InfoOf(m, s[i])
         /\ CodeOf(n, s[i]) = CodeOf(m, s[i])
  BY <1>5, <1>8, <1>9 DEF CodeOf, InfoOf
<1>11. PICK t : t = [i \in 1..(l - 1) |-> IF i <= k THEN s[i] ELSE s[i + 1]]
  OBVIOUS
<1>12. /\ DOMAIN t = 1..(l - 1) /\ \A i \in 1..k : t[i] = s[i]
       /\ \A i \in (k + 1)..(l - 1) : t[i] = s[i + 1]
       /\ \A i \in 1..(l - 1) : i \in 1..k \/ i \in (k + 1)..(l - 1)
  BY <1>3, <1>11
<1>13. t \in Seq(Attr) /\ Len(t) = l - 1
  <2>1. \A i \in 1..(l - 1) : t[i] \in Attr
    <3> SUFFICES ASSUME NEW i \in 1..(l - 1) PROVE t[i] \in Attr
      OBVIOUS
    <3>1. i \in 1..l /\ i + 1 \in 1..l
      BY <1>3
    <3>2. s[i] \in Attr /\ s[i + 1] \in Attr
      BY <3>1, <1>6
    <3>3. t[i] = s[i] \/ t[i] = s[i + 1]
      BY <1>12
    <3> QED BY <3>2, <3>3
  <2>2. t = [i \in 1..(l - 1) |-> t[i]]
    BY <1>11
  <2> QED BY <2>1, <2>2, <1>3
<1>14. PICK place : place = [i \in 0..(l - 1) |-> IF i <= k THEN i ELSE i + 1]
  OBVIOUS
<1>15. /\ \A i \in 0..(l - 1) : place[i] \in 0..l /\ place[i] # k + 1
       /\ \A i \in 1..(l - 1) : place[i] \in 1..l /\ t[i] = s[place[i]]
       /\ \A i, h \in 1..(l - 1) : i < h => place[i] < place[h]
  BY <1>3, <1>12, <1>14
<1>16. Rising(n, t)
  <2>1. \A i \in 1..(l - 1) : t[i] \in DOMAIN n.obj /\ InfoOf(n, t[i]) \in Attributes
    BY <1>6, <1>10, <1>15
  <2>2. ASSUME NEW i \in 1..(l - 1), NEW h \in 1..(l - 1), i < h
        PROVE  Earlier(CodeOf(n, t[i]), CodeOf(n, t[h]))
    <3>1. place[i] \in 1..l /\ place[h] \in 1..l
      BY <1>15
    <3>2. place[i] # k + 1 /\ place[h] # k + 1
      <4>1. i \in 0..(l - 1) /\ h \in 0..(l - 1)
        OBVIOUS
      <4> QED BY <4>1, <1>15
    <3>3. place[i] < place[h]
      BY <2>2, <1>15
    <3>4. Earlier(CodeOf(m, s[place[i]]), CodeOf(m, s[place[h]]))
      BY <3>1, <3>3, <1>1, <1>2 DEF Rising
    <3> QED BY <3>1, <3>2, <3>4, <1>10, <1>15
  <2> QED BY <1>13, <2>1, <2>2 DEF Rising
<1>17. ASSUME NEW i \in 0..(l - 1)
       PROVE  n.obj[At(x, t, i)].next = After(t, i)
  <2>1. At(x, t, i) = At(x, s, place[i])
    <3>1. i = 0 => place[i] = 0
      BY <1>3, <1>14
    <3>2. i # 0 => place[i] # 0 /\ t[i] = s[place[i]]
      BY <1>15
    <3> QED BY <3>1, <3>2 DEF At
  <2>2. CASE i = k
    <3>1. place[i] = k
      BY <2>2, <1>14
    <3>2. After(t, i) = After(s, k + 1)
      <4>1. CASE k < l - 1
        <5>1. t[k + 1] = s[(k + 1) + 1]
          BY <4>1, <1>3, <1>12
        <5> QED BY <4>1, <5>1, <2>2, <1>2, <1>3, <1>13 DEF After
      <4>2. CASE ~ (k < l - 1)
        BY <4>2, <2>2, <1>2, <1>3, <1>13 DEF After
      <4> QED BY <4>1, <4>2
    <3> QED BY <2>1, <3>1, <3>2, <1>4, <1>5
  <2>3. CASE i # k
    <3>1. place[i] \in 0..l /\ place[i] # k + 1 /\ place[i] # k
      BY <2>3, <1>3, <1>14
    <3>2. At(x, s, place[i]) \in DOMAIN n.obj /\ At(x, s, place[i]) # before
      BY <3>1, <1>3, <1>4, <1>7, <1>9
    <3>3. n.obj[At(x, s, place[i])].next = After(s, place[i])
      BY <3>1, <3>2, <1>2, <1>5 DEF Strand
    <3>4. After(t, i) = After(s, place[i])
      <4>1. CASE i < k
        <5>1. place[i] = i /\ i + 1 \in 1..k /\ i < l - 1 /\ i < l
          BY <4>1, <1>3, <1>14
        <5> QED BY <5>1, <1>2, <1>12, <1>13 DEF After
      <4>2. CASE i > k
        <5>1. place[i] = i + 1
          BY <4>2, <1>3, <1>14
        <5>2. CASE i < l - 1
          <6>1. t[i + 1] = s[(i + 1) + 1] /\ i + 1 < l
            BY <4>2, <5>2, <1>3, <1>12
          <6> QED BY <5>1, <5>2, <6>1, <1>2, <1>13 DEF After
        <5>3. CASE ~ (i < l - 1)
          <6>1. ~ (i + 1 < l)
            BY <5>3, <1>3
          <6> QED BY <5>1, <5>3, <6>1, <1>2, <1>13 DEF After
        <5> QED BY <5>2, <5>3
      <4> QED BY <2>3, <4>1, <4>2, <1>3
    <3> QED BY <2>1, <3>3, <3>4
  <2> QED BY <2>2, <2>3
<1>18. x \in DOMAIN n.obj
  <2>1. At(x, s, 0) = x /\ 0 \in 0..l /\ 0 # k + 1
    BY <1>3 DEF At
  <2> QED BY <2>1, <1>9
<1>19. Strand(n, x, t)
  BY <1>13, <1>16, <1>17, <1>18 DEF Strand
<1> QED
  BY <1>2, <1>12, <1>13, <1>19 DEF IsRemoved

(* The attributes of t are v, and those of s that have another code. *)
AllAnd(m, s, n, t, code, v) ==
  /\ \A j \in 1..Len(t) :
       \/ View(n, t[j]) = v
       \/ \E i \in 1..Len(s) : CodeOf(m, s[i]) # code /\ View(n, t[j]) = View(m, s[i])
  /\ \E j \in 1..Len(t) : View(n, t[j]) = v
  /\ \A i \in 1..Len(s) : CodeOf(m, s[i]) # code =>
       \E j \in 1..Len(t) : View(n, t[j]) = View(m, s[i])

(* An attribute more is an entry more in the map. *)
LEMMA AttrsPut ==
  ASSUME NEW m, NEW s, NEW n, NEW t, NEW f, NEW g, AreAttrs(f, m, s), AreAttrs(g, n, t),
         NEW v, NEW code, code = v.info.code,
         AllAnd(m, s, n, t, code, v)
  PROVE  g = Put(f, code, v)
<1>1. \A k, o : View(k, o).info.code = CodeOf(k, o)
  BY DEF View, CodeOf, InfoOf
<1>2. \A c \in DOMAIN g : (c = code /\ g[c] = v) \/ (c # code /\ c \in DOMAIN f /\ g[c] = f[c])
  <2> SUFFICES ASSUME NEW c \in DOMAIN g
               PROVE  \/ c = code /\ g[c] = v
                      \/ c # code /\ c \in DOMAIN f /\ g[c] = f[c]
    OBVIOUS
  <2>1. PICK j \in 1..Len(t) : c = CodeOf(n, t[j]) /\ g[c] = View(n, t[j])
    BY DEF AreAttrs
  <2>2. CASE View(n, t[j]) = v
    BY <1>1, <2>1, <2>2
  <2>3. CASE \E i \in 1..Len(s) : CodeOf(m, s[i]) # code /\ View(n, t[j]) = View(m, s[i])
    BY <1>1, <2>1, <2>3 DEF AreAttrs
  <2> QED BY <2>2, <2>3 DEF AllAnd
<1>3. code \in DOMAIN g
  BY <1>1 DEF AreAttrs, AllAnd
<1>4. \A c \in DOMAIN f : c # code => c \in DOMAIN g
  <2> SUFFICES ASSUME NEW c \in DOMAIN f, c # code PROVE c \in DOMAIN g
    OBVIOUS
  <2>1. PICK i \in 1..Len(s) : c = CodeOf(m, s[i])
    BY DEF AreAttrs
  <2>2. PICK j \in 1..Len(t) : View(n, t[j]) = View(m, s[i])
    BY <2>1 DEF AllAnd
  <2>3. CodeOf(n, t[j]) = c
    BY <1>1, <2>1, <2>2
  <2> QED BY <2>3 DEF AreAttrs
<1>5. DOMAIN g = DOMAIN f \cup {code}
  BY <1>2, <1>3, <1>4
<1>6. g = [c \in DOMAIN g |-> g[c]]
  BY DEF AreAttrs
<1> QED
  BY <1>2, <1>5, <1>6 DEF Put

(* The attributes of t are those of s that have not the code. *)
AllBut(m, s, n, t, code) ==
  /\ \A j \in 1..Len(t) :
       \E i \in 1..Len(s) : CodeOf(m, s[i]) # code /\ View(n, t[j]) = View(m, s[i])
  /\ \A i \in 1..Len(s) : CodeOf(m, s[i]) # code =>
       \E j \in 1..Len(t) : View(n, t[j]) = View(m, s[i])

(* An attribute less is an entry less in the map. *)
LEMMA AttrsDrop ==
  ASSUME NEW m, NEW s, NEW n, NEW t, NEW f, NEW g, AreAttrs(f, m, s), AreAttrs(g, n, t),
         NEW code, AllBut(m, s, n, t, code)
  PROVE  g = Abstract!Only(f, DOMAIN f \ {code})
<1>1. \A k, o : View(k, o).info.code = CodeOf(k, o)
  BY DEF View, CodeOf, InfoOf
<1>2. \A c \in DOMAIN g : c # code /\ c \in DOMAIN f /\ g[c] = f[c]
  <2> SUFFICES ASSUME NEW c \in DOMAIN g
               PROVE  c # code /\ c \in DOMAIN f /\ g[c] = f[c]
    OBVIOUS
  <2>1. PICK j \in 1..Len(t) : c = CodeOf(n, t[j]) /\ g[c] = View(n, t[j])
    BY DEF AreAttrs
  <2>2. PICK i \in 1..Len(s) : CodeOf(m, s[i]) # code /\ View(n, t[j]) = View(m, s[i])
    BY DEF AllBut
  <2>3. CodeOf(m, s[i]) = c
    BY <1>1, <2>1, <2>2
  <2> QED BY <2>1, <2>2, <2>3 DEF AreAttrs
<1>3. \A c \in DOMAIN f : c # code => c \in DOMAIN g
  <2> SUFFICES ASSUME NEW c \in DOMAIN f, c # code PROVE c \in DOMAIN g
    OBVIOUS
  <2>1. PICK i \in 1..Len(s) : c = CodeOf(m, s[i])
    BY DEF AreAttrs
  <2>2. PICK j \in 1..Len(t) : View(n, t[j]) = View(m, s[i])
    BY <2>1 DEF AllBut
  <2>3. CodeOf(n, t[j]) = c
    BY <1>1, <2>1, <2>2
  <2> QED BY <2>3 DEF AreAttrs
<1>4. DOMAIN f \cap (DOMAIN f \ {code}) = DOMAIN g
  BY <1>2, <1>3
<1>5. g = [c \in DOMAIN g |-> g[c]]
  BY DEF AreAttrs
<1> QED
  BY <1>2, <1>4, <1>5 DEF Abstract!Only

(* n is m after x has been given the attributes t: y is that of the code. *)
SetTo(m, n, x, ch, t, code, y) ==
  /\ Replaces(m, n, x, ch, t)
  /\ AttrsOf(n, x) = Put(AttrsOf(m, x), code, View(m, y))

(* seta, when there is no attribute of that code. *)
LEMMA SetaInserts ==
  ASSUME NEW m, NEW ch, Good(m, ch), NEW x \in Name, NEW s, s = ch[x],
         x \in DOMAIN m.obj, NEW y \in Name, y \in DOMAIN m.obj, InfoOf(m, y) \in Attributes,
         NEW code, code = CodeOf(m, y),
         NEW k, IsPassed(m, s, code, k), Lacks(m, s, code),
         NEW n, NEW a, Inserted(m, n, At(x, s, k), a, y, After(s, k))
  PROVE  \E t : SetTo(m, n, x, ch, t, code, y)
<1>1. \A i \in 1..Len(s) : CodeOf(m, s[i]) # code
  BY DEF Lacks
<1>2. Strand(m, x, s) /\ Rising(m, s)
  BY DEF Good, Shape, Strand
<1>0. Len(s) \in Nat /\ k \in 0..Len(s)
  BY <1>2 DEF Rising, IsPassed
<1>3. PICK t : /\ Strand(n, x, t) /\ Len(t) = Len(s) + 1
               /\ t[k + 1] = a /\ \A i \in 1..k : t[i] = s[i]
               /\ \A i \in (k + 1)..Len(s) : t[i + 1] = s[i]
  <2>1. \E t : Strand(n, x, t) /\ IsInserted(s, t, k, a)
    BY <1>2, InsertedStrand
  <2> QED BY <2>1 DEF IsInserted
<1>4. /\ a \in Attr \ DOMAIN m.obj /\ DOMAIN n.obj = DOMAIN m.obj \cup {a}
      /\ \A p \in DOMAIN m.obj : InfoOf(n, p) = InfoOf(m, p) /\ Held(n, p) = Held(m, p)
      /\ InfoOf(n, a) = InfoOf(m, y) /\ Held(n, a) = Held(m, y)
      /\ \A p \in DOMAIN m.obj \ {At(x, s, k)} : n.obj[p].next = m.obj[p].next
  BY <1>1 DEF Inserted
<1>5. \A j \in 1..Len(t) : j = k + 1 \/ \E i \in 1..Len(s) : t[j] = s[i]
  <2> SUFFICES ASSUME NEW j \in 1..Len(t), j # k + 1 PROVE \E i \in 1..Len(s) : t[j] = s[i]
    OBVIOUS
  <2>1. CASE j \in 1..k
    <3>1. j \in 1..Len(s)
      BY <2>1, <1>0, <1>2
    <3> QED BY <2>1, <3>1, <1>3
  <2>2. CASE j > k + 1
    <3>1. PICK i : i = j - 1
      OBVIOUS
    <3>2. i \in (k + 1)..Len(s) /\ i \in 1..Len(s) /\ j = i + 1
      BY <2>2, <3>1, <1>0, <1>2, <1>3
    <3> QED BY <3>2, <1>3
  <2> QED BY <2>1, <2>2, <1>0, <1>2, <1>3
<1>6. \A i \in 1..Len(s) : \E j \in 1..Len(t) : t[j] = s[i]
  <2> SUFFICES ASSUME NEW i \in 1..Len(s) PROVE \E j \in 1..Len(t) : t[j] = s[i]
    OBVIOUS
  <2>1. CASE i \in 1..k
    <3>1. i \in 1..Len(t)
      BY <1>0, <1>2, <1>3
    <3> QED BY <2>1, <3>1, <1>3
  <2>2. CASE i \in (k + 1)..Len(s)
    <3>1. i + 1 \in 1..Len(t)
      BY <1>0, <1>2, <1>3
    <3> QED BY <2>2, <3>1, <1>3
  <2> QED BY <2>1, <2>2, <1>0, <1>2
<1>7. k + 1 \in 1..Len(t)
  <2>1. PICK l \in Nat : l = Len(s)
    BY <1>0
  <2>2. Len(t) = l + 1 /\ k \in 0..l
    BY <2>1, <1>0, <1>3
  <2> QED BY <2>2
<1>8. SetOf(t) = SetOf(s) \cup {a}
  <2>1. \A b \in SetOf(t) : b \in SetOf(s) \/ b = a
    <3> SUFFICES ASSUME NEW j \in 1..Len(t) PROVE t[j] \in SetOf(s) \/ t[j] = a
      BY DEF SetOf
    <3> QED BY <1>3, <1>5 DEF SetOf
  <2>2. \A b \in SetOf(s) : b \in SetOf(t)
    <3> SUFFICES ASSUME NEW i \in 1..Len(s) PROVE s[i] \in SetOf(t)
      BY DEF SetOf
    <3>1. PICK j \in 1..Len(t) : t[j] = s[i]
      BY <1>6
    <3> QED BY <3>1 DEF SetOf
  <2>3. a \in SetOf(t)
    BY <1>3, <1>7 DEF SetOf
  <2> QED BY <2>1, <2>2, <2>3
<1>9. At(x, s, k) \in {x} \cup SetOf(s)
  BY <1>0, <1>2 DEF At, SetOf
<1>10. Outside(m, n, {x} \cup SetOf(s))
  BY <1>4, <1>9 DEF Outside
<1>11. \A b \in SetOf(s) : b \in DOMAIN m.obj
  BY <1>2, RisingCodes DEF SetOf
<1>12. ASSUME NEW b \in Attr \cap DOMAIN n.obj
       PROVE  b \in SetOf(t) \/ (b \in DOMAIN m.obj /\ b \notin SetOf(s))
  BY <1>4, <1>8
<1>13. Replaces(m, n, x, ch, t)
  BY <1>1, <1>3, <1>4, <1>8, <1>10, <1>12 DEF Replaces
<1>14. PICK f, g : f = AttrsOf(m, x) /\ g = AttrsOf(n, x)
  OBVIOUS
<1>15. AreAttrs(f, m, s) /\ AreAttrs(g, n, t)
  BY <1>0, <1>2, <1>3, <1>4, <1>14, AttrsOfAre
<1>16. PICK v : v = View(m, y)
  OBVIOUS
<1>17. View(n, a) = v /\ code = v.info.code
  BY <1>4, <1>16 DEF View, CodeOf, InfoOf
<1>18. \A i \in 1..Len(s) : View(n, s[i]) = View(m, s[i]) /\ CodeOf(m, s[i]) # code
  BY <1>1, <1>2, <1>4, RisingCodes DEF View
<1>19. g = Put(f, code, v)
  <2>1. \A j \in 1..Len(t) :
          \/ View(n, t[j]) = v
          \/ \E i \in 1..Len(s) : CodeOf(m, s[i]) # code /\ View(n, t[j]) = View(m, s[i])
    BY <1>3, <1>5, <1>17, <1>18
  <2>2. \E j \in 1..Len(t) : View(n, t[j]) = v
    BY <1>3, <1>7, <1>17
  <2>3. \A i \in 1..Len(s) : CodeOf(m, s[i]) # code =>
          \E j \in 1..Len(t) : View(n, t[j]) = View(m, s[i])
    BY <1>6, <1>18
  <2>4. AllAnd(m, s, n, t, code, v)
    BY <2>1, <2>2, <2>3 DEF AllAnd
  <2> QED BY <1>15, <1>17, <2>4, AttrsPut
<1> QED
  BY <1>13, <1>14, <1>16, <1>19 DEF SetTo

(* seta, when there is one, that is deleted. *)
LEMMA SetaReplaces ==
  ASSUME NEW m, NEW ch, Good(m, ch), NEW x \in Name, NEW s, s = ch[x],
         x \in DOMAIN m.obj, NEW y \in Name, y \in DOMAIN m.obj, InfoOf(m, y) \in Attributes,
         NEW code, code = CodeOf(m, y),
         NEW k \in 0..Len(s), NEW j \in 1..Len(s), j = k + 1,
         CodeOf(m, s[j]) = code,
         NEW w, NEW a, Inserted(m, w, At(x, s, k), a, y, After(s, j)),
         NEW n, Dropped(w, n, s[j])
  PROVE  \E t : SetTo(m, n, x, ch, t, code, y)
<1>1. PICK old : s = ch[x] /\ old = s[j]
  OBVIOUS
<1>2. Strand(m, x, s) /\ Rising(m, s) /\ Len(s) \in Nat /\ k \in 0..Len(s) /\ j \in 1..Len(s)
  BY <1>1 DEF Good, Shape, Strand, Rising
<1>3. PICK t : /\ Strand(n, x, t) /\ Len(t) = Len(s)
               /\ t[j] = a /\ \A i \in 1..Len(s) : i # j => t[i] = s[i]
  <2>0. k \in 0..Len(s) /\ j \in 1..Len(s) /\ j = k + 1
    BY <1>2
  <2>1. /\ CodeOf(m, s[j]) = CodeOf(m, y)
        /\ Inserted(m, w, At(x, s, k), a, y, After(s, j))
        /\ Dropped(w, n, s[j])
    BY <1>1
  <2> HIDE <1>1
  <2>2. \E t : Strand(n, x, t) /\ IsReplaced(s, t, j, a)
    BY <1>2, <2>0, <2>1, ReplacedStrand
  <2> QED BY <2>2 DEF IsReplaced
<1>4. /\ a \in Attr \ DOMAIN m.obj /\ DOMAIN w.obj = DOMAIN m.obj \cup {a}
      /\ \A p \in DOMAIN m.obj : InfoOf(w, p) = InfoOf(m, p) /\ Held(w, p) = Held(m, p)
      /\ InfoOf(w, a) = InfoOf(m, y) /\ Held(w, a) = Held(m, y)
      /\ \A p \in DOMAIN m.obj \ {At(x, s, k)} : w.obj[p].next = m.obj[p].next
  BY <1>1 DEF Inserted
<1>5. old \in SetOf(s) /\ old \in DOMAIN m.obj /\ old # x
  BY <1>1, <1>2, RisingCodes, RoomAssumption DEF SetOf
<1>0. /\ DOMAIN n.obj = DOMAIN w.obj \ {old}
      /\ \A p \in DOMAIN n.obj : n.obj[p] = w.obj[p] /\ Held(n, p) = Held(w, p)
  BY <1>1 DEF Dropped
<1>6. DOMAIN n.obj = (DOMAIN m.obj \cup {a}) \ {old}
  BY <1>0, <1>4
<1>7. \A p \in DOMAIN n.obj : InfoOf(n, p) = InfoOf(w, p) /\ Held(n, p) = Held(w, p)
  BY <1>0 DEF InfoOf
<1>8. \A p \in DOMAIN m.obj \ {old} : InfoOf(n, p) = InfoOf(m, p) /\ Held(n, p) = Held(m, p)
  BY <1>4, <1>6, <1>7
<1>9. InfoOf(n, a) = InfoOf(m, y) /\ Held(n, a) = Held(m, y)
  BY <1>4, <1>5, <1>6, <1>7
<1>10. SetOf(t) = (SetOf(s) \ {old}) \cup {a}
  <2>1. \A i \in 1..Len(s) : s[i] = old => i = j
    <3> SUFFICES ASSUME NEW i \in 1..Len(s), s[i] = s[j] PROVE i = j
      BY <1>1
    <3> QED BY <1>2, RisingOnce
  <2> QED BY <2>1, <1>1, <1>2, <1>3 DEF SetOf
<1>11. At(x, s, k) \in {x} \cup SetOf(s)
  BY <1>2 DEF At, SetOf
<1>12. Outside(m, n, {x} \cup SetOf(s))
  <2> SUFFICES ASSUME NEW p \in DOMAIN m.obj \ ({x} \cup SetOf(s))
               PROVE  /\ p \in DOMAIN n.obj /\ InfoOf(n, p) = InfoOf(m, p)
                      /\ Held(n, p) = Held(m, p) /\ n.obj[p].next = m.obj[p].next
    BY DEF Outside
  <2>1. p # old /\ p # At(x, s, k) /\ p \in DOMAIN n.obj
    BY <1>5, <1>6, <1>11
  <2> QED BY <2>1, <1>0, <1>4, <1>8
<1>13. \A b \in SetOf(s) : b \in DOMAIN m.obj
  BY <1>2, RisingCodes DEF SetOf
<1>14. Replaces(m, n, x, ch, t)
  <2>1. \A b \in Attr \cap DOMAIN n.obj :
          b \in SetOf(t) \/ (b \in DOMAIN m.obj /\ b \notin SetOf(s))
    BY <1>6, <1>10
  <2>2. \A p \in DOMAIN n.obj \ (Attr \cup {x}) : p \in DOMAIN m.obj
    BY <1>4, <1>6
  <2>3. \A b \in SetOf(t) : b \in SetOf(s) \/ b \notin DOMAIN m.obj
    BY <1>4, <1>10
  <2> QED BY <1>1, <1>3, <1>12, <2>1, <2>2, <2>3 DEF Replaces
<1>15. PICK f, g : f = AttrsOf(m, x) /\ g = AttrsOf(n, x)
  OBVIOUS
<1>16. x \in DOMAIN n.obj
  BY <1>5, <1>6
<1>17. AreAttrs(f, m, s) /\ AreAttrs(g, n, t)
  BY <1>2, <1>3, <1>15, <1>16, AttrsOfAre
<1>18. PICK v : v = View(m, y)
  OBVIOUS
<1>19. View(n, a) = v /\ code = v.info.code
  BY <1>9, <1>18 DEF View, CodeOf, InfoOf
<1>20. \A i \in 1..Len(s) : i # j =>
         s[i] \in DOMAIN m.obj \ {old} /\ CodeOf(m, s[i]) # code
  <2> SUFFICES ASSUME NEW i \in 1..Len(s), i # j
               PROVE  s[i] \in DOMAIN m.obj \ {old} /\ CodeOf(m, s[i]) # code
    OBVIOUS
  <2>1. CodeOf(m, s[i]) # CodeOf(m, s[j])
    BY <1>2, RisingOnce
  <2>2. s[i] \in DOMAIN m.obj
    BY <1>2, RisingCodes
  <2> QED BY <2>1, <2>2, <1>1
<1>21. \A i \in 1..Len(s) : i # j => View(n, s[i]) = View(m, s[i])
  BY <1>8, <1>20 DEF View
<1>22. g = Put(f, code, v)
  <2>1. \A l \in 1..Len(t) :
          \/ View(n, t[l]) = v
          \/ \E i \in 1..Len(s) : CodeOf(m, s[i]) # code /\ View(n, t[l]) = View(m, s[i])
    BY <1>3, <1>19, <1>20, <1>21
  <2>2. \E l \in 1..Len(t) : View(n, t[l]) = v
    BY <1>2, <1>3, <1>19
  <2>3. \A i \in 1..Len(s) : CodeOf(m, s[i]) # code =>
          \E l \in 1..Len(t) : View(n, t[l]) = View(m, s[i])
    <3> SUFFICES ASSUME NEW i \in 1..Len(s), CodeOf(m, s[i]) # code
                 PROVE  \E l \in 1..Len(t) : View(n, t[l]) = View(m, s[i])
      OBVIOUS
    <3>1. i # j
      BY <1>1
    <3>2. i \in 1..Len(t) /\ t[i] = s[i] /\ View(n, s[i]) = View(m, s[i])
      BY <3>1, <1>3, <1>21
    <3> QED BY <3>2
  <2>4. AllAnd(m, s, n, t, code, v)
    BY <2>1, <2>2, <2>3 DEF AllAnd
  <2> QED BY <1>17, <1>19, <2>4, AttrsPut
<1> QED
  BY <1>14, <1>15, <1>18, <1>22 DEF SetTo

(* A variable whose attributes have been changed. *)
LEMMA ReplacedView ==
  ASSUME NEW m, NEW ch, Good(m, ch), NEW x \in Name, x \in DOMAIN m.obj, NEW n, Heap(n), NEW t,
         Replaces(m, n, x, ch, t), x \in DOMAIN n.obj,
         InfoOf(n, x) = InfoOf(m, x), Held(n, x) = Held(m, x)
  PROVE  /\ \E g : Good(n, g)
         /\ ViewOf(n) = Put(ViewOf(m), x, Value(InfoOf(m, x), Held(m, x), AttrsOf(n, x)))
<1>1. Good(n, [ch EXCEPT ![x] = t]) /\ \A z \in Name \ {x} : SeenSame(m, n, z)
  BY Replaced
<1>2. ViewOf(n) = Put(ViewOf(m), x, Value(InfoOf(n, x), Held(n, x), AttrsOf(n, x)))
  BY <1>1, ViewPut
<1> QED
  BY <1>1, <1>2

(* seta: the variable has the attribute, and nothing else is seen to change. *)
LEMMA SetaSound ==
  ASSUME NEW m, NEW ch, Good(m, ch), NEW x \in Name, x \in DOMAIN m.obj, NEW y \in Name,
         y \in DOMAIN m.obj, InfoOf(m, y) \in Attributes, NEW n, n = Seta(m, x, y)
  PROVE  /\ \E g : Good(n, g)
         /\ ViewOf(n) = Put(ViewOf(m), x, Value(InfoOf(m, x), Held(m, x),
                              Put(AttrsOf(m, x), CodeOf(m, y), View(m, y))))
<1>1. PICK s : s = ch[x]
  OBVIOUS
<1>2. Strand(m, x, s) /\ Rising(m, s) /\ Len(s) \in Nat
  BY <1>1 DEF Good, Shape, Strand, Rising
<1>3. PICK code \in Codes : code = CodeOf(m, y)
  BY DEF Codes, CodeOf, InfoOf
<1>4. PICK k : k = Passed(m, s, code)
  OBVIOUS
<1>5. /\ IsPassed(m, s, code, k)
      /\ Before(m, x, code) = At(x, s, k)
      /\ \/ /\ Enqa(m, x, code) = Nil /\ \A i \in 1..Len(s) : CodeOf(m, s[i]) # code
         \/ /\ k + 1 \in 1..Len(s) /\ CodeOf(m, s[k + 1]) = code
            /\ Enqa(m, x, code) = s[k + 1] /\ Enqa(m, x, code) # Nil
  BY <1>2, <1>4, EnqaIs
<1>6. k \in 0..Len(s)
  BY <1>5 DEF IsPassed
<1>7. PICK before : before = At(x, s, k)
  OBVIOUS
<1>8. before \in DOMAIN m.obj /\ m.obj[before].next = After(s, k)
  <2>1. k = 0 \/ k \in 1..Len(s)
    BY <1>6
  <2> QED BY <2>1, <1>2, <1>6, <1>7, RisingCodes DEF At, Strand
<1>9. PICK a, made : /\ a = AnyOf(FreeAttrs(m))
                     /\ made = Copy_value(WithObj(m, a, NewVar(InfoOf(m, y))), a, y)
  OBVIOUS
<1>10. InfoOf(m, y) \in Infos
  BY InfosAssumption
<1>11. \A next, w : w = Link(Link(made, a, next), before, a) =>
         Inserted(m, w, before, a, y, next)
  BY <1>8, <1>9, <1>10, InsertDoes
<1>12. x \in DOMAIN m.obj /\ x \notin Attr
  BY RoomAssumption
<1>13. CASE Enqa(m, x, code) = Nil
  <2>1. n = Link(Link(made, a, After(s, k)), before, a)
    BY <1>3, <1>5, <1>7, <1>8, <1>9, <1>13 DEF Seta
  <2>2. Inserted(m, n, before, a, y, After(s, k))
    BY <1>11, <2>1
  <2>3. Lacks(m, s, code)
    BY <1>5, <1>13 DEF Lacks
  <2>4. PICK t : /\ Replaces(m, n, x, ch, t)
                 /\ AttrsOf(n, x) = Put(AttrsOf(m, x), code, View(m, y))
    <3>1. IsPassed(m, s, code, k) /\ Inserted(m, n, At(x, s, k), a, y, After(s, k))
      BY <1>5, <1>7, <2>2
    <3>2. \E t : SetTo(m, n, x, ch, t, code, y)
      BY <1>1, <1>3, <2>3, <3>1, SetaInserts
    <3> QED BY <3>2 DEF SetTo
  <2>5. Heap(n) /\ x \in DOMAIN n.obj /\ InfoOf(n, x) = InfoOf(m, x) /\ Held(n, x) = Held(m, x)
    BY <2>2 DEF Inserted
  <2> QED BY <1>3, <2>4, <2>5, ReplacedView
<1>14. CASE Enqa(m, x, code) # Nil
  <2>1. PICK j \in 1..Len(s) : /\ j = k + 1 /\ CodeOf(m, s[j]) = code
                               /\ Enqa(m, x, code) = s[j]
    BY <1>5, <1>14
  <2>2. m.obj[s[j]].next = After(s, j) /\ s[j] \in DOMAIN m.obj /\ s[j] # x
    <3>1. j \in 0..Len(s) /\ At(x, s, j) = s[j]
      BY <2>1 DEF At
    <3> QED BY <3>1, <1>2, <1>12, RisingCodes DEF Strand
  <2>3. PICK w : w = Link(Link(made, a, After(s, j)), before, a)
    OBVIOUS
  <2>4. n = Delete(w, {s[j]})
    BY <1>3, <1>5, <1>7, <1>9, <1>14, <2>1, <2>2, <2>3 DEF Seta
  <2>5. Inserted(m, w, before, a, y, After(s, j))
    BY <1>11, <2>3
  <2>6. Heap(w) /\ s[j] \in DOMAIN w.obj
    BY <2>2, <2>5 DEF Inserted
  <2>7. Heap(n) /\ Dropped(w, n, s[j])
    <3>1. {s[j]} \in SUBSET DOMAIN w.obj
      BY <2>6
    <3>2. /\ Heap(n) /\ DOMAIN n.obj = DOMAIN w.obj \ {s[j]}
          /\ \A p \in DOMAIN w.obj \ {s[j]} : n.obj[p] = w.obj[p] /\ Held(n, p) = Held(w, p)
      BY <2>4, <2>6, <3>1, HeapDelete
    <3> QED BY <3>2 DEF Dropped
  <2>8. PICK t : /\ Replaces(m, n, x, ch, t)
                 /\ AttrsOf(n, x) = Put(AttrsOf(m, x), code, View(m, y))
    <3>1. Inserted(m, w, At(x, s, k), a, y, After(s, j))
      BY <1>7, <2>5
    <3>2. \E t : SetTo(m, n, x, ch, t, code, y)
      BY <1>1, <1>3, <1>6, <2>1, <2>7, <3>1, SetaReplaces
    <3> QED BY <3>2 DEF SetTo
  <2>9. x \in DOMAIN n.obj /\ InfoOf(n, x) = InfoOf(m, x) /\ Held(n, x) = Held(m, x)
    <3>1. x \in DOMAIN n.obj /\ n.obj[x] = w.obj[x] /\ Held(n, x) = Held(w, x)
      BY <2>2, <2>5, <2>7 DEF Dropped, Inserted
    <3> QED BY <3>1, <2>5 DEF Inserted, InfoOf
  <2> QED BY <1>3, <2>7, <2>8, <2>9, ReplacedView
<1> QED
  BY <1>13, <1>14

(* unseta: the variable has not the attribute, and nothing else is seen to change. *)
LEMMA UnsetaSound ==
  ASSUME NEW m, NEW ch, Good(m, ch), NEW x \in Name, x \in DOMAIN m.obj, NEW code \in Codes,
         NEW n, n = Unseta(m, x, code)
  PROVE  /\ \E g : Good(n, g)
         /\ ViewOf(n) = Put(ViewOf(m), x, Value(InfoOf(m, x), Held(m, x),
                              Abstract!Only(AttrsOf(m, x), DOMAIN AttrsOf(m, x) \ {code})))
<1>1. PICK s : s = ch[x]
  OBVIOUS
<1>2. Strand(m, x, s) /\ Rising(m, s) /\ Len(s) \in Nat
  BY <1>1 DEF Good, Shape, Strand, Rising
<1>4. PICK k : k = Passed(m, s, code)
  OBVIOUS
<1>5. /\ IsPassed(m, s, code, k)
      /\ Before(m, x, code) = At(x, s, k)
      /\ \/ /\ Enqa(m, x, code) = Nil /\ \A i \in 1..Len(s) : CodeOf(m, s[i]) # code
         \/ /\ k + 1 \in 1..Len(s) /\ CodeOf(m, s[k + 1]) = code
            /\ Enqa(m, x, code) = s[k + 1] /\ Enqa(m, x, code) # Nil
  BY <1>2, <1>4, EnqaIs
<1>6. k \in 0..Len(s)
  BY <1>5 DEF IsPassed
<1>7. PICK before : before = At(x, s, k)
  OBVIOUS
<1>8. before \in DOMAIN m.obj
  <2>1. k = 0 \/ k \in 1..Len(s)
    BY <1>6
  <2> QED BY <2>1, <1>2, <1>6, <1>7, RisingCodes DEF At
<1>12. x \in DOMAIN m.obj /\ x \notin Attr
  BY RoomAssumption
<1>13. AreAttrs(AttrsOf(m, x), m, s)
  BY <1>2, AttrsOfAre
<1>14. CASE Enqa(m, x, code) = Nil
  <2>1. n = m
    BY <1>14 DEF Unseta
  <2>2. \A i \in 1..Len(s) : CodeOf(m, s[i]) # code
    BY <1>5, <1>14
  <2>3. AttrsOf(m, x) = Abstract!Only(AttrsOf(m, x), DOMAIN AttrsOf(m, x) \ {code})
    <3>1. AllBut(m, s, m, s, code)
      BY <2>2 DEF AllBut
    <3> QED BY <1>13, <3>1, AttrsDrop
  <2>4. ViewOf(m) = Put(ViewOf(m), x, Value(InfoOf(m, x), Held(m, x), AttrsOf(m, x)))
    BY ViewPut DEF SeenSame
  <2> QED BY <2>1, <2>3, <2>4
<1>15. CASE Enqa(m, x, code) # Nil
  <2>1. PICK j \in 1..Len(s) : /\ j = k + 1 /\ CodeOf(m, s[j]) = code
                               /\ Enqa(m, x, code) = s[j]
    BY <1>5, <1>15
  <2>2. m.obj[s[j]].next = After(s, j) /\ s[j] \in DOMAIN m.obj /\ s[j] # x
    <3>1. j \in 0..Len(s) /\ At(x, s, j) = s[j]
      BY <2>1 DEF At
    <3> QED BY <3>1, <1>2, <1>12, RisingCodes DEF Strand
  <2>3. PICK w : w = Link(m, before, After(s, j))
    OBVIOUS
  <2>4. n = Delete(w, {s[j]})
    BY <1>5, <1>7, <1>15, <2>1, <2>2, <2>3 DEF Unseta
  <2>5. /\ Heap(w) /\ DOMAIN w.obj = DOMAIN m.obj
        /\ w.obj[before].next = After(s, j)
        /\ \A p \in DOMAIN m.obj \ {before} : w.obj[p].next = m.obj[p].next
        /\ \A p \in DOMAIN m.obj : InfoOf(w, p) = InfoOf(m, p) /\ Held(w, p) = Held(m, p)
    BY <1>8, <2>3, HeapLink DEF Good
  <2>6. /\ Heap(n) /\ DOMAIN n.obj = DOMAIN w.obj \ {s[j]}
        /\ \A p \in DOMAIN w.obj \ {s[j]} : n.obj[p] = w.obj[p] /\ Held(n, p) = Held(w, p)
    <3>1. {s[j]} \in SUBSET DOMAIN w.obj
      BY <2>2, <2>5
    <3> QED BY <2>4, <2>5, <3>1, HeapDelete
  <2>7. \A p \in DOMAIN n.obj : InfoOf(n, p) = InfoOf(m, p) /\ Held(n, p) = Held(m, p)
    BY <2>5, <2>6 DEF InfoOf
  <2>8. before # s[j]
    <3>1. k \in 0..Len(s) /\ j \in 0..Len(s) /\ k # j /\ At(x, s, j) = s[j]
      BY <1>2, <1>6, <2>1 DEF At
    <3> QED BY <3>1, <1>2, <1>7, PlacesDiffer
  <2>9. PICK t : /\ Strand(n, x, t) /\ Len(t) = Len(s) - 1
                 /\ \A i \in 1..k : t[i] = s[i]
                 /\ \A i \in (k + 1)..(Len(s) - 1) : t[i] = s[i + 1]
    <3>1. DOMAIN n.obj = DOMAIN m.obj \ {s[j]}
      BY <2>5, <2>6
    <3>2. \A p \in DOMAIN n.obj : InfoOf(n, p) = InfoOf(m, p)
      BY <2>7
    <3>3. \A p \in DOMAIN n.obj \ {before} : n.obj[p].next = m.obj[p].next
      BY <2>5, <2>6
    <3>4. n.obj[before].next = After(s, j)
      BY <1>8, <2>5, <2>6, <2>8
    <3>5. Unlinked(m, n, At(x, s, k), s[j], After(s, j))
      BY <1>7, <3>1, <3>2, <3>3, <3>4 DEF Unlinked
    <3>6. \E t : Strand(n, x, t) /\ IsRemoved(s, t, k)
      BY <1>2, <1>6, <2>1, <3>5, RemovedStrand
    <3> QED BY <3>6 DEF IsRemoved
  <2>10. \A i \in 1..Len(t) : \E l \in 1..Len(s) : l # j /\ t[i] = s[l]
    <3> SUFFICES ASSUME NEW i \in 1..Len(t) PROVE \E l \in 1..Len(s) : l # j /\ t[i] = s[l]
      OBVIOUS
    <3>1. CASE i \in 1..k
      <4>1. i \in 1..Len(s) /\ i # j
        BY <3>1, <1>2, <1>6, <2>1
      <4> QED BY <3>1, <4>1, <2>9
    <3>2. CASE i \in (k + 1)..(Len(s) - 1)
      <4>1. i + 1 \in 1..Len(s) /\ i + 1 # j
        BY <3>2, <1>2, <1>6, <2>1
      <4> QED BY <3>2, <4>1, <2>9
    <3> QED BY <3>1, <3>2, <1>2, <1>6, <2>9
  <2>11. \A l \in 1..Len(s) : l # j => \E i \in 1..Len(t) : t[i] = s[l]
    <3> SUFFICES ASSUME NEW l \in 1..Len(s), l # j PROVE \E i \in 1..Len(t) : t[i] = s[l]
      OBVIOUS
    <3>1. CASE l < j
      <4>1. l \in 1..k /\ l \in 1..Len(t)
        BY <3>1, <1>2, <1>6, <2>1, <2>9
      <4> QED BY <4>1, <2>9
    <3>2. CASE l > j
      <4>1. PICK i : i = l - 1
        OBVIOUS
      <4>2. i \in (k + 1)..(Len(s) - 1) /\ i \in 1..Len(t) /\ i + 1 = l
        BY <3>2, <4>1, <1>2, <1>6, <2>1, <2>9
      <4> QED BY <4>2, <2>9
    <3> QED BY <3>1, <3>2, <1>2, <2>1
  <2>12. \A i \in 1..Len(s) : i # j => s[i] # s[j] /\ CodeOf(m, s[i]) # code
    <3> SUFFICES ASSUME NEW i \in 1..Len(s), i # j
                 PROVE  s[i] # s[j] /\ CodeOf(m, s[i]) # code
      OBVIOUS
    <3>1. CodeOf(m, s[i]) # CodeOf(m, s[j])
      BY <1>2, RisingOnce
    <3> QED BY <3>1, <2>1
  <2>13. SetOf(t) = SetOf(s) \ {s[j]}
    <3>1. \A b \in SetOf(t) : b \in SetOf(s) /\ b # s[j]
      BY <2>10, <2>12 DEF SetOf
    <3>2. \A b \in SetOf(s) : b # s[j] => b \in SetOf(t)
      BY <2>11 DEF SetOf
    <3> QED BY <3>1, <3>2
  <2>14. before \in {x} \cup SetOf(s) /\ s[j] \in SetOf(s)
    <3>1. k = 0 \/ k \in 1..Len(s)
      BY <1>6
    <3> QED BY <3>1, <1>7, <2>1 DEF At, SetOf
  <2>15. Outside(m, n, {x} \cup SetOf(s))
    <3> SUFFICES ASSUME NEW p \in DOMAIN m.obj \ ({x} \cup SetOf(s))
                 PROVE  /\ p \in DOMAIN n.obj /\ InfoOf(n, p) = InfoOf(m, p)
                        /\ Held(n, p) = Held(m, p) /\ n.obj[p].next = m.obj[p].next
      BY DEF Outside
    <3>1. p # s[j] /\ p # before
      BY <2>14
    <3> QED BY <3>1, <2>5, <2>6, <2>7
  <2>16. Replaces(m, n, x, ch, t)
    <3>1. \A b \in Attr \cap DOMAIN n.obj :
            b \in SetOf(t) \/ (b \in DOMAIN m.obj /\ b \notin SetOf(s))
      BY <2>5, <2>6, <2>13
    <3>2. \A b \in SetOf(t) : b \in SetOf(s) \/ b \notin DOMAIN m.obj
      BY <2>13
    <3>3. \A p \in DOMAIN n.obj \ (Attr \cup {x}) : p \in DOMAIN m.obj
      BY <2>5, <2>6
    <3> QED BY <1>1, <2>9, <2>15, <3>1, <3>2, <3>3 DEF Replaces
  <2>17. x \in DOMAIN n.obj /\ InfoOf(n, x) = InfoOf(m, x) /\ Held(n, x) = Held(m, x)
    BY <2>2, <2>5, <2>6, <2>7
  <2>18. AttrsOf(n, x) = Abstract!Only(AttrsOf(m, x), DOMAIN AttrsOf(m, x) \ {code})
    <3>1. AreAttrs(AttrsOf(n, x), n, t)
      BY <2>9, <2>17, AttrsOfAre
    <3>2. \A i \in 1..Len(s) : i # j => View(n, s[i]) = View(m, s[i])
      <4>1. \A i \in 1..Len(s) : i # j => s[i] \in DOMAIN n.obj
        BY <1>2, <2>5, <2>6, <2>12, RisingCodes
      <4> QED BY <4>1, <2>7 DEF View
    <3>3. \A l \in 1..Len(t) :
            \E i \in 1..Len(s) : CodeOf(m, s[i]) # code /\ View(n, t[l]) = View(m, s[i])
      BY <2>10, <2>12, <3>2
    <3>4. \A i \in 1..Len(s) : CodeOf(m, s[i]) # code =>
            \E l \in 1..Len(t) : View(n, t[l]) = View(m, s[i])
      <4>1. \A i \in 1..Len(s) : CodeOf(m, s[i]) # code => i # j
        BY <2>1
      <4> QED BY <4>1, <2>11, <3>2
    <3>5. AllBut(m, s, n, t, code)
      BY <3>3, <3>4 DEF AllBut
    <3> QED BY <1>13, <3>1, <3>5, AttrsDrop
  <2> QED BY <2>6, <2>16, <2>17, <2>18, ReplacedView
<1> QED
  BY <1>14, <1>15

----------------------------------------------------------------------------
(* The calls *)

(* n is m after x has become v, whatever it was. *)
Becomes(m, n, x, v) ==
  /\ \E g : Good(n, g)
  /\ ViewOf(n) = Put(ViewOf(m), x, v)

(* Every object has an info, and holds what fits it. *)
LEMMA FitsHeld ==
  ASSUME NEW m, NEW ch, Good(m, ch), NEW o \in DOMAIN m.obj
  PROVE  InfoOf(m, o) \in Infos /\ Fits(InfoOf(m, o), Held(m, o))
BY DEF Good, Heap, Values, IsMemory, IsObject, InfoOf

(* Construct *)
LEMMA ConstructIs ==
  ASSUME NEW m, NEW ch, Good(m, ch), NEW x \in Name, x \notin DOMAIN m.obj, NEW info \in Infos,
         NEW n, n = WithObj(m, x, NewVar(info))
  PROVE  Becomes(m, n, x, Value(info, Unset, Nothing))
BY MadeSound DEF Becomes

(* What a variable is made with: the others are as they were. *)
MadeWith(m, n, x, ch, info, val) ==
  /\ Good(n, ch) /\ ch[x] = <<>>
  /\ DOMAIN n.obj = DOMAIN m.obj \cup {x}
  /\ InfoOf(n, x) = info /\ Held(n, x) = val
  /\ Outside(m, n, {x})
  /\ ViewOf(n) = Put(ViewOf(m), x, Value(info, val, Nothing))

(* A constructor with a value constructs the variable and stores the value. *)
LEMMA MadeStored ==
  ASSUME NEW m, NEW ch, Good(m, ch), NEW x \in Name, x \notin DOMAIN m.obj, NEW info \in Infos,
         NEW val, Fits(info, val), NEW n, n = Store(WithObj(m, x, NewVar(info)), x, val)
  PROVE  MadeWith(m, n, x, ch, info, val)
<1>1. PICK w : w = WithObj(m, x, NewVar(info))
  OBVIOUS
<1>2. /\ Good(w, ch) /\ DOMAIN w.obj = DOMAIN m.obj \cup {x}
      /\ InfoOf(w, x) = info /\ AttrsOf(w, x) = Nothing
      /\ \A p \in DOMAIN m.obj : w.obj[p] = m.obj[p] /\ Held(w, p) = Held(m, p)
      /\ ch[x] = <<>>
      /\ ViewOf(w) = Put(ViewOf(m), x, Value(info, Unset, Nothing))
  BY <1>1, MadeSound
<1>3. x \in DOMAIN w.obj /\ Fits(InfoOf(w, x), val) /\ n = Store(w, x, val)
  BY <1>1, <1>2
<1>4. /\ Good(n, ch) /\ SaveFor(w, n, x) /\ Held(n, x) = val
      /\ ViewOf(n) = Put(ViewOf(w), x, Value(InfoOf(w, x), val, AttrsOf(w, x)))
  BY <1>2, <1>3, StoreSound
<1>5. ViewOf(n) = Put(ViewOf(m), x, Value(info, val, Nothing))
  BY <1>2, <1>4, PutTwice
<1>6. Outside(m, n, {x})
  <2> SUFFICES ASSUME NEW p \in DOMAIN m.obj \ {x}
               PROVE  /\ p \in DOMAIN n.obj /\ InfoOf(n, p) = InfoOf(m, p)
                      /\ Held(n, p) = Held(m, p) /\ n.obj[p].next = m.obj[p].next
    BY DEF Outside
  <2>1. p \in DOMAIN w.obj /\ w.obj[p] = m.obj[p] /\ Held(w, p) = Held(m, p)
    BY <1>2
  <2>2. InfoOf(w, p) = InfoOf(m, p)
    BY <2>1 DEF InfoOf
  <2> QED BY <2>1, <2>2, <1>4 DEF SaveFor
<1>7. DOMAIN n.obj = DOMAIN m.obj \cup {x} /\ InfoOf(n, x) = info
  BY <1>2, <1>3, <1>4 DEF SaveFor
<1> QED
  BY <1>2, <1>4, <1>5, <1>6, <1>7 DEF MadeWith

(* ConstructWith *)
LEMMA ConstructWithIs ==
  ASSUME NEW m, NEW ch, Good(m, ch), NEW x \in Name, x \notin DOMAIN m.obj, NEW info \in Infos,
         NEW val, Fits(info, val), NEW n, n = Store(WithObj(m, x, NewVar(info)), x, val)
  PROVE  Becomes(m, n, x, Value(info, val, Nothing))
<1>1. MadeWith(m, n, x, ch, info, val)
  BY MadeStored
<1> QED
  BY <1>1 DEF MadeWith, Becomes

(* What a variable that is left alone shows. *)
LEMMA PutElse ==
  ASSUME NEW m, NEW n, NEW x, NEW v, ViewOf(n) = Put(ViewOf(m), x, v),
         NEW y \in Name, y \in DOMAIN m.obj, y \in DOMAIN n.obj, y # x
  PROVE  AttrsOf(n, y) = AttrsOf(m, y) /\ Held(n, y) = Held(m, y) /\ InfoOf(n, y) = InfoOf(m, y)
<1>1. y \in DOMAIN ViewOf(m)
  BY ViewIs
<1>2. PICK V : V = ViewOf(m)
  OBVIOUS
<1>3. Put(V, x, v)[y] = V[y]
  BY <1>1, <1>2 DEF Put
<1>4. ViewOf(n)[y] = ViewOf(m)[y]
  BY <1>2, <1>3
<1>5. /\ ViewOf(n)[y].info = InfoOf(n, y) /\ ViewOf(n)[y].val = Held(n, y)
      /\ ViewOf(n)[y].attrs = AttrsOf(n, y)
  BY ViewIs
<1>6. /\ ViewOf(m)[y].info = InfoOf(m, y) /\ ViewOf(m)[y].val = Held(m, y)
      /\ ViewOf(m)[y].attrs = AttrsOf(m, y)
  BY ViewIs
<1> QED
  BY <1>4, <1>5, <1>6

(* ConstructFrom and Copy *)
LEMMA ConstructFromIs ==
  ASSUME NEW m, NEW ch, Good(m, ch), NEW x \in Name, x \notin DOMAIN m.obj, NEW info \in Infos,
         NEW val, Fits(info, val), NEW y \in Name, y \in DOMAIN m.obj,
         NEW n, n = Setattrs(Store(WithObj(m, x, NewVar(info)), x, val), x, y)
  PROVE  Becomes(m, n, x, Value(info, val, AttrsOf(m, y)))
<1>1. PICK w : w = Store(WithObj(m, x, NewVar(info)), x, val)
  OBVIOUS
<1>2. MadeWith(m, w, x, ch, info, val)
  BY <1>1, MadeStored
<1>3. /\ Good(w, ch) /\ DOMAIN w.obj = DOMAIN m.obj \cup {x}
      /\ InfoOf(w, x) = info /\ Held(w, x) = val
      /\ ViewOf(w) = Put(ViewOf(m), x, Value(info, val, Nothing))
  BY <1>2 DEF MadeWith
<1>4. x # y /\ x \in DOMAIN w.obj /\ y \in DOMAIN w.obj /\ n = Setattrs(w, x, y)
  BY <1>1, <1>3
<1>5. /\ \E g : Good(n, g)
      /\ ViewOf(n) = Put(ViewOf(w), x, Value(InfoOf(w, x), Held(w, x),
                           IF x = y THEN Nothing ELSE AttrsOf(w, y)))
  BY <1>3, <1>4, SetattrsSound
<1>6. AttrsOf(w, y) = AttrsOf(m, y)
  BY <1>3, <1>4, PutElse
<1>7. ViewOf(n) = Put(ViewOf(w), x, Value(info, val, AttrsOf(m, y)))
  BY <1>3, <1>4, <1>5, <1>6
<1>8. ViewOf(n) = Put(ViewOf(m), x, Value(info, val, AttrsOf(m, y)))
  BY <1>3, <1>7, PutTwice
<1> QED
  BY <1>5, <1>8 DEF Becomes

(* Var(const Var&): the new variable has the value and the attributes of the other. *)
LEMMA CopyIs ==
  ASSUME NEW m, NEW ch, Good(m, ch), NEW x \in Name, x \notin DOMAIN m.obj,
         NEW y \in Name, y \in DOMAIN m.obj,
         NEW n, n = Setattrs(Copy_value(WithObj(m, x, NewVar(InfoOf(m, y))), x, y), x, y)
  PROVE  Becomes(m, n, x, Value(InfoOf(m, y), Held(m, y), AttrsOf(m, y)))
<1>1. PICK info, val :
        info \in Infos /\ info = InfoOf(m, y) /\ val = Held(m, y) /\ Fits(info, val)
  BY FitsHeld
<1>2. Held(WithObj(m, x, NewVar(info)), y) = val
  BY <1>1, MadeSound
<1>3. n = Setattrs(Store(WithObj(m, x, NewVar(info)), x, val), x, y)
  BY <1>1, <1>2 DEF Copy_value
<1> QED
  BY <1>1, <1>3, ConstructFromIs

(* CopyAttr *)
LEMMA CopyAttrIs ==
  ASSUME NEW m, NEW ch, Good(m, ch), NEW x \in Name, x \notin DOMAIN m.obj,
         NEW y \in Name, y \in DOMAIN m.obj, NEW code \in Codes,
         NEW a, a = Enqa(m, y, code), a # Nil,
         NEW n, n = Setattrs(Copy_value(WithObj(m, x, NewVar(InfoOf(m, a))), x, a), x, a)
  PROVE  /\ code \in DOMAIN AttrsOf(m, y) /\ AttrsOf(m, y)[code] = View(m, a)
         /\ Becomes(m, n, x, Value(InfoOf(m, a), Held(m, a),
              Abstract!Only(AttrsOf(m, y), {c \in DOMAIN AttrsOf(m, y) : Earlier(code, c)})))
<1>1. PICK s : s = ch[y]
  OBVIOUS
<1>2. Strand(m, y, s)
  BY <1>1 DEF Good, Shape
<1>3. PICK k : k = Passed(m, s, code)
  OBVIOUS
<1>4. k + 1 \in 1..Len(s) /\ CodeOf(m, s[k + 1]) = code /\ a = s[k + 1]
  BY <1>2, <1>3, EnqaIs
<1>5. PICK j \in 1..Len(s) : j = k + 1 /\ a = s[j] /\ CodeOf(m, a) = code
  BY <1>4
<1>6. PICK t : t = SubSeq(s, j + 1, Len(s))
  OBVIOUS
<1>7. /\ Strand(m, a, t) /\ a \in DOMAIN m.obj
      /\ AttrsOf(m, a) = Abstract!Only(AttrsOf(m, y),
           {c \in DOMAIN AttrsOf(m, y) : Earlier(code, c)})
  <2>1. /\ Strand(m, s[j], SubSeq(s, j + 1, Len(s))) /\ s[j] \in DOMAIN m.obj
        /\ AttrsOf(m, s[j]) = Abstract!Only(AttrsOf(m, y),
             {c \in DOMAIN AttrsOf(m, y) : Earlier(CodeOf(m, s[j]), c)})
    BY <1>2, TailStrand
  <2>2. s[j] = a /\ CodeOf(m, s[j]) = code /\ SubSeq(s, j + 1, Len(s)) = t
    BY <1>5, <1>6
  <2> QED BY <2>1, <2>2, Zenon
<1>8. a \in Attr /\ a # x
  BY <1>2, <1>5, RisingCodes, RoomAssumption DEF Strand
<1>9. code \in DOMAIN AttrsOf(m, y) /\ AttrsOf(m, y)[code] = View(m, a)
  BY DEF AttrsOf
<1>10. PICK info, val :
         /\ info \in Infos
         /\ info = InfoOf(m, a) /\ val = Held(m, a) /\ Fits(info, val)
  BY <1>7, FitsHeld
<1>11. PICK w : w = Store(WithObj(m, x, NewVar(info)), x, val)
  OBVIOUS
<1>12. MadeWith(m, w, x, ch, info, val)
  BY <1>10, <1>11, MadeStored
<1>13. /\ Good(w, ch) /\ ch[x] = <<>> /\ DOMAIN w.obj = DOMAIN m.obj \cup {x}
       /\ InfoOf(w, x) = info /\ Held(w, x) = val /\ Outside(m, w, {x})
       /\ ViewOf(w) = Put(ViewOf(m), x, Value(info, val, Nothing))
  BY <1>12 DEF MadeWith
<1>14. Held(WithObj(m, x, NewVar(info)), a) = val
  BY <1>7, <1>10, MadeSound
<1>15. n = Setattrs(w, x, a)
  BY <1>10, <1>11, <1>14 DEF Copy_value
<1>16. x \notin SetOf(t)
  <2>1. Rising(m, t)
    BY <1>7 DEF Strand
  <2> QED BY <2>1, RisingCodes, RoomAssumption DEF SetOf
<1>17. Strand(w, a, t)
  <2>1. SetOf(t) \cap {x} = {} /\ a \notin {x}
    BY <1>8, <1>16
  <2> QED BY <2>1, <1>7, <1>13, StrandKept
<1>18. AttrsOf(w, a) = AttrsOf(m, a)
  <2>1. Rising(m, t) /\ a \in DOMAIN w.obj
    BY <1>7, <1>13 DEF Strand
  <2>2. ASSUME NEW i \in 1..Len(t)
        PROVE  InfoOf(w, t[i]) = InfoOf(m, t[i]) /\ Held(w, t[i]) = Held(m, t[i])
    <3>1. t[i] \in DOMAIN m.obj /\ t[i] # x
      BY <2>1, <1>16, RisingCodes DEF SetOf
    <3> QED BY <3>1, <1>13 DEF Outside
  <2> QED BY <2>1, <2>2, <1>7, <1>17, AttrsKept
<1>19. /\ \E g : Good(n, g)
       /\ ViewOf(n) = Put(ViewOf(w), x, Value(InfoOf(w, x), Held(w, x), AttrsOf(w, a)))
  <2>1. x \in DOMAIN w.obj /\ a \in DOMAIN w.obj
    BY <1>7, <1>13
  <2> QED BY <2>1, <1>8, <1>13, <1>15, <1>17, SetattrsFromAttr
<1>20. ViewOf(n) = Put(ViewOf(m), x, Value(info, val, AttrsOf(m, a)))
  BY <1>13, <1>18, <1>19, PutTwice
<1> QED
  BY <1>7, <1>9, <1>10, <1>19, <1>20 DEF Becomes

(* n is m after x and y have become vx and vy. *)
BothBecome(m, n, x, vx, y, vy) ==
  /\ \E g : Good(n, g)
  /\ ViewOf(n) = Put(Put(ViewOf(m), x, vx), y, vy)

(* Two changes of each of two variables. *)
LEMMA PutTwoTwice ==
  ASSUME NEW f, NEW x, NEW y, x # y, NEW a, NEW b, NEW c, NEW d
  PROVE  Put(Put(Put(Put(f, x, a), y, b), x, c), y, d) = Put(Put(f, x, c), y, d)
<1>1. PICK g, h : g = Put(f, x, a) /\ h = Put(g, x, c)
  OBVIOUS
<1>2. Put(Put(g, y, b), x, c) = Put(h, y, b)
  BY <1>1, PutSwap
<1>3. h = Put(f, x, c)
  BY <1>1, PutTwice
<1>4. Put(Put(h, y, b), y, d) = Put(h, y, d)
  BY PutTwice
<1> QED
  BY <1>1, <1>2, <1>3, <1>4

(* Move *)
LEMMA MoveIs ==
  ASSUME NEW m, NEW ch, Good(m, ch), NEW x \in Name, x \notin DOMAIN m.obj,
         NEW y \in Name, y \in DOMAIN m.obj, NEW v,
         v = Move_value(WithObj(m, x, NewVar(InfoOf(m, y))), x, y),
         NEW n, n = Link(Link(v, x, m.obj[y].next), y, Nil)
  PROVE  BothBecome(m, n, x, Value(InfoOf(m, y), Held(m, y), AttrsOf(m, y)),
                    y, Value(InfoOf(m, y), Unset, Nothing))
<1>1. PICK info, val :
        /\ info \in Infos
        /\ info = InfoOf(m, y) /\ val = Held(m, y)
  BY FitsHeld
<1>2. PICK w : w = WithObj(m, x, NewVar(info))
  OBVIOUS
<1>3. /\ Good(w, ch) /\ DOMAIN w.obj = DOMAIN m.obj \cup {x}
      /\ InfoOf(w, x) = info /\ AttrsOf(w, x) = Nothing
      /\ \A p \in DOMAIN m.obj : w.obj[p] = m.obj[p] /\ Held(w, p) = Held(m, p)
      /\ ch[x] = <<>>
      /\ ViewOf(w) = Put(ViewOf(m), x, Value(info, Unset, Nothing))
  BY <1>1, <1>2, MadeSound
<1>4. /\ x \in DOMAIN w.obj /\ y \in DOMAIN w.obj /\ x # y /\ v = Move_value(w, x, y)
      /\ InfoOf(w, y) = info /\ Held(w, y) = val /\ w.obj[y].next = m.obj[y].next
  BY <1>1, <1>2, <1>3 DEF InfoOf
<1>5. AttrsOf(w, y) = AttrsOf(m, y)
  BY <1>3, <1>4, PutElse
<1>14. Takes(w, x, y)
  <2>1. w.obj[x].info = w.obj[y].info
    BY <1>3, <1>4 DEF InfoOf
  <2>2. x \in TextsOf(w) <=> y \in TextsOf(w)
    BY <1>4, <2>1 DEF TextsOf
  <2>3. Fits(InfoOf(w, x), Held(w, y))
    BY <1>3, <1>4, FitsHeld
  <2>4. w.obj[y].isset /\ y \in TextsOf(w) =>
          LongEnough(w.buf[w.obj[y].slot], w.obj[y].info)
    BY <1>3 DEF Good, Heap, Buffers
  <2> QED BY <2>1, <2>2, <2>3, <2>4 DEF Takes
<1>6. /\ Good(v, ch) /\ SamePointers(w, v) /\ Held(v, x) = val /\ Held(v, y) = Unset
      /\ AttrsOf(v, x) = AttrsOf(w, x) /\ AttrsOf(v, y) = AttrsOf(w, y)
      /\ ViewOf(v) = Put(Put(ViewOf(w), x, Value(InfoOf(w, x), Held(w, y), AttrsOf(w, x))),
                         y, Value(InfoOf(w, y), Unset, AttrsOf(w, y)))
  BY <1>3, <1>4, <1>14, MovedSound
<1>7. /\ x \in DOMAIN v.obj /\ y \in DOMAIN v.obj
      /\ InfoOf(v, x) = info /\ InfoOf(v, y) = info /\ v.obj[y].next = m.obj[y].next
  BY <1>3, <1>4, <1>6 DEF SamePointers
<1>8. n = Link(Link(v, x, v.obj[y].next), y, Nil)
  BY <1>7
<1>9. /\ \E g : Good(n, g)
      /\ ViewOf(n) = Put(Put(ViewOf(v), x, Value(InfoOf(v, x), Held(v, x), AttrsOf(v, y))),
                         y, Value(InfoOf(v, y), Held(v, y), Nothing))
  BY <1>3, <1>4, <1>6, <1>7, <1>8, ChainMoved
<1>10. PICK c, d : /\ c = Value(info, val, AttrsOf(m, y))
                   /\ d = Value(info, Unset, Nothing)
  OBVIOUS
<1>11. ViewOf(n) = Put(Put(ViewOf(v), x, c), y, d)
  BY <1>5, <1>6, <1>7, <1>9, <1>10
<1>12. ViewOf(n) = Put(Put(ViewOf(w), x, c), y, d)
  BY <1>4, <1>6, <1>11, PutTwoTwice
<1>13. ViewOf(n) = Put(Put(ViewOf(m), x, c), y, d)
  BY <1>3, <1>12, PutTwice
<1> QED
  BY <1>1, <1>9, <1>10, <1>13 DEF BothBecome

(* Move assignment *)
LEMMA MoveAssignIs ==
  ASSUME NEW m, NEW ch, Good(m, ch), NEW x \in Name, x \in DOMAIN m.obj,
         NEW y \in Name, y \in DOMAIN m.obj, x # y, Takes(m, x, y),
         NEW w, w = Clear_attrs(Move_value(m, x, y), x),
         NEW n, n = Link(Link(w, x, m.obj[y].next), y, Nil)
  PROVE  BothBecome(m, n, x, Value(InfoOf(m, x), Held(m, y), AttrsOf(m, y)),
                    y, Value(InfoOf(m, y), Unset, Nothing))
<1>1. PICK info, old, val :
        info = InfoOf(m, y) /\ old = InfoOf(m, x) /\ val = Held(m, y)
  OBVIOUS
<1>2. PICK v : v = Move_value(m, x, y)
  OBVIOUS
<1>3. /\ Good(v, ch) /\ SamePointers(m, v) /\ Held(v, x) = val /\ Held(v, y) = Unset
      /\ AttrsOf(v, y) = AttrsOf(m, y)
      /\ ViewOf(v) = Put(Put(ViewOf(m), x, Value(InfoOf(m, x), Held(m, y), AttrsOf(m, x))),
                         y, Value(InfoOf(m, y), Unset, AttrsOf(m, y)))
  BY <1>1, <1>2, MovedSound
<1>4. /\ x \in DOMAIN v.obj /\ y \in DOMAIN v.obj /\ w = Clear_attrs(v, x)
      /\ InfoOf(v, x) = old /\ InfoOf(v, y) = info /\ v.obj[y].next = m.obj[y].next
  BY <1>1, <1>2, <1>3 DEF SamePointers
<1>5. PICK g : g = [ch EXCEPT ![x] = <<>>]
  OBVIOUS
<1>6. /\ Good(w, g)
      /\ ViewOf(w) = Put(ViewOf(v), x, Value(InfoOf(v, x), Held(v, x), Nothing))
  BY <1>3, <1>4, <1>5, ClearedSound
<1>7. g[x] = <<>>
  BY <1>3, <1>5 DEF Good, Shape
<1>8. /\ Replaces(v, w, x, ch, <<>>) /\ x \in DOMAIN w.obj
      /\ InfoOf(w, x) = InfoOf(v, x) /\ Held(w, x) = Held(v, x)
  BY <1>3, <1>4, ClearedDoes
<1>9. y \in DOMAIN w.obj /\ w.obj[y].next = v.obj[y].next
  <2>1. Rising(v, ch[x])
    BY <1>3 DEF Good, Shape, Strand
  <2>2. y \notin {x} \cup SetOf(ch[x])
    BY <2>1, RisingCodes, RoomAssumption DEF SetOf
  <2> QED BY <2>2, <1>4, <1>8 DEF Replaces, Outside
<1>10. AttrsOf(w, y) = AttrsOf(m, y) /\ Held(w, y) = Unset /\ InfoOf(w, y) = info
  BY <1>3, <1>4, <1>6, <1>9, PutElse
<1>11. n = Link(Link(w, x, w.obj[y].next), y, Nil)
  BY <1>4, <1>9
<1>12. /\ \E h : Good(n, h)
       /\ ViewOf(n) = Put(Put(ViewOf(w), x, Value(InfoOf(w, x), Held(w, x), AttrsOf(w, y))),
                          y, Value(InfoOf(w, y), Held(w, y), Nothing))
  BY <1>6, <1>7, <1>8, <1>9, <1>11, ChainMoved
<1>13. PICK c, d : /\ c = Value(old, val, AttrsOf(m, y))
                   /\ d = Value(info, Unset, Nothing)
  OBVIOUS
<1>14. ViewOf(n) = Put(Put(ViewOf(w), x, c), y, d)
  BY <1>3, <1>4, <1>8, <1>10, <1>12, <1>13
<1>15. ViewOf(n) = Put(Put(ViewOf(v), x, c), y, d)
  BY <1>6, <1>14, PutTwice
<1>16. ViewOf(n) = Put(Put(ViewOf(m), x, c), y, d)
  BY <1>3, <1>15, PutTwoTwice
<1> QED
  BY <1>1, <1>12, <1>13, <1>16 DEF BothBecome

(* set(const Var&) when it does not throw, and assignment *)
LEMMA SetAllIs ==
  ASSUME NEW m, NEW ch, Good(m, ch), NEW x \in Name, x \in DOMAIN m.obj,
         NEW y \in Name, y \in DOMAIN m.obj, NEW val, Fits(InfoOf(m, x), val),
         NEW n, n = Setattrs(Store(m, x, val), x, y)
  PROVE  Becomes(m, n, x, Value(InfoOf(m, x), val, IF x = y THEN Nothing ELSE AttrsOf(m, y)))
<1>1. PICK w : w = Store(m, x, val)
  OBVIOUS
<1>2. /\ Good(w, ch) /\ SaveFor(m, w, x) /\ Held(w, x) = val
      /\ ViewOf(w) = Put(ViewOf(m), x, Value(InfoOf(m, x), val, AttrsOf(m, x)))
  BY <1>1, StoreSound
<1>3. /\ x \in DOMAIN w.obj /\ y \in DOMAIN w.obj /\ InfoOf(w, x) = InfoOf(m, x)
      /\ n = Setattrs(w, x, y)
  BY <1>1, <1>2 DEF SaveFor
<1>4. /\ \E g : Good(n, g)
      /\ ViewOf(n) = Put(ViewOf(w), x, Value(InfoOf(w, x), Held(w, x),
                           IF x = y THEN Nothing ELSE AttrsOf(w, y)))
  BY <1>2, <1>3, SetattrsSound
<1>5. x # y => AttrsOf(w, y) = AttrsOf(m, y)
  BY <1>2, <1>3, PutElse
<1>6. PICK c : c = Value(InfoOf(m, x), val, IF x = y THEN Nothing ELSE AttrsOf(m, y))
  OBVIOUS
<1>7. ViewOf(n) = Put(ViewOf(w), x, c)
  BY <1>2, <1>3, <1>4, <1>5, <1>6
<1>8. ViewOf(n) = Put(ViewOf(m), x, c)
  BY <1>2, <1>7, PutTwice
<1> QED
  BY <1>4, <1>6, <1>8 DEF Becomes

(* m_info = var.m_info: the fields of one object change, and no buffer. *)
LEMMA RetypedDoes ==
  ASSUME NEW m, IsMemory(m), NEW o \in DOMAIN m.obj, NEW info \in Infos,
         NEW n, n = Retyped(m, o, info)
  PROVE  /\ IsMemory(n) /\ n.buf = m.buf /\ DOMAIN n.obj = DOMAIN m.obj
         /\ n.obj[o].info = info /\ ~ n.obj[o].isset /\ n.obj[o].next = m.obj[o].next
         /\ n.obj[o].slot = (IF IsText(info.type) THEN Pointer(m, o) ELSE Number(m, o))
         /\ \A p \in DOMAIN m.obj \ {o} : n.obj[p] = m.obj[p]
<1>1. PICK slot : slot = IF IsText(info.type) THEN Pointer(m, o) ELSE Number(m, o)
  OBVIOUS
<1>2. PICK f \in BOOLEAN : f = FALSE
  OBVIOUS
<1>3. PICK v : v = [[[m.obj[o] EXCEPT !.info = info] EXCEPT !.isset = f] EXCEPT !.slot = slot]
  OBVIOUS
<1>4. n = [obj |-> [m.obj EXCEPT ![o] = v], buf |-> m.buf]
  <2>1. n = [m EXCEPT !.obj[o].info = info, !.obj[o].isset = f, !.obj[o].slot = slot]
    BY <1>1, <1>2, Zenon DEF Retyped
  <2>2. PICK a : a = [m EXCEPT !.obj[o].info = info]
    OBVIOUS
  <2>3. PICK b : b = [a EXCEPT !.obj[o].isset = f]
    OBVIOUS
  <2>4. n = [b EXCEPT !.obj[o].slot = slot]
    BY <2>1, <2>2, <2>3, Zenon
  <2>5. a = [obj |-> [m.obj EXCEPT ![o] = [m.obj[o] EXCEPT !.info = info]], buf |-> m.buf]
    BY <2>2 DEF IsMemory
  <2>6. PICK g : g = [m.obj EXCEPT ![o] = [m.obj[o] EXCEPT !.info = info]]
    OBVIOUS
  <2>7. /\ a.obj = g /\ a.buf = m.buf /\ a = [obj |-> g, buf |-> m.buf]
        /\ g[o] = [m.obj[o] EXCEPT !.info = info] /\ o \in DOMAIN g
    BY <2>5, <2>6
  <2>8. b = [obj |-> [g EXCEPT ![o] = [g[o] EXCEPT !.isset = f]], buf |-> m.buf]
    BY <2>3, <2>7
  <2>9. PICK h : h = [g EXCEPT ![o] = [g[o] EXCEPT !.isset = f]]
    OBVIOUS
  <2>10. /\ b = [obj |-> h, buf |-> m.buf] /\ h[o] = [g[o] EXCEPT !.isset = f]
         /\ o \in DOMAIN h
    BY <2>7, <2>8, <2>9
  <2>11. n = [obj |-> [h EXCEPT ![o] = [h[o] EXCEPT !.slot = slot]], buf |-> m.buf]
    BY <2>4, <2>10
  <2>12. [h[o] EXCEPT !.slot = slot] = v
    BY <1>3, <2>7, <2>10
  <2>13. [h EXCEPT ![o] = v] = [m.obj EXCEPT ![o] = v]
    BY <2>6, <2>9
  <2> QED BY <2>11, <2>12, <2>13
<1>5. v = [info |-> info, isset |-> f, next |-> m.obj[o].next, slot |-> slot]
  <2>1. PICK w : w = m.obj[o] /\ IsObject(w)
    BY DEF IsMemory
  <2>2. PICK s, x, l : s = w.isset /\ x = w.next /\ l = w.slot
    OBVIOUS
  <2>3. PICK i : i = w.info
    OBVIOUS
  <2>4. w = [info |-> i, isset |-> s, next |-> x, slot |-> l]
    BY <2>1, <2>2, <2>3 DEF IsObject
  <2>5. PICK u : u = [w EXCEPT !.info = info]
    OBVIOUS
  <2>6. u = [info |-> info, isset |-> s, next |-> x, slot |-> l]
    BY <2>4, <2>5
  <2>7. PICK t : t = [u EXCEPT !.isset = f]
    OBVIOUS
  <2>8. t = [info |-> info, isset |-> f, next |-> x, slot |-> l]
    BY <2>6, <2>7
  <2>9. [t EXCEPT !.slot = slot] = [info |-> info, isset |-> f, next |-> x, slot |-> slot]
    BY <2>8
  <2> QED BY <1>3, <2>1, <2>2, <2>5, <2>7, <2>9
<1>6. /\ n.obj = [m.obj EXCEPT ![o] = v] /\ n.buf = m.buf /\ n = [obj |-> n.obj, buf |-> n.buf]
  BY <1>4
<1>7. /\ DOMAIN n.obj = DOMAIN m.obj /\ IsMap(n.obj) /\ n.obj[o] = v
      /\ \A p \in DOMAIN m.obj \ {o} : n.obj[p] = m.obj[p]
  BY <1>6 DEF IsMap, IsMemory
<1>8. /\ v.info = info /\ v.isset = f /\ v.next = m.obj[o].next /\ v.slot = slot
      /\ IsObject(v)
  BY <1>5 DEF IsObject
<1>9. IsMemory(n)
  <2>1. \A p \in DOMAIN n.obj : IsObject(n.obj[p])
    BY <1>7, <1>8 DEF IsMemory
  <2> QED BY <2>1, <1>6, <1>7 DEF IsMemory
<1> QED
  BY <1>1, <1>2, <1>6, <1>7, <1>8, <1>9

(* The slot of o can be that of a variable of another info: a buffer that is long
   enough, none for a number. *)
Ready(m, o, info) ==
  IF IsText(info.type)
    THEN LET p == Pointer(m, o)
         IN p = Nil \/ (p \in DOMAIN m.buf /\ m.buf[p].cap >= info.len)
    ELSE ~IsText(InfoOf(m, o).type) \/ m.obj[o].slot = Nil

(* Then every buffer is still that of one text, and nothing is lost. *)
LEMMA RetypedBuffers ==
  ASSUME NEW m, Heap(m), NEW o \in DOMAIN m.obj, NEW info \in Infos, Ready(m, o, info),
         NEW n, n = Retyped(m, o, info)
  PROVE  Buffers(n)
<1>1. /\ IsMemory(n) /\ n.buf = m.buf /\ DOMAIN n.obj = DOMAIN m.obj
      /\ n.obj[o].info = info /\ ~ n.obj[o].isset
      /\ n.obj[o].slot = (IF IsText(info.type) THEN Pointer(m, o) ELSE Number(m, o))
      /\ \A p \in DOMAIN m.obj \ {o} : n.obj[p] = m.obj[p]
  BY RetypedDoes DEF Heap
<1>2. \A p : p # o => (p \in TextsOf(n) <=> p \in TextsOf(m))
  BY <1>1 DEF TextsOf
<1>3. /\ o \in TextsOf(n) <=> IsText(info.type)
      /\ o \in TextsOf(m) <=> IsText(m.obj[o].info.type)
  BY <1>1 DEF TextsOf
<1>4. /\ Wild \notin DOMAIN m.buf /\ Nil \notin DOMAIN m.buf /\ Wild # Nil
      /\ \A b \in DOMAIN m.buf : b \in Buffer
  BY RoomAssumption DEF Heap, IsMemory
<1>5. ASSUME o \in TextsOf(n), n.obj[o].slot # Nil
      PROVE  /\ o \in TextsOf(m) /\ n.obj[o].slot = m.obj[o].slot
             /\ n.obj[o].slot \in DOMAIN m.buf /\ m.buf[n.obj[o].slot].cap >= info.len
  <2>1. PICK p : p = Pointer(m, o)
    OBVIOUS
  <2>2. n.obj[o].slot = p /\ p \in DOMAIN m.buf /\ m.buf[p].cap >= info.len
    BY <1>1, <1>3, <1>5, <2>1 DEF Ready
  <2>3. o \in TextsOf(m) /\ p = m.obj[o].slot
    BY <1>3, <1>4, <2>1, <2>2 DEF Pointer, InfoOf
  <2> QED BY <2>2, <2>3
<1>6. ASSUME o \in TextsOf(m), m.obj[o].slot # Nil
      PROVE  o \in TextsOf(n) /\ n.obj[o].slot = m.obj[o].slot
  BY <1>1, <1>3, <1>6 DEF Ready, Pointer, InfoOf
<1>7. ASSUME NEW p \in TextsOf(n)
      PROVE  /\ n.obj[p].isset => n.obj[p].slot # Nil
             /\ n.obj[p].slot # Nil => /\ n.obj[p].slot \in DOMAIN n.buf
                                       /\ LongEnough(n.buf[n.obj[p].slot], n.obj[p].info)
  <2>1. CASE p = o
    <3>1. n.obj[o].slot # Nil => m.buf[n.obj[o].slot].cap \in Nat
      BY <1>5, <2>1 DEF Heap, Buffers, LongEnough
    <3> QED BY <1>1, <1>5, <2>1, <3>1 DEF LongEnough
  <2>2. CASE p # o
    <3>1. p \in TextsOf(m) /\ n.obj[p] = m.obj[p]
      BY <1>1, <1>2, <2>2 DEF TextsOf
    <3> QED BY <1>1, <3>1 DEF Heap, Buffers
  <2> QED BY <2>1, <2>2
<1>8. \A p \in TextsOf(n) : n.obj[p].slot # Nil =>
        p \in TextsOf(m) /\ n.obj[p].slot = m.obj[p].slot
  BY <1>1, <1>2, <1>5 DEF TextsOf
<1>9. ASSUME NEW p \in TextsOf(n), NEW q \in TextsOf(n),
             n.obj[p].slot # Nil, n.obj[p].slot = n.obj[q].slot
      PROVE  p = q
  BY <1>8, <1>9 DEF Heap, Buffers
<1>10. ASSUME NEW b \in DOMAIN n.buf
       PROVE  \E p \in TextsOf(n) : n.obj[p].slot = b
  <2>1. PICK p \in TextsOf(m) : m.obj[p].slot = b
    BY <1>1 DEF Heap, Buffers
  <2>2. b # Nil
    BY <1>1, <1>4
  <2>3. CASE p = o
    BY <1>6, <2>1, <2>2, <2>3
  <2>4. CASE p # o
    BY <1>1, <1>2, <2>1, <2>4 DEF TextsOf
  <2> QED BY <2>3, <2>4
<1> QED
  BY <1>7, <1>9, <1>10 DEF Buffers

(* Another info: the variable is seen unset, with the attributes it had. *)
LEMMA RetypedSound ==
  ASSUME NEW m, NEW ch, Good(m, ch), NEW x \in Name, x \in DOMAIN m.obj, NEW info \in Infos,
         Ready(m, x, info), NEW n, n = Retyped(m, x, info)
  PROVE  /\ Good(n, ch) /\ DOMAIN n.obj = DOMAIN m.obj /\ InfoOf(n, x) = info
         /\ \A p \in DOMAIN m.obj \ {x} : InfoOf(n, p) = InfoOf(m, p) /\ Held(n, p) = Held(m, p)
         /\ ViewOf(n) = Put(ViewOf(m), x, Value(info, Unset, AttrsOf(n, x)))
<1>1. /\ IsMemory(n) /\ n.buf = m.buf /\ DOMAIN n.obj = DOMAIN m.obj
      /\ n.obj[x].info = info /\ ~ n.obj[x].isset /\ n.obj[x].next = m.obj[x].next
      /\ \A p \in DOMAIN m.obj \ {x} : n.obj[p] = m.obj[p]
  BY RetypedDoes DEF Good, Heap
<1>2. Buffers(n)
  BY RetypedBuffers DEF Good
<1>3. \A p \in DOMAIN m.obj \ {x} : InfoOf(n, p) = InfoOf(m, p) /\ Held(n, p) = Held(m, p)
  BY <1>1, HeldSame DEF Good, Heap, IsMemory, IsObject, InfoOf
<1>4. Held(n, x) = Unset /\ InfoOf(n, x) = info
  BY <1>1, HeldIs DEF InfoOf
<1>5. Values(n)
  BY <1>1, <1>3, <1>4, UnsetFits DEF Values, Good, Heap
<1>6. Heap(n)
  BY <1>1, <1>2, <1>5 DEF Heap
<1>7. Strand(n, x, ch[x])
  <2>1. PICK s : s = ch[x]
    OBVIOUS
  <2>2. Strand(m, x, s) /\ Rising(m, s)
    BY <2>1 DEF Good, Shape, Strand
  <2>3. \A i \in 1..Len(s) : s[i] \in DOMAIN m.obj \ {x}
    BY <2>2, RisingCodes, RoomAssumption
  <2>4. \A i \in 1..Len(s) : /\ s[i] \in DOMAIN n.obj /\ InfoOf(n, s[i]) = InfoOf(m, s[i])
                             /\ CodeOf(n, s[i]) = CodeOf(m, s[i])
                             /\ n.obj[s[i]].next = m.obj[s[i]].next
    BY <1>1, <2>3 DEF CodeOf, InfoOf
  <2>5. Rising(n, s)
    BY <2>2, <2>4 DEF Rising
  <2>6. \A i \in 0..Len(s) : i = 0 \/ i \in 1..Len(s)
    BY <2>2 DEF Rising
  <2>7. \A i \in 0..Len(s) : n.obj[At(x, s, i)].next = After(s, i)
    BY <1>1, <2>2, <2>4, <2>6 DEF Strand, At
  <2> QED BY <1>1, <2>1, <2>2, <2>5, <2>7 DEF Strand
<1>8. Replaces(m, n, x, ch, ch[x])
  BY <1>1, <1>3, <1>7 DEF Replaces, Outside
<1>9. Good(n, [ch EXCEPT ![x] = ch[x]]) /\ \A z \in Name \ {x} : SeenSame(m, n, z)
  BY <1>6, <1>8, Replaced
<1>10. Good(n, ch)
  BY <1>9, SameChains DEF Good, Shape
<1>11. ViewOf(n) = Put(ViewOf(m), x, Value(InfoOf(n, x), Held(n, x), AttrsOf(n, x)))
  BY <1>1, <1>9, ViewPut
<1> QED
  BY <1>1, <1>3, <1>4, <1>10, <1>11

(* operator=(const Var&): the info, the value and the attributes of the other. *)
LEMMA AssignIs ==
  ASSUME NEW m, NEW ch, Good(m, ch), NEW x \in Name, x \in DOMAIN m.obj,
         NEW y \in Name, y \in DOMAIN m.obj, x # y, Ready(m, x, InfoOf(m, y)),
         NEW n, n = Setattrs(Copy_value(Retyped(m, x, InfoOf(m, y)), x, y), x, y)
  PROVE  Becomes(m, n, x, Value(InfoOf(m, y), Held(m, y), AttrsOf(m, y)))
<1>1. PICK info, val : /\ info = InfoOf(m, y) /\ val = Held(m, y)
                       /\ info \in Infos /\ Fits(info, val)
  BY FitsHeld
<1>2. PICK r : r = Retyped(m, x, info)
  OBVIOUS
<1>3. /\ Good(r, ch) /\ DOMAIN r.obj = DOMAIN m.obj /\ InfoOf(r, x) = info
      /\ Held(r, y) = val
      /\ ViewOf(r) = Put(ViewOf(m), x, Value(info, Unset, AttrsOf(r, x)))
  BY <1>1, <1>2, RetypedSound
<1>4. n = Setattrs(Store(r, x, val), x, y)
  BY <1>1, <1>2, <1>3 DEF Copy_value
<1>5. Becomes(r, n, x, Value(info, val, IF x = y THEN Nothing ELSE AttrsOf(r, y)))
  BY <1>1, <1>3, <1>4, SetAllIs
<1>6. AttrsOf(r, y) = AttrsOf(m, y)
  BY <1>3, PutElse
<1>7. PICK c : c = Value(info, val, AttrsOf(m, y))
  OBVIOUS
<1>8. \E g : Good(n, g)
  BY <1>5 DEF Becomes
<1>9. ViewOf(n) = Put(ViewOf(r), x, c)
  BY <1>5, <1>6, <1>7 DEF Becomes
<1>10. ViewOf(n) = Put(ViewOf(m), x, c)
  BY <1>3, <1>9, PutTwice
<1> QED
  BY <1>1, <1>7, <1>8, <1>10 DEF Becomes

(* The other calls *)
LEMMA SetIs ==
  ASSUME NEW m, NEW ch, Good(m, ch), NEW x \in Name, x \in DOMAIN m.obj, NEW val,
         Fits(InfoOf(m, x), val), NEW n, n = Store(m, x, val)
  PROVE  Becomes(m, n, x, Value(InfoOf(m, x), val, AttrsOf(m, x)))
BY StoreSound DEF Becomes

(* unset() takes the value and leaves the attributes. *)
LEMMA UnsettingIs ==
  ASSUME NEW m, NEW ch, Good(m, ch), NEW x \in Name, x \in DOMAIN m.obj, NEW n, n = Clear(m, x)
  PROVE  Becomes(m, n, x, Value(InfoOf(m, x), Unset, AttrsOf(m, x)))
<1>1. n = Store(m, x, Unset)
  BY DEF Store
<1> QED
  BY <1>1, SetIs, UnsetFits

(* setattrs: of a variable on itself it clears them. *)
LEMMA SetAttrsIs ==
  ASSUME NEW m, NEW ch, Good(m, ch), NEW x \in Name, x \in DOMAIN m.obj,
         NEW y \in Name, y \in DOMAIN m.obj, NEW n, n = Setattrs(m, x, y)
  PROVE  Becomes(m, n, x, Value(InfoOf(m, x), Held(m, x),
                                IF x = y THEN Nothing ELSE AttrsOf(m, y)))
BY SetattrsSound DEF Becomes

(* clear_attrs(). *)
LEMMA ClearAttrsIs ==
  ASSUME NEW m, NEW ch, Good(m, ch), NEW x \in Name, x \in DOMAIN m.obj,
         NEW n, n = Clear_attrs(m, x)
  PROVE  Becomes(m, n, x, Value(InfoOf(m, x), Held(m, x), Nothing))
<1>1. /\ Good(n, [ch EXCEPT ![x] = <<>>])
      /\ ViewOf(n) = Put(ViewOf(m), x, Value(InfoOf(m, x), Held(m, x), Nothing))
  BY ClearedSound
<1> QED
  BY <1>1 DEF Becomes

(* seta(). *)
LEMMA SetAIs ==
  ASSUME NEW m, NEW ch, Good(m, ch), NEW x \in Name, x \in DOMAIN m.obj, NEW y \in Name,
         y \in DOMAIN m.obj, InfoOf(m, y) \in Attributes, NEW n, n = Seta(m, x, y)
  PROVE  Becomes(m, n, x, Value(InfoOf(m, x), Held(m, x),
                                Put(AttrsOf(m, x), CodeOf(m, y), View(m, y))))
BY SetaSound DEF Becomes

(* unseta(). *)
LEMMA UnsetAIs ==
  ASSUME NEW m, NEW ch, Good(m, ch), NEW x \in Name, x \in DOMAIN m.obj, NEW code \in Codes,
         NEW n, n = Unseta(m, x, code)
  PROVE  Becomes(m, n, x, Value(InfoOf(m, x), Held(m, x),
                   Abstract!Only(AttrsOf(m, x), DOMAIN AttrsOf(m, x) \ {code})))
BY UnsetaSound DEF Becomes

(* Changing a variable, as VarValues writes it. *)
LEMMA SameWords ==
  /\ \A i, v, a : Abstract!Value(i, v, a) = Value(i, v, a)
  /\ \A f, k, v : Abstract!Put(f, k, v) = Put(f, k, v)
  /\ Abstract!NoAttrs = Nothing /\ Abstract!None = Nothing
  /\ \A c, d : Abstract!Earlier(c, d) <=> Earlier(c, d)
  /\ Abstract!Codes = Codes
BY DEF Abstract!Value, Value, Abstract!Put, Put, Abstract!NoAttrs, Abstract!None, Nothing,
       Abstract!Earlier, Earlier, Abstract!Codes, Codes

(* A change of the value of a variable, written as an update of the map of values. *)
LEMMA ValChanges ==
  ASSUME NEW f, IsMap(f), NEW x \in DOMAIN f, NEW i, NEW v, NEW a, f[x] = Value(i, v, a), NEW w
  PROVE  [f EXCEPT ![x].val = w] = Put(f, x, Value(i, w, a))
<1>1. PICK r : r = [f[x] EXCEPT !.val = w]
  OBVIOUS
<1>2. r = Value(i, w, a)
  BY <1>1 DEF Value
<1>3. [f EXCEPT ![x].val = w] = [f EXCEPT ![x] = r]
  BY <1>1
<1>4. [f EXCEPT ![x] = r] = Put(f, x, r)
  BY DEF IsMap, Put
<1> QED
  BY <1>2, <1>3, <1>4

(* A change of its attributes, written so. *)
LEMMA AttrsChange ==
  ASSUME NEW f, IsMap(f), NEW x \in DOMAIN f, NEW i, NEW v, NEW a, f[x] = Value(i, v, a), NEW w
  PROVE  [f EXCEPT ![x].attrs = w] = Put(f, x, Value(i, v, w))
<1>1. PICK r : r = [f[x] EXCEPT !.attrs = w]
  OBVIOUS
<1>2. r = Value(i, v, w)
  BY <1>1 DEF Value
<1>3. [f EXCEPT ![x].attrs = w] = [f EXCEPT ![x] = r]
  BY <1>1
<1>4. [f EXCEPT ![x] = r] = Put(f, x, r)
  BY DEF IsMap, Put
<1> QED
  BY <1>2, <1>3, <1>4

(* A change of two variables, written so. *)
LEMMA TwoChange ==
  ASSUME NEW f, IsMap(f), NEW x, NEW y \in DOMAIN f, x # y, NEW v, NEW w
  PROVE  /\ [Put(f, x, v) EXCEPT ![y] = w] = Put(Put(f, x, v), y, w)
         /\ x \in DOMAIN f => [f EXCEPT ![x] = v, ![y] = w] = Put(Put(f, x, v), y, w)
<1>1. PICK g : g = Put(f, x, v)
  OBVIOUS
<1>2. IsMap(g) /\ y \in DOMAIN g
  BY <1>1 DEF IsMap, Put
<1>3. [g EXCEPT ![y] = w] = Put(g, y, w)
  BY <1>2 DEF IsMap, Put
<1>4. x \in DOMAIN f => [f EXCEPT ![x] = v] = g
  BY <1>1 DEF IsMap, Put
<1> QED
  BY <1>1, <1>3, <1>4

----------------------------------------------------------------------------
(* The memory is good for some lists of attributes. *)
WellMade == \E ch : Good(mem, ch)

(* The inductive invariant: the memory is good for some lists of attributes, and the
   view is that of the memory. *)
Inv == WellMade /\ seen = ViewOf(mem)

(* What is seen of each variable. *)
LEMMA SeenIs ==
  ASSUME Inv
  PROVE  /\ IsMap(seen) /\ DOMAIN seen = There
         /\ \A x \in There :
              /\ x \in Name /\ x \in DOMAIN mem.obj
              /\ seen[x] = Value(InfoOf(mem, x), Held(mem, x), AttrsOf(mem, x))
              /\ seen[x].info = InfoOf(mem, x) /\ seen[x].val = Held(mem, x)
              /\ seen[x].attrs = AttrsOf(mem, x)
<1>1. DOMAIN ViewOf(mem) = There /\ IsMap(ViewOf(mem))
  BY DEF ViewOf, There, IsMap
<1>2. \A x \in There : x \in Name /\ x \in DOMAIN mem.obj
  BY DEF There, IsThere
<1> QED
  BY <1>1, <1>2, ViewIs DEF Inv

----------------------------------------------------------------------------
(* Steps *)

(* A call after which one variable is seen otherwise keeps the invariant. *)
LEMMA BecomesStep ==
  ASSUME Inv, NEW x, NEW v, Becomes(mem, mem', x, v), seen' = ViewOf(mem')
  PROVE  Inv' /\ seen' = Put(seen, x, v)
<1>1. WellMade'
  BY DEF Becomes, WellMade
<1> QED
  BY <1>1 DEF Becomes, Inv

(* A call after which two are seen otherwise keeps the invariant. *)
LEMMA BothStep ==
  ASSUME Inv, NEW x, NEW v, NEW y, NEW w, BothBecome(mem, mem', x, v, y, w),
         seen' = ViewOf(mem')
  PROVE  Inv' /\ seen' = Put(Put(seen, x, v), y, w)
<1>1. WellMade'
  BY DEF BothBecome, WellMade
<1> QED
  BY <1>1 DEF BothBecome, Inv

(* Nothing is allocated at the start. *)
LEMMA InitSound == Init => Inv /\ Abstract!Init
<1> SUFFICES ASSUME Init PROVE Inv /\ Abstract!Init
  OBVIOUS
<1>1. PICK e : e = Nothing
  OBVIOUS
<1>2. DOMAIN e = {} /\ IsMap(e)
  BY <1>1 DEF Nothing, IsMap
<1>3. mem = [obj |-> e, buf |-> e] /\ mem.obj = e /\ mem.buf = e
  BY <1>1 DEF Init
<1>4. Heap(mem)
  BY <1>2, <1>3 DEF Heap, IsMemory, Buffers, Values, TextsOf
<1>5. PICK ch : ch = [x \in Name |-> <<>>]
  OBVIOUS
<1>6. Shape(mem, ch)
  <2>1. \A x \in Name : ch[x] = <<>> /\ SetOf(ch[x]) = {}
    BY <1>5 DEF SetOf
  <2>2. \A x \in Name : Strand(mem, x, <<>>)
    BY <1>2, <1>3 DEF Strand, Rising
  <2>3. ch \in [Name -> Seq(Attr)]
    BY <1>5
  <2> QED BY <1>2, <1>3, <2>1, <2>2, <2>3 DEF Shape
<1>7. Inv
  BY <1>4, <1>6 DEF Inv, WellMade, Good, Init
<1>8. seen = Nothing
  <2>1. DOMAIN ViewOf(mem) = {}
    BY <1>2, <1>3 DEF ViewOf, IsThere
  <2>2. ViewOf(mem) = [x \in DOMAIN ViewOf(mem) |-> ViewOf(mem)[x]]
    BY DEF ViewOf
  <2>3. \A f : DOMAIN f = {} /\ f = [x \in DOMAIN f |-> f[x]] => f = Nothing
    BY DEF Nothing
  <2> QED BY <2>1, <2>2, <2>3 DEF Init
<1> QED
  BY <1>7, <1>8, SameWords DEF Abstract!Init, Init

(* The step lemmas, one per call: the invariant is kept, and the call on the objects is
   the call of the same name on the values.  Var(Varinfo). *)
LEMMA ConstructStep ==
  ASSUME Inv, seen' = ViewOf(mem'), NEW x \in Name, NEW info \in Infos, Construct(x, info)
  PROVE  Inv' /\ Abstract!Construct(x, info)
<1>1. PICK ch : Good(mem, ch)
  BY DEF Inv, WellMade
<1>2. /\ last' = <<"Construct", x, info>> /\ x \notin DOMAIN mem.obj
      /\ mem' = WithObj(mem, x, NewVar(info))
  BY DEF Construct, IsThere, Made
<1>3. Becomes(mem, mem', x, Value(info, Unset, Nothing))
  BY <1>1, <1>2, ConstructIs
<1>4. Inv' /\ seen' = Put(seen, x, Value(info, Unset, Nothing))
  BY <1>3, BecomesStep
<1>5. x \notin DOMAIN seen
  BY <1>2, SeenIs
<1> QED
  BY <1>2, <1>4, <1>5, SameWords DEF Abstract!Construct, Abstract!There, Abstract!Become

(* Var(Varinfo, value), which may throw after the object was made. *)
LEMMA ConstructWithStep ==
  ASSUME Inv, seen' = ViewOf(mem'), NEW x \in Name, NEW info \in Infos,
         NEW call \in Calls[info], ConstructWith(x, info, call)
  PROVE  Inv' /\ Abstract!ConstructWith(x, info, call)
<1>1. PICK ch : Good(mem, ch)
  BY DEF Inv, WellMade
<1>2. /\ last' = <<"ConstructWith", x, info, call>> /\ x \notin DOMAIN mem.obj
  BY DEF ConstructWith, IsThere
<1>3. PICK r \in Outcomes(info, Unset, call) :
        ~ r.raised /\ mem' = Store(WithObj(mem, x, NewVar(info)), x, r.val)
  BY DEF ConstructWith, Made
<1>4. Fits(info, r.val)
  BY OutcomesFit, UnsetFits
<1>5. Becomes(mem, mem', x, Value(info, r.val, Nothing))
  BY <1>1, <1>2, <1>3, <1>4, ConstructWithIs
<1>6. Inv' /\ seen' = Put(seen, x, Value(info, r.val, Nothing))
  BY <1>5, BecomesStep
<1>7. x \notin DOMAIN seen
  BY <1>2, SeenIs
<1>8. Abstract!Become(x, Abstract!Value(info, r.val, Abstract!NoAttrs))
  BY <1>6, SameWords DEF Abstract!Become
<1> QED
  BY <1>2, <1>3, <1>6, <1>7, <1>8 DEF Abstract!ConstructWith, Abstract!There

(* Var(Varinfo, const Var&), with the conversion of units. *)
LEMMA ConstructFromStep ==
  ASSUME Inv, seen' = ViewOf(mem'), NEW x \in Name, NEW info \in Infos,
         NEW y \in There, ConstructFrom(x, info, y)
  PROVE  Inv' /\ Abstract!ConstructFrom(x, info, y)
<1>1. PICK ch : Good(mem, ch)
  BY DEF Inv, WellMade
<1>2. /\ last' = <<"ConstructFrom", x, info, y>> /\ x \notin DOMAIN mem.obj
  BY DEF ConstructFrom, IsThere
<1>3. /\ y \in Name /\ y \in DOMAIN mem.obj
      /\ seen[y].info = InfoOf(mem, y) /\ seen[y].val = Held(mem, y)
      /\ seen[y].attrs = AttrsOf(mem, y)
  BY SeenIs
<1>4. PICK r \in OutcomesFrom(info, Unset, InfoOf(mem, y), Held(mem, y)) :
        /\ ~ r.raised
        /\ mem' = Setattrs(Store(WithObj(mem, x, NewVar(info)), x, r.val), x, y)
  BY DEF ConstructFrom, Made
<1>5. Fits(info, r.val)
  BY <1>1, <1>3, FitsHeld, OutcomesFromFit, UnsetFits
<1>6. Becomes(mem, mem', x, Value(info, r.val, AttrsOf(mem, y)))
  BY <1>1, <1>2, <1>3, <1>4, <1>5, ConstructFromIs
<1>7. Inv' /\ seen' = Put(seen, x, Value(info, r.val, seen[y].attrs))
  BY <1>3, <1>6, BecomesStep
<1>8. x \notin DOMAIN seen
  BY <1>2, SeenIs
<1>9. r \in OutcomesFrom(info, Unset, seen[y].info, seen[y].val)
  BY <1>3
<1>10. Abstract!Become(x, Abstract!Value(info, r.val, seen[y].attrs))
  BY <1>7, SameWords DEF Abstract!Become
<1> QED
  BY <1>2, <1>4, <1>7, <1>8, <1>9, <1>10 DEF Abstract!ConstructFrom, Abstract!There

(* Var(const Var&). *)
LEMMA CopyStep ==
  ASSUME Inv, seen' = ViewOf(mem'), NEW x \in Name, NEW y \in There, Copy(x, y)
  PROVE  Inv' /\ Abstract!Copy(x, y)
<1>1. PICK ch : Good(mem, ch)
  BY DEF Inv, WellMade
<1>2. /\ y \in Name /\ y \in DOMAIN mem.obj
      /\ seen[y] = Value(InfoOf(mem, y), Held(mem, y), AttrsOf(mem, y))
  BY SeenIs
<1>3. /\ last' = <<"Copy", x, y>> /\ x \notin DOMAIN mem.obj
      /\ mem' = Setattrs(Copy_value(WithObj(mem, x, NewVar(InfoOf(mem, y))), x, y), x, y)
  BY DEF Copy, IsThere, Made
<1>4. Becomes(mem, mem', x, seen[y])
  BY <1>1, <1>2, <1>3, CopyIs
<1>5. Inv' /\ seen' = Put(seen, x, seen[y])
  BY <1>4, BecomesStep
<1>6. x \notin DOMAIN seen
  BY <1>3, SeenIs
<1> QED
  BY <1>3, <1>5, <1>6, SameWords DEF Abstract!Copy, Abstract!There, Abstract!Become

(* Var(const Var&), the copy of an attribute that enqa returned. *)
LEMMA CopyAttrStep ==
  ASSUME Inv, seen' = ViewOf(mem'), NEW x \in Name, NEW y \in There, NEW code \in Codes,
         CopyAttr(x, y, code)
  PROVE  Inv' /\ Abstract!CopyAttr(x, y, code)
<1>1. PICK ch : Good(mem, ch)
  BY DEF Inv, WellMade
<1>2. y \in Name /\ y \in DOMAIN mem.obj
  BY SeenIs
<1>3. PICK a : a = Enqa(mem, y, code)
  OBVIOUS
<1>4. /\ last' = <<"CopyAttr", x, y, code>> /\ x \notin DOMAIN mem.obj /\ a # Nil
      /\ mem' = Setattrs(Copy_value(WithObj(mem, x, NewVar(InfoOf(mem, a))), x, a), x, a)
  BY <1>3 DEF CopyAttr, IsThere, Made
<1>5. PICK f : f = AttrsOf(mem, y) /\ f = seen[y].attrs
  BY SeenIs
<1>6. PICK later : later = {c \in DOMAIN f : Earlier(code, c)}
  OBVIOUS
<1>7. /\ code \in DOMAIN f /\ f[code] = View(mem, a)
      /\ Becomes(mem, mem', x,
                 Value(InfoOf(mem, a), Held(mem, a), Abstract!Only(f, later)))
  <2>1. /\ code \in DOMAIN AttrsOf(mem, y) /\ AttrsOf(mem, y)[code] = View(mem, a)
        /\ Becomes(mem, mem', x, Value(InfoOf(mem, a), Held(mem, a),
             Abstract!Only(AttrsOf(mem, y), {c \in DOMAIN AttrsOf(mem, y) : Earlier(code, c)})))
    BY <1>1, <1>2, <1>3, <1>4, CopyAttrIs
  <2> QED BY <2>1, <1>5, <1>6, Zenon
<1>8. f[code].info = InfoOf(mem, a) /\ f[code].val = Held(mem, a)
  BY <1>7 DEF View
<1>9. /\ Inv'
      /\ seen' = Put(seen, x, Value(f[code].info, f[code].val, Abstract!Only(f, later)))
  BY <1>7, <1>8, BecomesStep
<1>10. x \notin DOMAIN seen
  BY <1>4, SeenIs
<1>11. later = {c \in DOMAIN f : Abstract!Earlier(code, c)}
  BY <1>6, SameWords
<1>12. Abstract!Become(x, Abstract!Value(f[code].info, f[code].val, Abstract!Only(f, later)))
  BY <1>9, SameWords DEF Abstract!Become
<1> QED
  BY <1>4, <1>5, <1>7, <1>9, <1>10, <1>11, <1>12 DEF Abstract!CopyAttr, Abstract!There

(* Var(Var&&): the source is left unset, without attributes. *)
LEMMA MoveStep ==
  ASSUME Inv, seen' = ViewOf(mem'), NEW x \in Name, NEW y \in There, Move(x, y)
  PROVE  Inv' /\ Abstract!Move(x, y)
<1>1. PICK ch : Good(mem, ch)
  BY DEF Inv, WellMade
<1>2. /\ y \in Name /\ y \in DOMAIN mem.obj /\ y \in DOMAIN seen /\ IsMap(seen)
      /\ seen[y] = Value(InfoOf(mem, y), Held(mem, y), AttrsOf(mem, y))
      /\ seen[y].info = InfoOf(mem, y)
  BY SeenIs
<1>3. PICK v : v = Move_value(WithObj(mem, x, NewVar(InfoOf(mem, y))), x, y)
  OBVIOUS
<1>4. /\ last' = <<"Move", x, y>> /\ x \notin DOMAIN mem.obj
      /\ mem' = Link(Link(v, x, mem.obj[y].next), y, Nil)
  BY <1>3 DEF Move, IsThere, Made
<1>5. BothBecome(mem, mem', x, seen[y], y, Value(seen[y].info, Unset, Nothing))
  BY <1>1, <1>2, <1>3, <1>4, MoveIs
<1>6. Inv' /\ seen' = Put(Put(seen, x, seen[y]), y, Value(seen[y].info, Unset, Nothing))
  BY <1>5, BothStep
<1>7. x \notin DOMAIN seen /\ x # y
  BY <1>2, <1>4, SeenIs
<1>8. seen' = [Put(seen, x, seen[y]) EXCEPT ![y] = Value(seen[y].info, Unset, Nothing)]
  BY <1>2, <1>6, <1>7, TwoChange
<1> QED
  BY <1>4, <1>6, <1>7, <1>8, SameWords DEF Abstract!Move, Abstract!There

(* What the step of an assignment leaves to be seen. *)
Assigned == seen' = IF broken' THEN seen ELSE ViewOf(mem')

(* Until an assignment breaks the memory, the invariant holds. *)
Kept == IF broken THEN Misassigned ELSE Inv

(* Where a copy does not fit, the values may tell. *)
LEMMA CopyTells ==
  ASSUME Inv, NEW x \in There, NEW y \in There, ~ CopyFits(x, y)
  PROVE  Abstract!CopyMayBreak(seen[x], seen[y])
<1>1. /\ x \in DOMAIN mem.obj /\ y \in DOMAIN mem.obj
      /\ seen[x].info = InfoOf(mem, x) /\ seen[y].info = InfoOf(mem, y)
  BY SeenIs
<1>2. PICK old, new : old = InfoOf(mem, x) /\ new = InfoOf(mem, y)
  OBVIOUS
<1>3. SUFFICES ASSUME IsText(old.type) <=> IsText(new.type)
               PROVE  IsText(new.type) /\ old.len < new.len
  BY <1>1, <1>2, Zenon DEF Abstract!CopyMayBreak, Abstract!SameKind
<1>4. IsText(new.type) /\ IsText(old.type)
  BY <1>2, <1>3 DEF CopyFits
<1>5. PICK p : p = mem.obj[x].slot /\ p = Pointer(mem, x)
  BY <1>2, <1>4 DEF Pointer
<1>6. p # Nil /\ ~ (p \in DOMAIN mem.buf /\ mem.buf[p].cap >= new.len)
  BY <1>2, <1>4, <1>5 DEF CopyFits
<1>7. x \in TextsOf(mem)
  BY <1>1, <1>2, <1>4 DEF TextsOf, InfoOf
<1>8. p \in DOMAIN mem.buf /\ LongEnough(mem.buf[p], old)
  BY <1>2, <1>5, <1>6, <1>7 DEF Inv, WellMade, Good, Heap, Buffers, InfoOf
<1>9. old.len \in Nat /\ new.len \in Nat
  BY <1>1, <1>2, InfosAssumption DEF Inv, WellMade, Good, Heap, IsMemory, IsObject, InfoOf
<1> QED
  BY <1>4, <1>6, <1>8, <1>9 DEF LongEnough

(* Where a move does not fit, the values may tell. *)
LEMMA MoveTells ==
  ASSUME Inv, NEW x \in There, NEW y \in There, ~ MoveFits(x, y)
  PROVE  Abstract!MoveMayBreak(seen[x], seen[y])
<1>1. /\ x \in DOMAIN mem.obj /\ y \in DOMAIN mem.obj
      /\ seen[x].info = InfoOf(mem, x) /\ seen[y].info = InfoOf(mem, y)
      /\ seen[y].val = Held(mem, y)
  BY SeenIs
<1>2. PICK old, new, val : old = InfoOf(mem, x) /\ new = InfoOf(mem, y) /\ val = Held(mem, y)
  OBVIOUS
<1>3. mem.obj[y].isset /\ val # Unset
  BY <1>1, <1>2 DEF MoveFits, Inv, WellMade, Good, Heap, Values
<1>4. SUFFICES ASSUME IsText(old.type) <=> IsText(new.type), Holds(old, val),
                      ~ (old.type = "String" /\ new.type = "Binary")
               PROVE  IsText(old.type) /\ new.len < old.len
  BY <1>1, <1>2, <1>3, Zenon DEF Abstract!MoveMayBreak, Abstract!SameKind
<1>5. PICK p : p = mem.obj[y].slot
  OBVIOUS
<1>6. IsText(old.type) /\ ~ mem.buf[p].cap >= old.len
  BY <1>2, <1>4, <1>5 DEF MoveFits, IsText
<1>7. y \in TextsOf(mem)
  BY <1>1, <1>2, <1>4, <1>6 DEF TextsOf, InfoOf
<1>8. LongEnough(mem.buf[p], new)
  BY <1>2, <1>3, <1>5, <1>7 DEF Inv, WellMade, Good, Heap, Buffers, InfoOf
<1>9. old.len \in Nat /\ new.len \in Nat
  BY <1>1, <1>2, InfosAssumption DEF Inv, WellMade, Good, Heap, IsMemory, IsObject, InfoOf
<1> QED
  BY <1>6, <1>8, <1>9 DEF LongEnough

(* operator=(const Var&). *)
LEMMA AssignStep ==
  ASSUME Inv, Assigned, NEW x \in There, NEW y \in There, Assign(x, y)
  PROVE  Kept' /\ Abstract!Assign(x, y)
<1>1. PICK ch : Good(mem, ch)
  BY DEF Inv, WellMade
<1>2. /\ x \in Name /\ x \in DOMAIN mem.obj /\ y \in Name /\ y \in DOMAIN mem.obj
      /\ x \in DOMAIN seen /\ y \in DOMAIN seen
      /\ seen[x].info = InfoOf(mem, x) /\ seen[y].info = InfoOf(mem, y)
      /\ seen[y] = Value(InfoOf(mem, y), Held(mem, y), AttrsOf(mem, y))
  BY SeenIs
<1>3. /\ last' = <<"Assign", x, y>> /\ x # y
      /\ mem' = Setattrs(Copy_value(Retyped(mem, x, InfoOf(mem, y)), x, y), x, y)
      /\ broken' = ~ CopyFits(x, y)
  BY DEF Assign
<1>4. CASE CopyFits(x, y)
  <2>1. broken' = FALSE /\ seen' = ViewOf(mem')
    BY <1>3, <1>4 DEF Assigned
  <2>2. Ready(mem, x, InfoOf(mem, y))
    BY <1>4 DEF CopyFits, Ready
  <2>3. Becomes(mem, mem', x, seen[y])
    BY <1>1, <1>2, <1>3, <2>2, AssignIs
  <2>4. Inv' /\ seen' = Put(seen, x, seen[y])
    BY <2>1, <2>3, BecomesStep
  <2>5. Abstract!Assign(x, y)
    BY <1>2, <1>3, <2>1, <2>4, SameWords DEF Abstract!Assign, Abstract!Become
  <2> QED BY <2>1, <2>4, <2>5 DEF Kept
<1>5. CASE ~ CopyFits(x, y)
  <2>1. broken' = TRUE /\ seen' = seen
    BY <1>3, <1>5 DEF Assigned
  <2>2. Abstract!CopyMayBreak(seen[x], seen[y])
    BY <1>5, CopyTells
  <2>3. Abstract!Assign(x, y)
    BY <1>3, <2>1, <2>2 DEF Abstract!Assign
  <2>4. Misassigned'
    BY <1>2, <1>3, <2>1, <2>2, Zenon DEF Misassigned, Abstract!CopyMayBreak, Abstract!SameKind
  <2> QED BY <2>1, <2>3, <2>4 DEF Kept
<1> QED
  BY <1>4, <1>5

(* operator=(Var&&). *)
LEMMA MoveAssignStep ==
  ASSUME Inv, Assigned, NEW x \in There, NEW y \in There, MoveAssign(x, y)
  PROVE  Kept' /\ Abstract!MoveAssign(x, y)
<1>1. PICK ch : Good(mem, ch)
  BY DEF Inv, WellMade
<1>2. /\ x \in Name /\ x \in DOMAIN mem.obj /\ y \in Name /\ y \in DOMAIN mem.obj
      /\ x \in DOMAIN seen /\ y \in DOMAIN seen /\ IsMap(seen)
      /\ seen[x].info = InfoOf(mem, x) /\ seen[y].info = InfoOf(mem, y)
      /\ seen[y].val = Held(mem, y) /\ seen[y].attrs = AttrsOf(mem, y)
  BY SeenIs
<1>3. PICK w : w = Clear_attrs(Move_value(mem, x, y), x)
  OBVIOUS
<1>4. /\ last' = <<"MoveAssign", x, y>> /\ x # y
      /\ mem' = Link(Link(w, x, mem.obj[y].next), y, Nil)
      /\ broken' = ~ MoveFits(x, y)
  BY <1>3 DEF MoveAssign
<1>5. CASE MoveFits(x, y)
  <2>1. broken' = FALSE /\ seen' = ViewOf(mem')
    BY <1>4, <1>5 DEF Assigned
  <2>2. Takes(mem, x, y)
    <3> SUFFICES ASSUME mem.obj[y].isset
                 PROVE  /\ x \in TextsOf(mem) <=> y \in TextsOf(mem)
                        /\ Fits(InfoOf(mem, x), Held(mem, y))
                        /\ y \in TextsOf(mem) =>
                             LongEnough(mem.buf[mem.obj[y].slot], mem.obj[x].info)
      BY DEF Takes
    <3>1. x \in TextsOf(mem) <=> y \in TextsOf(mem)
      BY <1>2, <1>5 DEF MoveFits, TextsOf, InfoOf
    <3>2. Holds(InfoOf(mem, x), Held(mem, y))
      BY <1>5 DEF MoveFits
    <3>3. Fits(InfoOf(mem, x), Held(mem, y))
      <4>1. Fits(InfoOf(mem, y), Held(mem, y))
        BY <1>1, <1>2, FitsHeld
      <4> QED BY <1>2, <3>1, <3>2, <4>1 DEF Fits, TextsOf, InfoOf
    <3>4. ASSUME y \in TextsOf(mem)
          PROVE  LongEnough(mem.buf[mem.obj[y].slot], mem.obj[x].info)
      <4>1. mem.buf[mem.obj[y].slot].cap >= mem.obj[x].info.len
        BY <1>2, <1>5, <3>1, <3>4 DEF MoveFits, TextsOf, InfoOf
      <4>2. mem.buf[mem.obj[y].slot].cap \in Nat
        BY <1>1, <3>4 DEF Good, Heap, Buffers, LongEnough
      <4> QED BY <4>1, <4>2 DEF LongEnough
    <3> QED BY <3>1, <3>3, <3>4
  <2>3. PICK v, u : /\ v = Value(seen[x].info, seen[y].val, seen[y].attrs)
                    /\ u = Value(seen[y].info, Unset, Nothing)
    OBVIOUS
  <2>4. BothBecome(mem, mem', x, v, y, u)
    BY <1>1, <1>2, <1>3, <1>4, <2>2, <2>3, MoveAssignIs
  <2>5. Inv' /\ seen' = Put(Put(seen, x, v), y, u)
    BY <2>1, <2>4, BothStep
  <2>6. seen' = [seen EXCEPT ![x] = v, ![y] = u]
    BY <1>2, <1>4, <2>5, TwoChange
  <2>7. Abstract!MoveAssign(x, y)
    BY <1>4, <2>1, <2>3, <2>6, SameWords DEF Abstract!MoveAssign
  <2> QED BY <2>1, <2>5, <2>7 DEF Kept
<1>6. CASE ~ MoveFits(x, y)
  <2>1. broken' = TRUE /\ seen' = seen
    BY <1>4, <1>6 DEF Assigned
  <2>2. Abstract!MoveMayBreak(seen[x], seen[y])
    BY <1>6, MoveTells
  <2>3. Abstract!MoveAssign(x, y)
    BY <1>4, <2>1, <2>2 DEF Abstract!MoveAssign
  <2>4. Misassigned'
    BY <1>2, <1>4, <2>1, <2>2, Zenon DEF Misassigned, Abstract!MoveMayBreak, Abstract!SameKind
  <2> QED BY <2>1, <2>3, <2>4 DEF Kept
<1> QED
  BY <1>5, <1>6

(* ~Var. *)
LEMMA DestroyStep ==
  ASSUME Inv, seen' = ViewOf(mem'), NEW x \in There, Destroy(x)
  PROVE  Inv' /\ Abstract!Destroy(x)
<1>1. PICK ch : Good(mem, ch)
  BY DEF Inv, WellMade
<1>2. x \in Name /\ x \in DOMAIN mem.obj /\ seen = ViewOf(mem)
  BY SeenIs DEF Inv
<1>3. last' = <<"Destroy", x>> /\ mem' = Destructed(mem, x)
  BY DEF Destroy
<1>4. /\ \E g : Good(mem', g)
      /\ ViewOf(mem') = Abstract!Only(ViewOf(mem), DOMAIN ViewOf(mem) \ {x})
  BY <1>1, <1>2, <1>3, DestructedSound
<1>5. Inv'
  BY <1>4 DEF Inv, WellMade
<1> QED
  BY <1>2, <1>3, <1>4, <1>5 DEF Abstract!Destroy, Abstract!There

(* seti, setd, setc, sets, setf: whatever the outcome, the attributes stay. *)
LEMMA SetStep ==
  ASSUME Inv, seen' = ViewOf(mem'), NEW x \in There, NEW call \in Calls[InfoOf(mem, x)],
         Set(x, call)
  PROVE  Inv' /\ Abstract!Set(x, call)
<1>1. PICK ch : Good(mem, ch)
  BY DEF Inv, WellMade
<1>2. /\ x \in Name /\ x \in DOMAIN mem.obj /\ x \in DOMAIN seen /\ IsMap(seen)
      /\ seen[x] = Value(InfoOf(mem, x), Held(mem, x), AttrsOf(mem, x))
      /\ seen[x].info = InfoOf(mem, x) /\ seen[x].val = Held(mem, x)
  BY SeenIs
<1>3. PICK r \in Outcomes(InfoOf(mem, x), Held(mem, x), call) : mem' = Store(mem, x, r.val)
  BY DEF Set, Results
<1>4. Fits(InfoOf(mem, x), r.val)
  <2>1. PICK info, val : info = InfoOf(mem, x) /\ val = Held(mem, x)
    OBVIOUS
  <2>2. info \in Infos /\ Fits(info, val)
    BY <1>1, <1>2, <2>1, FitsHeld
  <2>3. call \in Calls[info] /\ r \in Outcomes(info, val, call)
    BY <2>1
  <2>4. Fits(info, r.val)
    BY <2>2, <2>3, OutcomesFit
  <2> QED BY <2>1, <2>4
<1>5. Becomes(mem, mem', x, Value(InfoOf(mem, x), r.val, AttrsOf(mem, x)))
  BY <1>1, <1>2, <1>3, <1>4, SetIs
<1>6. Inv' /\ seen' = Put(seen, x, Value(InfoOf(mem, x), r.val, AttrsOf(mem, x)))
  BY <1>5, BecomesStep
<1>7. seen' = [seen EXCEPT ![x].val = r.val]
  BY <1>2, <1>6, ValChanges
<1>8. r \in Outcomes(seen[x].info, seen[x].val, call)
  BY <1>2
<1> QED
  BY <1>6, <1>7, <1>8 DEF Abstract!Set, Set

(* The outcomes of setting one from another fit. *)
LEMMA FromFits ==
  ASSUME NEW m, NEW ch, Good(m, ch), NEW x \in DOMAIN m.obj, NEW y \in DOMAIN m.obj,
         NEW r \in OutcomesFrom(InfoOf(m, x), Held(m, x), InfoOf(m, y), Held(m, y))
  PROVE  Fits(InfoOf(m, x), r.val)
<1>1. PICK info, val, from, w : /\ info = InfoOf(m, x) /\ val = Held(m, x)
                                /\ from = InfoOf(m, y) /\ w = Held(m, y)
  OBVIOUS
<1>2. info \in Infos /\ Fits(info, val) /\ from \in Infos /\ Fits(from, w)
  BY <1>1, FitsHeld
<1>3. r \in OutcomesFrom(info, val, from, w)
  BY <1>1
<1>4. Fits(info, r.val)
  BY <1>2, <1>3, OutcomesFromFit
<1> QED
  BY <1>1, <1>4

(* setval. *)
LEMMA SetFromStep ==
  ASSUME Inv, seen' = ViewOf(mem'), NEW x \in There, NEW y \in There, SetFrom(x, y)
  PROVE  Inv' /\ Abstract!SetFrom(x, y)
<1>1. PICK ch : Good(mem, ch)
  BY DEF Inv, WellMade
<1>2. /\ x \in Name /\ x \in DOMAIN mem.obj /\ x \in DOMAIN seen /\ IsMap(seen)
      /\ seen[x] = Value(InfoOf(mem, x), Held(mem, x), AttrsOf(mem, x))
      /\ seen[x].info = InfoOf(mem, x) /\ seen[x].val = Held(mem, x)
      /\ y \in DOMAIN mem.obj
      /\ seen[y].info = InfoOf(mem, y) /\ seen[y].val = Held(mem, y)
  BY SeenIs
<1>3. PICK r \in OutcomesFrom(InfoOf(mem, x), Held(mem, x), InfoOf(mem, y), Held(mem, y)) :
        mem' = Store(mem, x, r.val)
  BY DEF SetFrom, ResultsFrom
<1>4. Fits(InfoOf(mem, x), r.val)
  BY <1>1, <1>2, FromFits
<1>5. Becomes(mem, mem', x, Value(InfoOf(mem, x), r.val, AttrsOf(mem, x)))
  BY <1>1, <1>2, <1>3, <1>4, SetIs
<1>6. Inv' /\ seen' = Put(seen, x, Value(InfoOf(mem, x), r.val, AttrsOf(mem, x)))
  BY <1>5, BecomesStep
<1>7. seen' = [seen EXCEPT ![x].val = r.val]
  BY <1>2, <1>6, ValChanges
<1>8. r \in OutcomesFrom(seen[x].info, seen[x].val, seen[y].info, seen[y].val)
  BY <1>2
<1> QED
  BY <1>6, <1>7, <1>8 DEF Abstract!SetFrom, SetFrom

(* set(const Var&): the attributes are copied unless the value was refused. *)
LEMMA SetAllStep ==
  ASSUME Inv, seen' = ViewOf(mem'), NEW x \in There, NEW y \in There, SetAll(x, y)
  PROVE  Inv' /\ Abstract!SetAll(x, y)
<1>1. PICK ch : Good(mem, ch)
  BY DEF Inv, WellMade
<1>2. /\ x \in Name /\ x \in DOMAIN mem.obj /\ x \in DOMAIN seen /\ IsMap(seen)
      /\ seen[x] = Value(InfoOf(mem, x), Held(mem, x), AttrsOf(mem, x))
      /\ seen[x].info = InfoOf(mem, x) /\ seen[x].val = Held(mem, x)
      /\ y \in Name /\ y \in DOMAIN mem.obj
      /\ seen[y].info = InfoOf(mem, y) /\ seen[y].val = Held(mem, y)
      /\ seen[y].attrs = AttrsOf(mem, y)
  BY SeenIs
<1>3. PICK r \in OutcomesFrom(InfoOf(mem, x), Held(mem, x), InfoOf(mem, y), Held(mem, y)) :
        mem' = IF r.raised THEN Store(mem, x, r.val)
               ELSE Setattrs(Store(mem, x, r.val), x, y)
  BY DEF SetAll, ResultsFrom
<1>4. Fits(InfoOf(mem, x), r.val)
  BY <1>1, <1>2, FromFits
<1>5. PICK b : b = Abstract!AttrsFor(x, y)
  OBVIOUS
<1>6. b = IF x = y THEN Nothing ELSE AttrsOf(mem, y)
  BY <1>2, <1>5, SameWords DEF Abstract!AttrsFor
<1>7. Becomes(mem, mem', x,
              Value(InfoOf(mem, x), r.val, IF r.raised THEN AttrsOf(mem, x) ELSE b))
  <2>1. CASE r.raised
    <3>1. mem' = Store(mem, x, r.val)
      BY <1>3, <2>1
    <3>2. Becomes(mem, mem', x, Value(InfoOf(mem, x), r.val, AttrsOf(mem, x)))
      BY <3>1, <1>1, <1>2, <1>4, SetIs
    <3>3. (IF r.raised THEN AttrsOf(mem, x) ELSE b) = AttrsOf(mem, x)
      BY <2>1
    <3> QED BY <3>2, <3>3
  <2>2. CASE ~ r.raised
    <3>1. mem' = Setattrs(Store(mem, x, r.val), x, y)
      BY <1>3, <2>2
    <3>2. Becomes(mem, mem', x, Value(InfoOf(mem, x), r.val, b))
      BY <3>1, <1>1, <1>2, <1>4, <1>6, SetAllIs
    <3>3. (IF r.raised THEN AttrsOf(mem, x) ELSE b) = b
      BY <2>2
    <3> QED BY <3>2, <3>3
  <2> QED BY <2>1, <2>2
<1>8. Inv' /\ seen' = Put(seen, x, Value(InfoOf(mem, x), r.val,
                                         IF r.raised THEN AttrsOf(mem, x) ELSE b))
  BY <1>7, BecomesStep
<1>9. seen' = [seen EXCEPT ![x].val = r.val,
                           ![x].attrs = IF r.raised THEN @ ELSE Abstract!AttrsFor(x, y)]
  <2>1. PICK i, v, a, w, g : /\ i = InfoOf(mem, x) /\ v = Held(mem, x)
                             /\ a = AttrsOf(mem, x) /\ w = r.val
                             /\ g = [seen EXCEPT ![x].val = w]
    OBVIOUS
  <2>2. g = Put(seen, x, Value(i, w, a))
    <3>1. IsMap(seen) /\ x \in DOMAIN seen /\ seen[x] = Value(i, v, a)
      BY <1>2, <2>1
    <3>2. [seen EXCEPT ![x].val = w] = Put(seen, x, Value(i, w, a))
      BY <3>1, ValChanges
    <3> QED BY <2>1, <3>2
  <2>3. IsMap(g) /\ x \in DOMAIN g /\ g[x] = Value(i, w, a)
    BY <2>2 DEF Put, IsMap
  <2>4. g[x].attrs = a
    BY <2>3 DEF Value
  <2>5. PICK c : c = IF r.raised THEN a ELSE b
    OBVIOUS
  <2>6. [g EXCEPT ![x].attrs = c] = Put(g, x, Value(i, w, c))
    BY <2>3, AttrsChange
  <2>7. [g EXCEPT ![x].attrs = IF r.raised THEN @ ELSE b] = [g EXCEPT ![x].attrs = c]
    BY <2>4, <2>5
  <2>8. [seen EXCEPT ![x].val = w, ![x].attrs = IF r.raised THEN @ ELSE b]
          = [g EXCEPT ![x].attrs = IF r.raised THEN @ ELSE b]
    BY <2>1
  <2>9. Put(g, x, Value(i, w, c)) = Put(seen, x, Value(i, w, c))
    BY <2>2, PutTwice
  <2>10. seen' = Put(seen, x, Value(i, w, c))
    BY <1>8, <2>1, <2>5
  <2> QED BY <1>5, <2>1, <2>6, <2>7, <2>8, <2>9, <2>10
<1>10. r \in OutcomesFrom(seen[x].info, seen[x].val, seen[y].info, seen[y].val)
  BY <1>2
<1> QED
  BY <1>8, <1>9, <1>10 DEF Abstract!SetAll, SetAll

(* setattrs. *)
LEMMA SetAttrsStep ==
  ASSUME Inv, seen' = ViewOf(mem'), NEW x \in There, NEW y \in There, SetAttrs(x, y)
  PROVE  Inv' /\ Abstract!SetAttrs(x, y)
<1>1. PICK ch : Good(mem, ch)
  BY DEF Inv, WellMade
<1>2. /\ x \in Name /\ x \in DOMAIN mem.obj /\ x \in DOMAIN seen /\ IsMap(seen)
      /\ seen[x] = Value(InfoOf(mem, x), Held(mem, x), AttrsOf(mem, x))
      /\ y \in Name /\ y \in DOMAIN mem.obj /\ seen[y].attrs = AttrsOf(mem, y)
  BY SeenIs
<1>3. PICK b : b = Abstract!AttrsFor(x, y)
  OBVIOUS
<1>4. b = IF x = y THEN Nothing ELSE AttrsOf(mem, y)
  BY <1>2, <1>3, SameWords DEF Abstract!AttrsFor
<1>5. Becomes(mem, mem', x, Value(InfoOf(mem, x), Held(mem, x), b))
  BY <1>1, <1>2, <1>4, SetAttrsIs DEF SetAttrs
<1>6. Inv' /\ seen' = Put(seen, x, Value(InfoOf(mem, x), Held(mem, x), b))
  BY <1>5, BecomesStep
<1>7. seen' = [seen EXCEPT ![x].attrs = b]
  BY <1>2, <1>6, AttrsChange
<1> QED
  BY <1>3, <1>6, <1>7 DEF Abstract!SetAttrs, SetAttrs

(* unset. *)
LEMMA UnsettingStep ==
  ASSUME Inv, seen' = ViewOf(mem'), NEW x \in There, Unsetting(x)
  PROVE  Inv' /\ Abstract!Unsetting(x)
<1>1. PICK ch : Good(mem, ch)
  BY DEF Inv, WellMade
<1>2. /\ x \in Name /\ x \in DOMAIN mem.obj /\ x \in DOMAIN seen /\ IsMap(seen)
      /\ seen[x] = Value(InfoOf(mem, x), Held(mem, x), AttrsOf(mem, x))
  BY SeenIs
<1>3. Becomes(mem, mem', x, Value(InfoOf(mem, x), Unset, AttrsOf(mem, x)))
  BY <1>1, <1>2, UnsettingIs DEF Unsetting
<1>4. Inv' /\ seen' = Put(seen, x, Value(InfoOf(mem, x), Unset, AttrsOf(mem, x)))
  BY <1>3, BecomesStep
<1>5. seen' = [seen EXCEPT ![x].val = Unset]
  BY <1>2, <1>4, ValChanges
<1> QED
  BY <1>4, <1>5 DEF Abstract!Unsetting, Unsetting

(* clear_attrs. *)
LEMMA ClearAttrsStep ==
  ASSUME Inv, seen' = ViewOf(mem'), NEW x \in There, ClearAttrs(x)
  PROVE  Inv' /\ Abstract!ClearAttrs(x)
<1>1. PICK ch : Good(mem, ch)
  BY DEF Inv, WellMade
<1>2. /\ x \in Name /\ x \in DOMAIN mem.obj /\ x \in DOMAIN seen /\ IsMap(seen)
      /\ seen[x] = Value(InfoOf(mem, x), Held(mem, x), AttrsOf(mem, x))
  BY SeenIs
<1>3. Becomes(mem, mem', x, Value(InfoOf(mem, x), Held(mem, x), Nothing))
  BY <1>1, <1>2, ClearAttrsIs DEF ClearAttrs
<1>4. Inv' /\ seen' = Put(seen, x, Value(InfoOf(mem, x), Held(mem, x), Nothing))
  BY <1>3, BecomesStep
<1>5. seen' = [seen EXCEPT ![x].attrs = Nothing]
  BY <1>2, <1>4, AttrsChange
<1> QED
  BY <1>4, <1>5, SameWords DEF Abstract!ClearAttrs, ClearAttrs

(* seta. *)
LEMMA SetAStep ==
  ASSUME Inv, seen' = ViewOf(mem'), NEW x \in There, NEW y \in There, SetA(x, y)
  PROVE  Inv' /\ Abstract!SetA(x, y)
<1>1. PICK ch : Good(mem, ch)
  BY DEF Inv, WellMade
<1>2. /\ x \in Name /\ x \in DOMAIN mem.obj /\ x \in DOMAIN seen /\ IsMap(seen)
      /\ seen[x] = Value(InfoOf(mem, x), Held(mem, x), AttrsOf(mem, x))
      /\ seen[x].attrs = AttrsOf(mem, x)
      /\ y \in Name /\ y \in DOMAIN mem.obj
      /\ seen[y].info = InfoOf(mem, y) /\ seen[y].val = Held(mem, y)
  BY SeenIs
<1>3. InfoOf(mem, y) \in Attributes /\ mem' = Seta(mem, x, y)
  BY DEF SetA
<1>4. /\ Abstract!Bare(seen[y]) = View(mem, y)
      /\ seen[y].info.code = CodeOf(mem, y)
  BY <1>2 DEF Abstract!Bare, View, CodeOf, InfoOf
<1>5. PICK b : b = Put(AttrsOf(mem, x), CodeOf(mem, y), View(mem, y))
  OBVIOUS
<1>6. Becomes(mem, mem', x, Value(InfoOf(mem, x), Held(mem, x), b))
  BY <1>1, <1>2, <1>3, <1>5, SetAIs
<1>7. Inv' /\ seen' = Put(seen, x, Value(InfoOf(mem, x), Held(mem, x), b))
  BY <1>6, BecomesStep
<1>8. b = Abstract!Put(seen[x].attrs, seen[y].info.code, Abstract!Bare(seen[y]))
  BY <1>2, <1>4, <1>5, SameWords
<1>9. seen' = [seen EXCEPT ![x].attrs = b]
  BY <1>2, <1>7, AttrsChange
<1>10. seen' = [seen EXCEPT ![x].attrs
                  = Abstract!Put(@, seen[y].info.code, Abstract!Bare(seen[y]))]
  BY <1>8, <1>9
<1> QED
  BY <1>2, <1>3, <1>7, <1>10 DEF Abstract!SetA, SetA

(* unseta. *)
LEMMA UnsetAStep ==
  ASSUME Inv, seen' = ViewOf(mem'), NEW x \in There, NEW code \in Codes, UnsetA(x, code)
  PROVE  Inv' /\ Abstract!UnsetA(x, code)
<1>1. PICK ch : Good(mem, ch)
  BY DEF Inv, WellMade
<1>2. /\ x \in Name /\ x \in DOMAIN mem.obj /\ x \in DOMAIN seen /\ IsMap(seen)
      /\ seen[x] = Value(InfoOf(mem, x), Held(mem, x), AttrsOf(mem, x))
      /\ seen[x].attrs = AttrsOf(mem, x)
  BY SeenIs
<1>3. PICK b : b = Abstract!Only(AttrsOf(mem, x), DOMAIN AttrsOf(mem, x) \ {code})
  OBVIOUS
<1>4. Becomes(mem, mem', x, Value(InfoOf(mem, x), Held(mem, x), b))
  BY <1>1, <1>2, <1>3, UnsetAIs DEF UnsetA
<1>5. Inv' /\ seen' = Put(seen, x, Value(InfoOf(mem, x), Held(mem, x), b))
  BY <1>4, BecomesStep
<1>6. seen' = [seen EXCEPT ![x].attrs = b]
  BY <1>2, <1>5, AttrsChange
<1>7. b = Abstract!Only(seen[x].attrs, DOMAIN seen[x].attrs \ {code})
  BY <1>2, <1>3
<1>8. seen' = [seen EXCEPT ![x].attrs = Abstract!Only(@, DOMAIN @ \ {code})]
  BY <1>6, <1>7
<1> QED
  BY <1>5, <1>8 DEF Abstract!UnsetA, UnsetA

(* Every call of the program is one of the abstract variables. *)
LEMMA CallSound ==
  ASSUME Inv, Call, seen' = ViewOf(mem')
  PROVE  Inv' /\ Abstract!Call
<1>1. /\ \A x : x \in There <=> x \in Abstract!There
      /\ \A x \in There : x \in Name /\ seen[x].info = InfoOf(mem, x)
  BY SeenIs DEF Abstract!There
<1>2. ASSUME NEW x \in Name, NEW info \in Infos, Construct(x, info)
      PROVE  Inv' /\ Abstract!Construct(x, info)
  BY <1>2, ConstructStep
<1>3. ASSUME NEW x \in Name, NEW info \in Infos, NEW call \in Calls[info],
             ConstructWith(x, info, call)
      PROVE  Inv' /\ Abstract!ConstructWith(x, info, call)
  BY <1>3, ConstructWithStep
<1>4. ASSUME NEW x \in Name, NEW info \in Infos, NEW y \in There, ConstructFrom(x, info, y)
      PROVE  Inv' /\ Abstract!ConstructFrom(x, info, y)
  BY <1>4, ConstructFromStep
<1>5. CASE \E x \in Name, info \in Infos :
             \/ Construct(x, info)
             \/ \E call \in Calls[info] : ConstructWith(x, info, call)
             \/ \E y \in There : ConstructFrom(x, info, y)
  BY <1>1, <1>2, <1>3, <1>4, <1>5, Zenon DEF Abstract!Call
<1>6. CASE \E x \in Name, y \in There : Copy(x, y) \/ Move(x, y)
  BY <1>1, <1>6, CopyStep, MoveStep DEF Abstract!Call
<1>7. CASE \E x \in Name, y \in There, code \in Codes : CopyAttr(x, y, code)
  BY <1>1, <1>7, CopyAttrStep, SameWords DEF Abstract!Call
<1>8. ASSUME NEW x \in There, NEW y \in There
      PROVE  /\ SetAttrs(x, y) => Inv' /\ Abstract!SetAttrs(x, y)
             /\ SetA(x, y) => Inv' /\ Abstract!SetA(x, y)
             /\ SetFrom(x, y) => Inv' /\ Abstract!SetFrom(x, y)
             /\ SetAll(x, y) => Inv' /\ Abstract!SetAll(x, y)
  BY SetAttrsStep, SetAStep, SetFromStep, SetAllStep
<1>9. CASE \E x, y \in There :
             \/ SetAttrs(x, y) \/ SetA(x, y) \/ SetFrom(x, y) \/ SetAll(x, y)
  BY <1>1, <1>8, <1>9, Zenon DEF Abstract!Call
<1>10. ASSUME NEW x \in There
       PROVE  /\ Destroy(x) => Inv' /\ Abstract!Destroy(x)
              /\ Unsetting(x) => Inv' /\ Abstract!Unsetting(x)
              /\ ClearAttrs(x) => Inv' /\ Abstract!ClearAttrs(x)
              /\ \A code \in Codes : UnsetA(x, code) => Inv' /\ Abstract!UnsetA(x, code)
              /\ \A call \in Calls[InfoOf(mem, x)] :
                   Set(x, call) => Inv' /\ Abstract!Set(x, call)
  BY DestroyStep, UnsettingStep, ClearAttrsStep, UnsetAStep, SetStep
<1>11. CASE \E x \in There :
              \/ Destroy(x) \/ Unsetting(x) \/ ClearAttrs(x)
              \/ \E code \in Codes : UnsetA(x, code)
              \/ \E call \in Calls[InfoOf(mem, x)] : Set(x, call)
  <2>1. PICK x \in There :
              \/ Destroy(x) \/ Unsetting(x) \/ ClearAttrs(x)
              \/ \E code \in Codes : UnsetA(x, code)
              \/ \E call \in Calls[InfoOf(mem, x)] : Set(x, call)
    BY <1>11
  <2>2. x \in Abstract!There /\ seen[x].info = InfoOf(mem, x)
    BY <1>1
  <2>3. CASE Destroy(x) \/ Unsetting(x) \/ ClearAttrs(x)
    BY <1>10, <2>2, <2>3, Zenon DEF Abstract!Call
  <2>4. CASE \E code \in Codes : UnsetA(x, code)
    <3>1. PICK code \in Codes : UnsetA(x, code)
      BY <2>4
    <3>2. Inv' /\ Abstract!UnsetA(x, code) /\ code \in Abstract!Codes
      BY <1>10, <3>1, SameWords
    <3> QED BY <2>2, <3>2, Zenon DEF Abstract!Call
  <2>5. CASE \E call \in Calls[InfoOf(mem, x)] : Set(x, call)
    <3>1. PICK call \in Calls[InfoOf(mem, x)] : Set(x, call)
      BY <2>5
    <3>2. Inv' /\ Abstract!Set(x, call) /\ call \in Calls[seen[x].info]
      BY <1>10, <2>2, <3>1
    <3> QED BY <2>2, <3>2, Zenon DEF Abstract!Call
  <2> QED BY <2>1, <2>3, <2>4, <2>5
<1> QED
  BY <1>5, <1>6, <1>7, <1>9, <1>11 DEF Call

(* Every assignment is one of the abstract variables, or breaks the memory where one
   of theirs may. *)
LEMMA AssignmentSound ==
  ASSUME Inv, Assignment, Assigned
  PROVE  Kept' /\ Abstract!Assignment
<1>1. PICK x \in There, y \in There : Assign(x, y) \/ MoveAssign(x, y)
  BY DEF Assignment
<1>2. x \in Abstract!There /\ y \in Abstract!There
  BY SeenIs DEF Abstract!There
<1>3. Kept' /\ (Abstract!Assign(x, y) \/ Abstract!MoveAssign(x, y))
  BY <1>1, AssignStep, MoveAssignStep
<1> QED
  BY <1>2, <1>3, Zenon DEF Abstract!Assignment

(* A step is a call, an assignment, or changes nothing. *)
LEMMA NextSound ==
  ASSUME Kept, [Next]_vars
  PROVE  Kept' /\ [Abstract!Next]_(Abstract!vars)
<1>1. CASE Next
  <2>1. ~ broken /\ Inv /\ Assigned
    BY <1>1 DEF Next, Kept, Assigned
  <2>2. CASE Call /\ UNCHANGED broken
    <3>1. ~ broken' /\ seen' = ViewOf(mem')
      BY <2>1, <2>2 DEF Assigned
    <3>2. Inv' /\ Abstract!Call
      BY <2>1, <2>2, <3>1, CallSound
    <3> QED BY <2>1, <2>2, <3>1, <3>2, Zenon DEF Kept, Abstract!Next
  <2>3. CASE Assignment
    <3>1. Kept' /\ Abstract!Assignment
      BY <2>1, <2>3, AssignmentSound
    <3> QED BY <2>1, <3>1, Zenon DEF Abstract!Next
  <2> QED BY <1>1, <2>2, <2>3 DEF Next
<1>2. CASE UNCHANGED vars
  BY <1>2 DEF vars, Kept, Misassigned, Abstract!CopyMayBreak, Abstract!MoveMayBreak,
              Abstract!SameKind, Inv, WellMade, Abstract!vars
<1> QED
  BY <1>1, <1>2

(* At the start nothing is broken. *)
LEMMA InitKept == Init => Kept /\ Abstract!Init
BY InitSound DEF Init, Kept

----------------------------------------------------------------------------
(* Theorems *)

(* The invariant holds after any calls of Var, in any order: the chains of attributes
   end, rise in code and are apart, and every buffer is that of one text.  Only an
   assignment between variables whose infos do not go together ends it. *)
THEOREM AlwaysWellMade == Spec => []Kept
<1>1. Init => Kept
  BY InitKept
<1>2. Kept /\ [Next]_vars => Kept'
  BY NextSound
<1> QED
  BY <1>1, <1>2, PTL DEF Spec

(* The objects, buffers and pointers behave as variables with values and maps of
   attributes, until an assignment breaks them where one of the values may. *)
THEOREM ImplementsValues == Spec => AsValues
<1>1. Init => Kept /\ Abstract!Init
  BY InitKept
<1>2. Kept /\ [Next]_vars => Kept' /\ [Abstract!Next]_(Abstract!vars)
  BY NextSound
<1> QED
  BY <1>1, <1>2, PTL DEF Spec, AsValues, Abstract!Spec

(* Whichever way a value came, it is one that its variable may hold. *)
THEOREM AlwaysInDomain == Spec => []InDomain
<1>1. Inv => InDomains
  BY DEF Inv, WellMade, Good, Heap, Values, Fits, InDomains, Objects
<1>2. Kept => InDomain
  BY <1>1 DEF Kept, InDomain
<1> QED
  BY <1>2, AlwaysWellMade, PTL

(* As many members as places. *)
LEMMA SetOfSize ==
  ASSUME NEW m, NEW s, Rising(m, s)
  PROVE  Cardinality(SetOf(s)) = Len(s)
<1>1. PICK l \in Nat : l = Len(s)
  BY DEF Rising
<1>2. PICK f : f = [i \in 1..l |-> s[i]]
  OBVIOUS
<1>3. \A i, j \in 1..l : s[i] = s[j] => i = j
  BY <1>1, RisingOnce
<1>4. f \in Injection(1..l, SetOf(s)) /\ f \in Surjection(1..l, SetOf(s))
  BY <1>1, <1>2, <1>3 DEF Injection, Surjection, IsInjective, SetOf
<1>5. IsFiniteSet(1..l) /\ Cardinality(1..l) = l
  BY FS_Interval
<1>6. Cardinality(SetOf(s)) = Cardinality(1..l)
  BY <1>4, <1>5, FS_Surjection
<1> QED
  BY <1>1, <1>5, <1>6

(* What Whole says is part of the invariant, said of the lists of attributes. *)
LEMMA GoodOwned ==
  ASSUME NEW ch, Good(mem, ch)
  PROVE  Whole
<1>1. ASSUME NEW x \in There
      PROVE  /\ x \in Name /\ ChainSet(mem, x) = SetOf(ch[x]) /\ Chain(mem, x) = ch[x]
             /\ Rising(mem, ch[x])
  BY StrandLeads DEF There, IsThere, Good, Shape, Strand, ChainSet, SetOf
<1>2. ASSUME NEW a \in Attr \cap Objects
      PROVE  \E x \in There : /\ a \in ChainSet(mem, x)
                              /\ \A y \in There \ {x} : a \notin ChainSet(mem, y)
  <2>1. PICK x \in Name : a \in SetOf(ch[x])
    BY DEF Good, Shape, Objects
  <2>2. x \in There
    <3>1. SUFFICES ASSUME x \notin DOMAIN mem.obj PROVE FALSE
      BY DEF There, IsThere
    <3>2. ch[x] = <<>>
      BY <3>1 DEF Good, Shape, Strand
    <3> QED BY <2>1, <3>2 DEF SetOf
  <2>3. \A y \in There \ {x} : a \notin SetOf(ch[y])
    BY <1>1, <2>1 DEF Good, Shape
  <2> QED BY <1>1, <2>1, <2>2, <2>3
<1>3. ASSUME NEW x \in There
      PROVE  /\ Cardinality(ChainSet(mem, x)) = Len(Chain(mem, x))
             /\ ChainSet(mem, x) \subseteq Objects
  <2>1. Cardinality(SetOf(ch[x])) = Len(ch[x])
    BY <1>1, SetOfSize
  <2>2. SetOf(ch[x]) \subseteq Objects
    BY <1>1, RisingCodes DEF SetOf, Objects
  <2> QED BY <1>1, <2>1, <2>2
<1>4. Texts = TextsOf(mem)
  BY DEF Texts, TextsOf, Objects, InfoOf
<1>5. ASSUME NEW b \in DOMAIN mem.buf
      PROVE  Cardinality({o \in Texts : mem.obj[o].slot = b}) = 1
  <2>1. PICK p \in TextsOf(mem) : mem.obj[p].slot = b
    BY DEF Good, Heap, Buffers
  <2>2. b # Nil
    BY RoomAssumption DEF Good, Heap, IsMemory
  <2>3. \A o \in TextsOf(mem) : mem.obj[o].slot = b => o = p
    BY <2>1, <2>2 DEF Good, Heap, Buffers
  <2>4. {o \in Texts : mem.obj[o].slot = b} = {p}
    BY <1>4, <2>1, <2>3
  <2> QED BY <2>4, FS_Singleton
<1>6. ASSUME NEW o \in Texts
      PROVE  /\ mem.obj[o].isset => mem.obj[o].slot # Nil
             /\ mem.obj[o].slot # Nil =>
                  /\ mem.obj[o].slot \in DOMAIN mem.buf
                  /\ mem.buf[mem.obj[o].slot].cap >= InfoOf(mem, o).len
  BY <1>4 DEF Good, Heap, Buffers, LongEnough, InfoOf
<1> QED
  BY <1>2, <1>3, <1>5, <1>6 DEF Whole

(* Nothing is shared, lost or freed twice, and every buffer is long enough, unless the
   last call was an assignment between variables whose infos do not go together. *)
THEOREM AlwaysOwned == Spec => []Owned
<1>1. Inv => Whole
  BY GoodOwned DEF Inv, WellMade
<1>2. Kept => Owned
  BY <1>1 DEF Kept, Owned
<1> QED
  BY <1>2, AlwaysWellMade, PTL

----------------------------------------------------------------------------
(* Comparisons *)

(* Variables of one code have one info: they come from the same tables. *)
OneTable == \A i, j \in Infos : i.code = j.code => i = j

(* What is set holds something, and the values of two objects are the same when
   their codes and what they hold are. *)
LEMMA ValuesSame ==
  ASSUME OneTable, NEW m, NEW ch, Good(m, ch), NEW o \in DOMAIN m.obj, NEW p \in DOMAIN m.obj
  PROVE  /\ ~ ValuesDiffer(m, o, p) <=> View(m, o) = View(m, p)
         /\ View(m, o) = View(m, p) <=>
              CodeOf(m, o) = CodeOf(m, p) /\ Held(m, o) = Held(m, p)
<1>1. ASSUME NEW q \in DOMAIN m.obj
      PROVE  /\ m.obj[q].isset \in BOOLEAN /\ InfoOf(m, q) \in Infos
             /\ CodeOf(m, q) = InfoOf(m, q).code
             /\ m.obj[q].isset <=> Held(m, q) # Unset
  <2>1. m.obj[q].isset \in BOOLEAN /\ (m.obj[q].isset => Held(m, q) # Unset)
    BY DEF Good, Heap, Values, IsMemory, IsObject
  <2>2. ~ m.obj[q].isset => Held(m, q) = Unset
    BY HeldIs
  <2> QED BY <2>1, <2>2, FitsHeld DEF CodeOf, InfoOf
<1>2. CodeOf(m, o) = CodeOf(m, p) => InfoOf(m, o) = InfoOf(m, p)
  BY <1>1 DEF OneTable
<1>3. View(m, o) = View(m, p) <=> InfoOf(m, o) = InfoOf(m, p) /\ Held(m, o) = Held(m, p)
  BY DEF View
<1>4. ~ ValuesDiffer(m, o, p) <=> CodeOf(m, o) = CodeOf(m, p) /\ Held(m, o) = Held(m, p)
  BY <1>1, <1>2 DEF ValuesDiffer
<1> QED
  BY <1>1, <1>2, <1>3, <1>4

(* The numbers from 1 to n are n. *)
LEMMA CountTo ==
  ASSUME NEW n \in Nat
  PROVE  IsFiniteSet(1..n) /\ Cardinality(1..n) = n
<1>1. IsFiniteSet(1..n)
  BY FS_Interval
<1>2. Cardinality(1..n) = IF 1 > n THEN 0 ELSE n - 1 + 1
  BY FS_Interval
<1> QED
  BY <1>1, <1>2

(* The codes of f that come before c. *)
Place(f, c) == Cardinality({d \in DOMAIN f : Earlier(d, c)})

(* The codes that come before that of an attribute are as many as the attributes
   that come before it. *)
LEMMA PlaceIs ==
  ASSUME NEW m, NEW s, Rising(m, s), NEW f, AreAttrs(f, m, s), NEW i \in 1..Len(s),
         NEW c, c = CodeOf(m, s[i])
  PROVE  Place(f, c) = i - 1
<1>1. PICK k \in Nat : k = i - 1
  BY DEF Rising
<1>2. PICK S : S = {d \in DOMAIN f : Earlier(d, c)}
  OBVIOUS
<1>3. PICK g : g = [j \in 1..k |-> CodeOf(m, s[j])]
  OBVIOUS
<1>4. \A j \in 1..k : j \in 1..Len(s) /\ j < i
  BY <1>1 DEF Rising
<1>5. \A j \in 1..k : g[j] \in S
  BY <1>2, <1>3, <1>4 DEF Rising, AreAttrs
<1>6. ASSUME NEW d \in S PROVE \E j \in 1..k : g[j] = d
  <2>1. PICK j \in 1..Len(s) : d = CodeOf(m, s[j])
    BY <1>2 DEF AreAttrs
  <2>2. ~ (i < j) /\ i # j
    <3>1. Earlier(d, c) /\ d \in Codes /\ c \in Codes
      BY <1>2, <2>1, RisingCodes
    <3>2. ~ Earlier(c, d) /\ c # d
      BY <3>1, EarlierIs
    <3> QED BY <2>1, <3>2 DEF Rising
  <2>3. j \in 1..k
    BY <1>1, <2>2 DEF Rising
  <2> QED BY <1>3, <2>1, <2>3
<1>7. \A a, b \in 1..k : g[a] = g[b] => a = b
  BY <1>3, <1>4, RisingOnce
<1>8. g \in Injection(1..k, S) /\ g \in Surjection(1..k, S)
  BY <1>3, <1>5, <1>6, <1>7 DEF Injection, Surjection, IsInjective
<1>9. IsFiniteSet(1..k) /\ Cardinality(1..k) = k
  BY CountTo
<1>10. Cardinality(S) = Cardinality(1..k)
  BY <1>8, <1>9, FS_Surjection
<1> QED
  BY <1>1, <1>2, <1>9, <1>10 DEF Place

(* Chains with the same attributes have them in the same places. *)
LEMMA SamePlaces ==
  ASSUME NEW m, NEW s, NEW t, Rising(m, s), Rising(m, t), NEW f,
         AreAttrs(f, m, s), AreAttrs(f, m, t), NEW i \in 1..Len(s)
  PROVE  i \in 1..Len(t) /\ View(m, s[i]) = View(m, t[i])
<1>1. PICK c : c = CodeOf(m, s[i])
  OBVIOUS
<1>2. c \in DOMAIN f /\ f[c] = View(m, s[i])
  BY <1>1 DEF AreAttrs
<1>3. PICK j \in 1..Len(t) : c = CodeOf(m, t[j]) /\ f[c] = View(m, t[j])
  BY <1>2 DEF AreAttrs
<1>4. Place(f, c) = i - 1
  BY <1>1, PlaceIs
<1>7. Place(f, c) = j - 1
  BY <1>3, PlaceIs
<1>5. Len(s) \in Nat /\ Len(t) \in Nat
  BY DEF Rising
<1>6. i = j
  BY <1>4, <1>5, <1>7
<1> QED
  BY <1>2, <1>3, <1>6

(* Two lists of attributes, place by place the same. *)
Alike(m, s, t) ==
  Len(s) = Len(t) /\ \A i \in 1..Len(s) : ~ ValuesDiffer(m, s[i], t[i])

(* Lists with the same attributes are as long as each other. *)
LEMMA SameLength ==
  ASSUME NEW m, NEW s, NEW t, Rising(m, s), Rising(m, t), NEW f,
         AreAttrs(f, m, s), AreAttrs(f, m, t)
  PROVE  Len(s) = Len(t)
<1>1. Len(s) \in Nat /\ Len(t) \in Nat
  BY DEF Rising
<1>2. \A i \in 1..Len(s) : i \in 1..Len(t)
  BY SamePlaces
<1>3. \A i \in 1..Len(t) : i \in 1..Len(s)
  BY SamePlaces
<1>4. Len(s) > 0 => Len(s) \in 1..Len(t)
  BY <1>1, <1>2
<1>5. Len(t) > 0 => Len(t) \in 1..Len(s)
  BY <1>1, <1>3
<1> QED
  BY <1>1, <1>4, <1>5

(* Two variables have the same map of attributes when their lists are alike. *)
LEMMA AttrsAlike ==
  ASSUME OneTable, NEW m, NEW ch, Good(m, ch),
         NEW x \in Name, NEW y \in Name, x \in DOMAIN m.obj, y \in DOMAIN m.obj
  PROVE  AttrsOf(m, x) = AttrsOf(m, y) <=> Alike(m, ch[x], ch[y])
<1>1. PICK s, t : s = ch[x] /\ t = ch[y]
  OBVIOUS
<1>2. Strand(m, x, s) /\ Strand(m, y, t)
  BY <1>1 DEF Good, Shape
<1>3. Rising(m, s) /\ Rising(m, t) /\ Len(s) \in Nat /\ Len(t) \in Nat
  BY <1>2 DEF Strand, Rising
<1>4. PICK f, g : f = AttrsOf(m, x) /\ g = AttrsOf(m, y)
  OBVIOUS
<1>5. AreAttrs(f, m, s) /\ AreAttrs(g, m, t)
  BY <1>2, <1>4, AttrsOfAre
<1>6. ASSUME f = g PROVE Alike(m, s, t)
  <2>1. AreAttrs(f, m, t)
    BY <1>5, <1>6
  <2>2. Len(s) = Len(t)
    BY <1>3, <1>5, <2>1, SameLength
  <2>3. ASSUME NEW i \in 1..Len(s) PROVE ~ ValuesDiffer(m, s[i], t[i])
    <3>1. i \in 1..Len(t) /\ View(m, s[i]) = View(m, t[i])
      BY <1>3, <1>5, <2>1, SamePlaces
    <3>2. s[i] \in DOMAIN m.obj /\ t[i] \in DOMAIN m.obj
      BY <1>3, <3>1, RisingCodes
    <3> QED BY <3>1, <3>2, ValuesSame
  <2> QED BY <2>2, <2>3 DEF Alike
<1>7. ASSUME Alike(m, s, t) PROVE f = g
  <2>1. ASSUME NEW i \in 1..Len(s)
        PROVE  i \in 1..Len(t) /\ View(m, s[i]) = View(m, t[i])
    <3>1. i \in 1..Len(t) /\ ~ ValuesDiffer(m, s[i], t[i])
      BY <1>7 DEF Alike
    <3>2. s[i] \in DOMAIN m.obj /\ t[i] \in DOMAIN m.obj
      BY <1>3, <3>1, RisingCodes
    <3> QED BY <3>1, <3>2, ValuesSame
  <2>2. Len(t) = Len(s)
    BY <1>7 DEF Alike
  <2>3. \A i \in 1..Len(s) : \E j \in 1..Len(t) : View(m, s[i]) = View(m, t[j])
    BY <2>1
  <2>4. \A j \in 1..Len(t) : \E i \in 1..Len(s) : View(m, s[i]) = View(m, t[j])
    BY <2>1, <2>2
  <2> QED BY <1>5, <2>3, <2>4, AttrsEqual
<1> QED
  BY <1>1, <1>4, <1>6, <1>7

(* operator== compares the objects and then their lists of attributes. *)
LEMMA EqualIs ==
  ASSUME NEW m, NEW ch, Good(m, ch),
         NEW x \in Name, NEW y \in Name, x \in DOMAIN m.obj, y \in DOMAIN m.obj
  PROVE  Equal(m, x, y) <=> ~ ValuesDiffer(m, x, y) /\ Alike(m, ch[x], ch[y])
<1>1. Chain(m, x) = ch[x] /\ Chain(m, y) = ch[y]
  BY StrandLeads DEF Good, Shape
<1>2. PICK s \in Seq(Attr), t \in Seq(Attr) : s = ch[x] /\ t = ch[y]
  BY DEF Good, Shape
<1>3. PICK a, b : a = << x >> \o s /\ b = << y >> \o t
  OBVIOUS
<1>4. PICK S : S = Attr \cup {x, y}
  OBVIOUS
<1>5. s \in Seq(S) /\ t \in Seq(S) /\ x \in S /\ y \in S
  BY <1>4
<1>6. /\ Len(a) = Len(s) + 1 /\ a[1] = x /\ \A i \in 1..Len(s) : a[i + 1] = s[i]
      /\ Len(b) = Len(t) + 1 /\ b[1] = y /\ \A i \in 1..Len(t) : b[i + 1] = t[i]
  BY <1>3, <1>5
<1>7. Len(s) \in Nat /\ Len(t) \in Nat
  OBVIOUS
<1>8. Equal(m, x, y) <=> Len(a) = Len(b) /\ \A i \in 1..Len(a) : ~ ValuesDiffer(m, a[i], b[i])
  BY <1>1, <1>2, <1>3 DEF Equal
<1>9. ASSUME Len(a) = Len(b), \A i \in 1..Len(a) : ~ ValuesDiffer(m, a[i], b[i])
      PROVE  ~ ValuesDiffer(m, x, y) /\ Alike(m, s, t)
  <2>1. Len(s) = Len(t)
    BY <1>6, <1>7, <1>9
  <2>2. ~ ValuesDiffer(m, a[1], b[1])
    BY <1>6, <1>7, <1>9
  <2>3. ASSUME NEW i \in 1..Len(s) PROVE ~ ValuesDiffer(m, s[i], t[i])
    <3>1. i + 1 \in 1..Len(a) /\ a[i + 1] = s[i] /\ b[i + 1] = t[i]
      BY <1>6, <1>7, <2>1
    <3>2. ~ ValuesDiffer(m, a[i + 1], b[i + 1])
      BY <1>9, <3>1
    <3> QED BY <3>1, <3>2
  <2> QED BY <1>6, <2>1, <2>2, <2>3 DEF Alike
<1>10. ASSUME ~ ValuesDiffer(m, x, y), Alike(m, s, t)
       PROVE  Len(a) = Len(b) /\ \A i \in 1..Len(a) : ~ ValuesDiffer(m, a[i], b[i])
  <2>1. Len(a) = Len(b) /\ Len(s) = Len(t)
    BY <1>6, <1>10 DEF Alike
  <2>2. ASSUME NEW i \in 1..Len(a) PROVE ~ ValuesDiffer(m, a[i], b[i])
    <3>1. CASE i = 1
      BY <1>6, <1>10, <3>1
    <3>2. CASE i # 1
      <4>1. PICK j \in 1..Len(s) : i = j + 1
        BY <1>6, <1>7, <3>2
      <4>2. a[i] = s[j] /\ b[i] = t[j]
        BY <1>6, <2>1, <4>1
      <4>3. ~ ValuesDiffer(m, s[j], t[j])
        BY <1>10 DEF Alike
      <4> QED BY <4>2, <4>3
    <3> QED BY <3>1, <3>2
  <2> QED BY <2>1, <2>2
<1> QED
  BY <1>2, <1>8, <1>9, <1>10

(* diff is zero when operator== holds, and only then if the variables are set. *)
LEMMA DiffIs ==
  ASSUME NEW m, NEW ch, Good(m, ch),
         NEW x \in Name, NEW y \in Name, x \in DOMAIN m.obj, y \in DOMAIN m.obj
  PROVE  /\ ~ ValuesDiffer(m, x, y) /\ Alike(m, ch[x], ch[y]) => Diff(m, x, y) = 0
         /\ m.obj[x].isset /\ Diff(m, x, y) = 0 =>
              ~ ValuesDiffer(m, x, y) /\ Alike(m, ch[x], ch[y])
<1>1. Chain(m, x) = ch[x] /\ Chain(m, y) = ch[y]
  BY StrandLeads DEF Good, Shape
<1>2. PICK s \in Seq(Attr), t \in Seq(Attr) : s = ch[x] /\ t = ch[y]
  BY DEF Good, Shape
<1>3. PICK k \in Nat, l \in Nat : k = Len(s) /\ l = Len(t)
  OBVIOUS
<1>4. PICK values \in BOOLEAN, isset \in BOOLEAN, each \in BOOLEAN, none \in BOOLEAN :
        /\ values <=> ValuesDiffer(m, x, y)
        /\ isset <=> m.obj[x].isset
        /\ each <=> \E i \in 1..k : ValuesDiffer(m, s[i], t[i])
        /\ none <=> s = <<>> \/ t = <<>>
  OBVIOUS
<1>5. Diff(m, x, y) =
        IF values THEN 1 ELSE IF ~ isset THEN 0
        ELSE IF k # l THEN IF none THEN 1 ELSE Abs(k - l)
        ELSE IF each THEN 1 ELSE 0
  BY <1>1, <1>2, <1>3, <1>4 DEF Diff
<1>6. k # l => Abs(k - l) # 0
  BY DEF Abs
<1>7. Alike(m, s, t) <=> k = l /\ ~ each
  BY <1>3, <1>4 DEF Alike
<1>8. ~ values /\ k = l /\ ~ each => Diff(m, x, y) = 0
  BY <1>5
<1>9. isset /\ Diff(m, x, y) = 0 => ~ values /\ k = l /\ ~ each
  BY <1>5, <1>6
<1> QED
  BY <1>2, <1>4, <1>7, <1>8, <1>9

(* operator== tells whether two variables have the same code, value and attributes,
   and diff agrees with it for those that are set, when the infos of one code are
   one: the variables come from the same tables, and no assignment has broken them. *)
THEOREM AlwaysComparable == ASSUME OneTable PROVE Spec => []Comparable
<1>1. ASSUME Inv PROVE Comparable
  <2>1. PICK ch : Good(mem, ch)
    BY <1>1 DEF Inv, WellMade
  <2>2. SUFFICES ASSUME NEW x \in There, NEW y \in There
        PROVE  LET same == /\ CodeOf(mem, x) = CodeOf(mem, y)
                           /\ seen[x].val = seen[y].val /\ seen[x].attrs = seen[y].attrs
               IN /\ Equal(mem, x, y) <=> same
                  /\ same => Diff(mem, x, y) = 0
                  /\ mem.obj[x].isset /\ Diff(mem, x, y) = 0 => same
    BY DEF Comparable
  <2>3. /\ x \in Name /\ y \in Name /\ x \in DOMAIN mem.obj /\ y \in DOMAIN mem.obj
        /\ seen[x].val = Held(mem, x) /\ seen[x].attrs = AttrsOf(mem, x)
        /\ seen[y].val = Held(mem, y) /\ seen[y].attrs = AttrsOf(mem, y)
    BY <1>1, SeenIs
  <2>4. ~ ValuesDiffer(mem, x, y) <=>
          CodeOf(mem, x) = CodeOf(mem, y) /\ Held(mem, x) = Held(mem, y)
    BY <2>1, <2>3, ValuesSame
  <2>5. AttrsOf(mem, x) = AttrsOf(mem, y) <=> Alike(mem, ch[x], ch[y])
    BY <2>1, <2>3, AttrsAlike
  <2>6. Equal(mem, x, y) <=> ~ ValuesDiffer(mem, x, y) /\ Alike(mem, ch[x], ch[y])
    BY <2>1, <2>3, EqualIs
  <2>7. /\ ~ ValuesDiffer(mem, x, y) /\ Alike(mem, ch[x], ch[y]) => Diff(mem, x, y) = 0
        /\ mem.obj[x].isset /\ Diff(mem, x, y) = 0 =>
             ~ ValuesDiffer(mem, x, y) /\ Alike(mem, ch[x], ch[y])
    BY <2>1, <2>3, DiffIs
  <2> QED BY <2>3, <2>4, <2>5, <2>6, <2>7
<1>2. Kept => Comparable
  BY <1>1 DEF Kept, Comparable
<1> QED
  BY <1>2, AlwaysWellMade, PTL
=============================================================================
