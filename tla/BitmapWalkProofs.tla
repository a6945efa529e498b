-------------------------- MODULE BitmapWalkProofs --------------------------
(***************************************************************************)
(* For every subset, bitmap and anchor, of any length, the loop of the     *)
(* constructor of Bitmap computes what BitmapRefs.tla says.                *)
(*                                                                         *)
(* The invariant relates the two cursors: the data variables that the walk *)
(* has left behind are as many as the bits it has left behind.             *)
(***************************************************************************)
EXTENDS BitmapWalk, FiniteSetTheorems, SequenceTheorems, TLAPS

(* The position under examination has not been paired yet. *)
Busy == pc \in {"skip", "pair"}
Examined == IF Busy THEN s_cur + 1 ELSE s_cur
PairedBits == IF Busy THEN Len(bits) - b_cur - 1 ELSE Len(bits) - b_cur

Above(e) == {p \in DataBefore(sub, anchor) : p > e}

PresentAbove(e) ==
  {p \in Above(e) : bits[Len(bits) + 1 - Rank(sub, anchor, p)]}

WalkInv ==
  /\ pc # "error" => /\ Cardinality(Above(Examined)) = PairedBits
                     /\ Collected = PresentAbove(Examined)
  /\ Decreasing
  /\ pc = "enter" => b_cur = Len(bits) /\ s_cur = anchor /\ refs = <<>>
  /\ pc = "pair" => sub[s_cur + 1] = "B"
  /\ pc = "done" => b_cur = 0 /\ bits # <<>>
  /\ ThrowsRightly

----------------------------------------------------------------------------
(* The sets of positions of the walk are finite. *)
LEMMA DataFinite ==
  ASSUME TypeOK
  PROVE  /\ IsFiniteSet(DataBefore(sub, anchor))
         /\ Cardinality(DataBefore(sub, anchor)) \in Nat
         /\ \A e \in Nat : /\ IsFiniteSet(Above(e))
                           /\ Cardinality(Above(e)) \in Nat
<1>1. anchor \in Nat
  BY DEF TypeOK
<1>2. IsFiniteSet(1..anchor)
  BY <1>1, FS_Interval
<1>3. IsFiniteSet(DataBefore(sub, anchor))
  BY <1>2, FS_Subset DEF DataBefore
<1>4. \A e \in Nat : IsFiniteSet(Above(e))
  BY <1>3, FS_Subset DEF Above
<1> QED BY <1>3, <1>4, FS_CardinalityType

(* Leaving a data variable behind adds one to the number of those left
   behind, and that number is its rank. *)
LEMMA AboveNext ==
  ASSUME TypeOK, NEW e \in Nat, e < anchor, sub[e + 1] = "B"
  PROVE  /\ Above(e) = Above(e + 1) \cup {e + 1}
         /\ Cardinality(Above(e)) = Cardinality(Above(e + 1)) + 1
         /\ Rank(sub, anchor, e + 1) = Cardinality(Above(e))
<1>1. e + 1 \in DataBefore(sub, anchor)
  BY DEF DataBefore, TypeOK
<1>2. Above(e) = Above(e + 1) \cup {e + 1}
  BY <1>1 DEF Above, DataBefore, TypeOK
<1>3. IsFiniteSet(Above(e + 1)) /\ e + 1 \notin Above(e + 1)
  BY DataFinite DEF Above, DataBefore
<1>4. Cardinality(Above(e)) = Cardinality(Above(e + 1)) + 1
  BY <1>2, <1>3, FS_AddElement
<1>5. Above(e) = {q \in DataBefore(sub, anchor) : q >= e + 1}
  BY DEF Above, DataBefore, TypeOK
<1> QED BY <1>2, <1>4, <1>5 DEF Rank

(* Passing over a variable that is not data leaves the set as it is. *)
LEMMA AboveSkip ==
  ASSUME TypeOK, NEW e \in Nat, e < anchor, sub[e + 1] # "B"
  PROVE  Above(e) = Above(e + 1)
BY DEF Above, DataBefore, TypeOK

(* Type correctness of the walk: the cursors never leave the bitmap or the
   subset while they are used as indices. *)
LEMMA TypeStep == TypeOK /\ [Next]_vars => TypeOK'
<1> SUFFICES ASSUME TypeOK, [Next]_vars PROVE TypeOK'
  OBVIOUS
<1> USE DEF TypeOK, input
<1>1. CASE Enter BY <1>1 DEF Enter
<1>2. CASE Back BY <1>2 DEF Back
<1>3. CASE Skip BY <1>3 DEF Skip
<1>4. CASE Pair
  <2>1. refs' \in Seq(Nat) BY <1>4 DEF Pair
  <2> QED BY <1>4, <2>1 DEF Pair
<1>5. CASE UNCHANGED vars BY <1>5 DEF vars
<1> QED BY <1>1, <1>2, <1>3, <1>4, <1>5 DEF Next

(* The walk starts with typed variables. *)
LEMMA InitType == Init => TypeOK
<1> SUFFICES ASSUME Init PROVE TypeOK
  OBVIOUS
<1>1. sub \in Seq({"B", "C"}) /\ bits \in Seq(BOOLEAN)
  BY WalkBoundsAssumption DEF Init, SeqsUpTo
<1> QED BY <1>1 DEF Init, TypeOK

(* The loop of Bitmap's constructor keeps its cursors in range and its data
   typed, for every subset, bitmap and anchor. *)
THEOREM WalkTypeCorrect == Spec => []TypeOK
BY InitType, TypeStep, PTL DEF Spec

----------------------------------------------------------------------------
(* Nothing is left of the data variables before the anchor when the walk has
   reached the start of the subset. *)
LEMMA AboveAll ==
  ASSUME TypeOK
  PROVE  Above(0) = DataBefore(sub, anchor)
BY DEF Above, DataBefore, TypeOK

(* Appending a position lower than all others keeps refs decreasing, and adds
   the position to those collected. *)
LEMMA AppendLower ==
  ASSUME TypeOK, Decreasing, NEW x \in Nat,
         refs' = Append(refs, x), \A c \in Collected : c > x
  PROVE  Decreasing' /\ Collected' = Collected \cup {x}
<1>1. /\ refs \in Seq(Nat)
      /\ Len(refs') = Len(refs) + 1
      /\ \A i \in 1..Len(refs) : refs'[i] = refs[i]
      /\ refs'[Len(refs) + 1] = x
      /\ DOMAIN refs = 1..Len(refs)
      /\ DOMAIN refs' = 1..(Len(refs) + 1)
      /\ Len(refs) \in Nat
  BY DEF TypeOK
<1>2. \A i \in 1..Len(refs) : refs[i] > x
  BY <1>1 DEF Collected
<1>3. Decreasing'
  <2> SUFFICES ASSUME NEW i \in 1..(Len(refs) + 1), NEW j \in 1..(Len(refs) + 1),
                      i < j
               PROVE  refs'[i] > refs'[j]
    BY <1>1 DEF Decreasing
  <2>1. i \in 1..Len(refs) BY <1>1
  <2>2. CASE j = Len(refs) + 1 BY <1>1, <1>2, <2>1, <2>2
  <2>3. CASE j # Len(refs) + 1
    <3>1. j \in 1..Len(refs) BY <1>1, <2>3
    <3> QED BY <1>1, <2>1, <3>1 DEF Decreasing
  <2> QED BY <2>2, <2>3
<1>4. Collected' = Collected \cup {x}
  <2>1. ASSUME NEW y \in Collected' PROVE y \in Collected \cup {x}
    <3>1. PICK i \in 1..(Len(refs) + 1) : y = refs'[i]
      BY <1>1, <2>1 DEF Collected
    <3>2. CASE i = Len(refs) + 1 BY <1>1, <3>1, <3>2
    <3>3. CASE i # Len(refs) + 1
      <4>1. i \in 1..Len(refs) BY <1>1, <3>3
      <4> QED BY <1>1, <3>1, <4>1 DEF Collected
    <3> QED BY <3>2, <3>3
  <2>2. ASSUME NEW y \in Collected \cup {x} PROVE y \in Collected'
    <3>1. CASE y = x
      <4>1. Len(refs) + 1 \in DOMAIN refs' BY <1>1
      <4> QED BY <1>1, <3>1, <4>1 DEF Collected
    <3>2. CASE y \in Collected
      <4>1. PICK i \in 1..Len(refs) : y = refs[i] BY <1>1, <3>2 DEF Collected
      <4>2. i \in DOMAIN refs' /\ refs'[i] = y BY <1>1, <4>1
      <4> QED BY <4>2 DEF Collected
    <3> QED BY <2>2, <3>1, <3>2
  <2> QED BY <2>1, <2>2
<1> QED BY <1>3, <1>4

(* The constructor starts with an empty list of references, before any bit. *)
LEMMA InitWalk == Init => WalkInv
<1> SUFFICES ASSUME Init PROVE WalkInv
  OBVIOUS
<1>1. TypeOK BY InitType
<1>2. refs = <<>> /\ pc = "enter" /\ s_cur = anchor /\ b_cur = Len(bits)
  BY DEF Init
<1>3. Above(anchor) = {}
  BY <1>1 DEF Above, DataBefore, TypeOK
<1>6. Cardinality(Above(anchor)) = 0 /\ PresentAbove(anchor) = {}
  BY <1>3, FS_EmptySet DEF PresentAbove
<1>4. Collected = {} /\ Decreasing
  BY <1>2 DEF Collected, Decreasing
<1>5. Len(bits) \in Nat BY <1>1 DEF TypeOK
<1>7. ~Busy /\ Examined = anchor /\ PairedBits = 0
  BY <1>2, <1>5 DEF Busy, Examined, PairedBits
<1> QED
  BY <1>2, <1>4, <1>6, <1>7 DEF WalkInv, ThrowsRightly

(* The head of the loop takes one more bit and one more position. *)
LEMMA BackStep == TypeOK /\ WalkInv /\ Back => WalkInv'
<1> SUFFICES ASSUME TypeOK, WalkInv, Back PROVE WalkInv'
  OBVIOUS
<1>1. /\ pc = "back" /\ pc' = "skip"
      /\ b_cur' = b_cur - 1 /\ s_cur' = s_cur - 1
      /\ UNCHANGED <<sub, anchor, bits, refs>>
      /\ b_cur \in Nat /\ s_cur \in Nat /\ Len(bits) \in Nat
      /\ b_cur > 0 /\ s_cur > 0
  BY DEF Back, input, TypeOK
<1>2. Examined' = Examined /\ PairedBits' = PairedBits
  BY <1>1 DEF Examined, PairedBits, Busy
<1>3. /\ DataBefore(sub, anchor)' = DataBefore(sub, anchor)
      /\ \A e : Above(e)' = Above(e) /\ PresentAbove(e)' = PresentAbove(e)
      /\ Collected' = Collected /\ (Decreasing <=> Decreasing')
  BY <1>1 DEF DataBefore, Above, PresentAbove, Rank, Collected, Decreasing
<1>4. /\ Cardinality(Above(Examined)) = PairedBits
      /\ Collected = PresentAbove(Examined)
      /\ Decreasing
  BY <1>1 DEF WalkInv
<1>5. /\ (Cardinality(Above(Examined)) = PairedBits)'
      /\ (Collected = PresentAbove(Examined))'
      /\ Decreasing'
  BY <1>2, <1>3, <1>4
<1> QED BY <1>1, <1>5 DEF WalkInv, ThrowsRightly

(* Enter leaves the walk where it is; it throws for a bitmap without bits, or
   for an anchor at the start of the subset. *)
LEMMA EnterStep == TypeOK /\ WalkInv /\ Enter => WalkInv'
<1> SUFFICES ASSUME TypeOK, WalkInv, Enter PROVE WalkInv'
  OBVIOUS
<1>1. /\ pc = "enter"
      /\ pc' = IF b_cur = 0 \/ s_cur = 0 THEN "error" ELSE "back"
      /\ UNCHANGED <<sub, anchor, bits, b_cur, s_cur, refs>>
      /\ b_cur = Len(bits) /\ s_cur = anchor /\ Len(bits) \in Nat
  BY DEF Enter, input, TypeOK, WalkInv
<1>2. Examined' = Examined /\ PairedBits' = PairedBits
  BY <1>1 DEF Examined, PairedBits, Busy
<1>3. /\ DataBefore(sub, anchor)' = DataBefore(sub, anchor)
      /\ \A e : Above(e)' = Above(e) /\ PresentAbove(e)' = PresentAbove(e)
      /\ Collected' = Collected /\ (Decreasing <=> Decreasing')
  BY <1>1 DEF DataBefore, Above, PresentAbove, Rank, Collected, Decreasing
<1>4. /\ Cardinality(Above(Examined)) = PairedBits
      /\ Collected = PresentAbove(Examined)
      /\ Decreasing
  BY <1>1 DEF WalkInv
<1>5. /\ (Cardinality(Above(Examined)) = PairedBits)'
      /\ (Collected = PresentAbove(Examined))'
      /\ Decreasing'
  BY <1>2, <1>3, <1>4
<1>6. ThrowsRightly'
  <2> SUFFICES ASSUME pc' = "error" PROVE ~Constructible(sub, anchor, bits)
    BY <1>1, <1>3 DEF ThrowsRightly, Constructible
  <2>1. CASE b_cur = 0
    <3>1. bits = <<>> BY <1>1, <2>1, EmptySeq DEF TypeOK
    <3> QED BY <3>1 DEF Constructible
  <2>2. CASE b_cur # 0 /\ s_cur = 0
    <3>1. DataBefore(sub, anchor) = {} BY <1>1, <2>2 DEF DataBefore
    <3>2. Cardinality(DataBefore(sub, anchor)) = 0 BY <3>1, FS_EmptySet
    <3> QED BY <1>1, <2>2, <3>2 DEF Constructible
  <2> QED BY <1>1, <2>1, <2>2
<1> QED BY <1>1, <1>5, <1>6 DEF WalkInv


(* A variable that is not data changes nothing about the data variables left
   behind; at the start of the subset there are then too few of them. *)
LEMMA SkipStep == TypeOK /\ WalkInv /\ Skip => WalkInv'
<1> SUFFICES ASSUME TypeOK, WalkInv, Skip PROVE WalkInv'
  OBVIOUS
<1>1. /\ pc = "skip" /\ b_cur' = b_cur
      /\ UNCHANGED <<sub, anchor, bits, refs>>
      /\ b_cur \in Nat /\ s_cur \in Nat /\ Len(bits) \in Nat
      /\ b_cur < Len(bits) /\ s_cur < anchor /\ anchor \in Nat
  BY DEF Skip, input, TypeOK
<1>2. /\ DataBefore(sub, anchor)' = DataBefore(sub, anchor)
      /\ \A e : Above(e)' = Above(e) /\ PresentAbove(e)' = PresentAbove(e)
      /\ Collected' = Collected /\ (Decreasing <=> Decreasing')
  BY <1>1 DEF DataBefore, Above, PresentAbove, Rank, Collected, Decreasing
<1>3. /\ Cardinality(Above(s_cur + 1)) = Len(bits) - b_cur - 1
      /\ Collected = PresentAbove(s_cur + 1)
      /\ Decreasing
  BY <1>1 DEF WalkInv, Examined, PairedBits, Busy
<1>4. CASE sub[s_cur + 1] = "B"
  <2>1. pc' = "pair" /\ s_cur' = s_cur BY <1>4 DEF Skip
  <2>2. Examined' = s_cur + 1 /\ PairedBits' = Len(bits) - b_cur - 1
    BY <1>1, <2>1 DEF Examined, PairedBits, Busy
  <2>3. /\ (Cardinality(Above(Examined)) = PairedBits)'
        /\ (Collected = PresentAbove(Examined))'
        /\ Decreasing'
    BY <1>2, <1>3, <2>2
  <2> QED BY <1>1, <1>4, <2>1, <2>3 DEF WalkInv, ThrowsRightly
<1>5. CASE sub[s_cur + 1] # "B" /\ s_cur # 0
  <2>1. pc' = "skip" /\ s_cur' = s_cur - 1 BY <1>5 DEF Skip
  <2>2. Examined' = s_cur /\ PairedBits' = Len(bits) - b_cur - 1
    BY <1>1, <2>1 DEF Examined, PairedBits, Busy
  <2>3. Above(s_cur) = Above(s_cur + 1)
    BY <1>1, <1>5, AboveSkip
  <2>4. PresentAbove(s_cur) = PresentAbove(s_cur + 1)
    BY <2>3 DEF PresentAbove
  <2>5. /\ (Cardinality(Above(Examined)) = PairedBits)'
        /\ (Collected = PresentAbove(Examined))'
        /\ Decreasing'
    BY <1>2, <1>3, <2>2, <2>3, <2>4
  <2> QED BY <1>1, <2>1, <2>5 DEF WalkInv, ThrowsRightly
<1>6. CASE sub[s_cur + 1] # "B" /\ s_cur = 0
  <2>1. pc' = "error" BY <1>6 DEF Skip
  <2>2. DataBefore(sub, anchor) = Above(s_cur + 1)
    BY <1>1, <1>6, AboveSkip, AboveAll
  <2>3. ~Constructible(sub, anchor, bits)
    BY <1>1, <1>3, <2>2 DEF Constructible
  <2>4. ThrowsRightly'
    BY <1>1, <1>2, <2>3 DEF ThrowsRightly, Constructible
  <2> QED BY <1>2, <1>3, <2>1, <2>4 DEF WalkInv
<1> QED BY <1>4, <1>5, <1>6

(* Pairing a bit with a data variable: the rank of the variable is the number
   of bits paired so far, this one included. *)
LEMMA PairStep == TypeOK /\ WalkInv /\ Pair => WalkInv'
<1> SUFFICES ASSUME TypeOK, WalkInv, Pair PROVE WalkInv'
  OBVIOUS
<1>1. /\ pc = "pair" /\ b_cur' = b_cur /\ s_cur' = s_cur
      /\ UNCHANGED <<sub, anchor, bits>>
      /\ refs' = IF bits[b_cur + 1] THEN Append(refs, s_cur + 1) ELSE refs
      /\ pc' = IF b_cur = 0 THEN "done"
               ELSE IF s_cur = 0 THEN "error" ELSE "back"
      /\ b_cur \in Nat /\ s_cur \in Nat /\ Len(bits) \in Nat
      /\ b_cur < Len(bits) /\ s_cur < anchor /\ anchor \in Nat
  BY DEF Pair, input, TypeOK
<1>2. /\ DataBefore(sub, anchor)' = DataBefore(sub, anchor)
      /\ \A e : Above(e)' = Above(e) /\ PresentAbove(e)' = PresentAbove(e)
  BY <1>1 DEF DataBefore, Above, PresentAbove, Rank
<1>3. /\ Cardinality(Above(s_cur + 1)) = Len(bits) - b_cur - 1
      /\ Collected = PresentAbove(s_cur + 1)
      /\ Decreasing
      /\ sub[s_cur + 1] = "B"
  BY <1>1 DEF WalkInv, Examined, PairedBits, Busy
<1>4. /\ Above(s_cur) = Above(s_cur + 1) \cup {s_cur + 1}
      /\ Cardinality(Above(s_cur)) = Len(bits) - b_cur
      /\ Rank(sub, anchor, s_cur + 1) = Len(bits) - b_cur
  BY <1>1, <1>3, AboveNext
<1>5. Examined' = s_cur /\ PairedBits' = Len(bits) - b_cur
  BY <1>1 DEF Examined, PairedBits, Busy
<1>6. bits[Len(bits) + 1 - Rank(sub, anchor, s_cur + 1)] = bits[b_cur + 1]
  <2>1. Len(bits) + 1 - (Len(bits) - b_cur) = b_cur + 1 BY <1>1
  <2> QED BY <1>4, <2>1
<1>7. \A c \in Collected : c > s_cur + 1
  BY <1>3 DEF PresentAbove, Above
<1>8. Collected' = PresentAbove(s_cur) /\ Decreasing'
  <2>1. CASE bits[b_cur + 1]
    <3>1. Decreasing' /\ Collected' = Collected \cup {s_cur + 1}
      BY <1>1, <1>3, <1>7, <2>1, AppendLower
    <3>2. PresentAbove(s_cur) = PresentAbove(s_cur + 1) \cup {s_cur + 1}
      BY <1>4, <1>6, <2>1 DEF PresentAbove
    <3> QED BY <1>3, <3>1, <3>2
  <2>2. CASE ~bits[b_cur + 1]
    <3>1. Decreasing' /\ Collected' = Collected
      BY <1>1, <1>3, <2>2 DEF Decreasing, Collected
    <3>2. PresentAbove(s_cur) = PresentAbove(s_cur + 1)
      BY <1>4, <1>6, <2>2 DEF PresentAbove
    <3> QED BY <1>3, <3>1, <3>2
  <2> QED BY <2>1, <2>2
<1>9. /\ (Cardinality(Above(Examined)) = PairedBits)'
      /\ (Collected = PresentAbove(Examined))'
  BY <1>2, <1>4, <1>5, <1>8
<1>10. pc' = "done" => b_cur' = 0 /\ bits' # <<>>
  BY <1>1 DEF TypeOK
<1>11. ThrowsRightly'
  <2> SUFFICES ASSUME pc' = "error" PROVE ~Constructible(sub, anchor, bits)
    BY <1>1, <1>2 DEF ThrowsRightly, Constructible
  <2>1. b_cur # 0 /\ s_cur = 0 BY <1>1
  <2>2. Cardinality(DataBefore(sub, anchor)) = Len(bits) - b_cur
    BY <1>4, <2>1, AboveAll
  <2> QED BY <1>1, <2>1, <2>2 DEF Constructible
<1> QED BY <1>1, <1>8, <1>9, <1>10, <1>11 DEF WalkInv

(* Every step of the loop keeps the invariant of the walk. *)
LEMMA WalkStep == TypeOK /\ WalkInv /\ [Next]_vars => WalkInv'
<1> SUFFICES ASSUME TypeOK, WalkInv, UNCHANGED vars PROVE WalkInv'
  BY EnterStep, BackStep, SkipStep, PairStep DEF Next
<1>1. UNCHANGED <<sub, anchor, bits, b_cur, s_cur, refs, pc>>
  BY DEF vars
<1>2. /\ DataBefore(sub, anchor)' = DataBefore(sub, anchor)
      /\ \A e : Above(e)' = Above(e) /\ PresentAbove(e)' = PresentAbove(e)
      /\ Collected' = Collected /\ (Decreasing <=> Decreasing')
      /\ Examined' = Examined /\ PairedBits' = PairedBits
  BY <1>1 DEF DataBefore, Above, PresentAbove, Rank, Collected, Decreasing,
              Examined, PairedBits, Busy
<1>3. ThrowsRightly <=> ThrowsRightly'
  BY <1>1, <1>2 DEF ThrowsRightly, Constructible
<1> QED BY <1>1, <1>2, <1>3 DEF WalkInv

(* With as many data variables left behind as the bitmap has bits, those left
   behind are the data variables of rank at most that number. *)
LEMMA WalkResult == TypeOK /\ WalkInv => ReturnsRefs
<1> SUFFICES ASSUME TypeOK, WalkInv, pc = "done"
             PROVE  /\ Collected = RefsOf(sub, anchor, bits)
                    /\ Constructible(sub, anchor, bits)
  BY DEF ReturnsRefs
<1>1. /\ Cardinality(Above(s_cur)) = Len(bits)
      /\ Collected = PresentAbove(s_cur)
      /\ bits # <<>>
      /\ s_cur \in Nat /\ Len(bits) \in Nat
  BY DEF WalkInv, Examined, PairedBits, Busy, TypeOK
<1>2. \A p \in Above(s_cur) : Rank(sub, anchor, p) <= Len(bits)
  <2> SUFFICES ASSUME NEW p \in Above(s_cur)
               PROVE  Rank(sub, anchor, p) <= Len(bits)
    OBVIOUS
  <2>1. {q \in DataBefore(sub, anchor) : q >= p} \in SUBSET Above(s_cur)
    BY <1>1 DEF Above, DataBefore
  <2> QED BY <1>1, <2>1, DataFinite, FS_Subset DEF Rank
<1>3. \A p \in DataBefore(sub, anchor) \ Above(s_cur) :
         ~(Rank(sub, anchor, p) <= Len(bits))
  <2> SUFFICES ASSUME NEW p \in DataBefore(sub, anchor) \ Above(s_cur)
               PROVE  ~(Rank(sub, anchor, p) <= Len(bits))
    OBVIOUS
  <2> DEFINE From == {q \in DataBefore(sub, anchor) : q >= p}
  <2>1. Above(s_cur) \cup {p} \in SUBSET From
    BY <1>1 DEF Above, DataBefore
  <2>2. IsFiniteSet(From) /\ Cardinality(From) \in Nat
    <3>1. From \in SUBSET DataBefore(sub, anchor) OBVIOUS
    <3> QED BY <3>1, DataFinite, FS_Subset, FS_CardinalityType
  <2>3. Cardinality(Above(s_cur) \cup {p}) = Len(bits) + 1
    BY <1>1, DataFinite, FS_AddElement
  <2>4. Len(bits) + 1 <= Cardinality(From)
    BY <2>1, <2>2, <2>3, FS_Subset
  <2> QED BY <1>1, <2>2, <2>4 DEF Rank
<1>4. Above(s_cur) \in SUBSET DataBefore(sub, anchor) BY DEF Above
<1>5. Collected = RefsOf(sub, anchor, bits)
  BY <1>1, <1>2, <1>3, <1>4 DEF PresentAbove, RefsOf
<1>6. Len(bits) <= Cardinality(DataBefore(sub, anchor))
  BY <1>1, <1>4, DataFinite, FS_Subset
<1> QED BY <1>1, <1>5, <1>6 DEF Constructible

(* When the constructor of Bitmap returns, it holds the positions that the
   bits declare present, and it throws only when it must, for every subset,
   bitmap and anchor. *)
THEOREM WalkCorrect == Spec => [](ReturnsRefs /\ ThrowsRightly)
<1>1. Init => TypeOK /\ WalkInv BY InitType, InitWalk
<1>2. TypeOK /\ WalkInv /\ [Next]_vars => TypeOK' /\ WalkInv'
  BY TypeStep, WalkStep
<1>3. TypeOK /\ WalkInv => ReturnsRefs /\ ThrowsRightly
  BY WalkResult DEF WalkInv
<1> QED BY <1>1, <1>2, <1>3, PTL DEF Spec

(* The positions are collected in decreasing order, for every subset, bitmap
   and anchor. *)
THEOREM WalkDecreasing == Spec => []Decreasing
<1>1. Init => TypeOK /\ WalkInv BY InitType, InitWalk
<1>2. TypeOK /\ WalkInv /\ [Next]_vars => TypeOK' /\ WalkInv'
  BY TypeStep, WalkStep
<1>3. TypeOK /\ WalkInv => Decreasing BY DEF WalkInv
<1> QED BY <1>1, <1>2, <1>3, PTL DEF Spec

============================================================================
