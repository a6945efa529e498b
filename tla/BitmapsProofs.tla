--------------------------- MODULE BitmapsProofs ---------------------------
(***************************************************************************)
(* For subsets and bitmaps of any length, and any sequence of operators:   *)
(* the positions that Bitmaps::next() hands out are the ones the active    *)
(* bitmap declares present, in order, and the Bitmap objects are owned     *)
(* properly as long as no constructor throws.                              *)
(***************************************************************************)
EXTENDS Bitmaps, FiniteSetTheorems, WellFoundedInduction, TLAPS

(* The ids in use are those already given out. *)
KnownIds == \A b \in Pointers : b.id < defined

IInv == /\ TypeOK
        /\ Aligned
        /\ InOrder
        /\ LastIsComplete
        /\ Ownership
        /\ KnownIds

----------------------------------------------------------------------------
(* A set of positions that is not empty has a least element. *)
LEMMA MinProperty ==
  ASSUME NEW S \in SUBSET Positions, S # {}
  PROVE  /\ Min(S) \in S
         /\ \A y \in S : Min(S) <= y
<1>1. S \subseteq Nat BY DEF Positions
<1>2. PICK x \in S : \A y \in S : ~(<<y, x>> \in OpToRel(<, Nat))
  BY <1>1, NatLessThanWellFounded, WFMin, Zenon
<1>3. \A y \in S : x <= y
  <2> TAKE y \in S
  <2>1. y \in Nat /\ x \in Nat BY <1>1
  <2>2. ~(y < x)
    <3>1. <<y, x>> \in Nat \X Nat BY <2>1
    <3> QED BY <1>2, <3>1 DEF OpToRel
  <2> QED BY <2>1, <2>2
<1> QED BY <1>3 DEF Min

(* Storing a variable does not move what an older bitmap refers to. *)
LEMMA RefsStable ==
  ASSUME NEW s \in Seq(Kinds), NEW k \in Kinds, NEW bits,
         NEW a \in 0..Len(s)
  PROVE  RefsOf(Append(s, k), a, bits) = RefsOf(s, a, bits)
<1>1. \A p \in 1..a : Append(s, k)[p] = s[p]
  OBVIOUS
<1>2. DataBefore(Append(s, k), a) = DataBefore(s, a)
  BY <1>1 DEF DataBefore
<1> QED BY <1>2 DEF RefsOf, Rank

(* The positions of a bitmap are positions. *)
LEMMA RefsType ==
  ASSUME NEW s, NEW a \in Nat, NEW bits
  PROVE  RefsOf(s, a, bits) \in SUBSET Positions
BY DEF RefsOf, DataBefore, Positions

(* The bitmaps a message may carry are sequences of bits. *)
LEMMA BitStringsType == BitStrings \subseteq Seq(BOOLEAN)
BY BoundsAssumption DEF BitStrings

(* The constructor of Bitmap makes a typed object. *)
LEMMA NewBitmapType ==
  ASSUME TypeOK, NEW s \in Seq(Kinds), NEW bits \in Seq(BOOLEAN)
  PROVE  NewBitmap(s, Len(s), bits) \in Bitmap
<1>1. RefsOf(s, Len(s), bits) \in SUBSET Positions
  BY RefsType
<1> QED BY <1>1 DEF NewBitmap, Bitmap, TypeOK

(* An interpreter starts without bitmaps. *)
LEMMA InitIInv == Init => IInv
<1> SUFFICES ASSUME Init PROVE IInv
  OBVIOUS
<1>1. Pointers = {} BY DEF Init, Pointers
<1>2. subset \in Seq(Kinds) BY DEF Init
<1>3. TypeOK BY <1>2 DEF Init, TypeOK
<1> QED
  BY <1>1, <1>3 DEF Init, IInv, Aligned, InOrder, LastIsComplete, Ownership,
                    KnownIds

----------------------------------------------------------------------------
(* Storing a variable disturbs no bitmap. *)
LEMMA StoreIInv ==
  ASSUME IInv, NEW kind \in Kinds, Store(kind)
  PROVE  IInv'
<1>1. /\ subset' = Append(subset, kind) /\ Len(subset') = Len(subset) + 1
      /\ subset \in Seq(Kinds) /\ kind \in Kinds
      /\ UNCHANGED <<pending, current, last, live, defined, served, status>>
      /\ Pointers' = Pointers
  BY DEF IInv, TypeOK, Store, Pointers, Kinds
<1>2. TypeOK' BY <1>1 DEF IInv, TypeOK, Kinds
<1>3. Aligned'
  <2> SUFFICES ASSUME NEW b \in Pointers
               PROVE  /\ b.anchor <= Len(subset')
                      /\ b.refs = RefsOf(subset', b.anchor, b.bits)
    BY <1>1 DEF Aligned
  <2>1. b \in Bitmap BY DEF IInv, TypeOK, Pointers
  <2>2. b.anchor \in 0..Len(subset)
    BY <2>1, <1>1 DEF IInv, Aligned, Bitmap
  <2> QED BY <1>1, <2>1, <2>2, RefsStable DEF IInv, Aligned, Bitmap
<1> QED
  BY <1>1, <1>2, <1>3 DEF IInv, InOrder, LastIsComplete, Ownership, KnownIds

(* C22000 and C23000 only raise a flag. *)
LEMMA ExpectIInv == IInv /\ ExpectBitmap => IInv'
BY DEF IInv, ExpectBitmap, TypeOK, Aligned, InOrder, LastIsComplete,
       Ownership, KnownIds, Pointers

(* A new bitmap replaces the current one, and is aligned and unread. *)
LEMMA DefineIInv ==
  ASSUME IInv, NEW bits \in BitStrings, Define(bits)
  PROVE  IInv'
<1> DEFINE new == NewBitmap(subset', Len(subset'), bits)
<1>1. /\ subset' = Append(subset, "C") /\ subset' \in Seq(Kinds)
      /\ Len(subset') = Len(subset) + 1 /\ subset \in Seq(Kinds)
      /\ current' = new
      /\ live' = (live \ Pointee(current)) \cup {defined}
      /\ defined' = defined + 1 /\ pending' = FALSE /\ served' = {}
      /\ last' = last /\ status' = status /\ status = "run"
      /\ defined \in Nat
  BY DEF IInv, TypeOK, Define, Kinds, Running
<1>2. bits \in Seq(BOOLEAN) BY BitStringsType
<1>3. new \in Bitmap /\ new # NoBitmap
  BY <1>1, <1>2, NewBitmapType, NoBitmapAssumption DEF IInv
<1>4. new.id = defined /\ new.refs = new.left /\ new.anchor = Len(subset')
      /\ new.refs = RefsOf(subset', Len(subset'), bits) /\ new.bits = bits
  BY DEF NewBitmap
<1> HIDE DEF new
<1>5. TypeOK'
  <2>1. live' \in SUBSET Nat BY <1>1 DEF IInv, TypeOK
  <2>2. last' \in Bitmap \cup {NoBitmap} BY <1>1 DEF IInv, TypeOK
  <2>3. pending' \in BOOLEAN BY <1>1
  <2>4. served' \in SUBSET Positions /\ defined' \in Nat BY <1>1
  <2>5. status' \in {"run", "error", "undefined"} BY <1>1
  <2>6. current' \in Bitmap \cup {NoBitmap} BY <1>1, <1>3
  <2> QED BY <1>1, <2>1, <2>2, <2>3, <2>4, <2>5, <2>6 DEF TypeOK
<1>6. Pointers' = {new} \cup ({last} \ {NoBitmap})
  BY <1>1, <1>3 DEF Pointers
<1>7. Aligned'
  <2> SUFFICES ASSUME NEW b \in Pointers'
               PROVE  /\ b.anchor <= Len(subset')
                      /\ b.refs = RefsOf(subset', b.anchor, b.bits)
    BY DEF Aligned
  <2>1. CASE b = new BY <1>1, <1>4, <2>1
  <2>2. CASE b # new
    <3>1. b = last /\ last # NoBitmap BY <1>6, <2>2
    <3>2. b \in Bitmap /\ b \in Pointers
      BY <3>1 DEF IInv, TypeOK, Pointers
    <3>3. b.anchor \in 0..Len(subset)
      BY <1>1, <3>2 DEF IInv, Aligned, Bitmap
    <3> QED BY <1>1, <3>2, <3>3, RefsStable DEF IInv, Aligned, Bitmap, Kinds
  <2> QED BY <2>1, <2>2
<1>8. InOrder' BY <1>1, <1>3, <1>4 DEF InOrder
<1>9. LastIsComplete' BY <1>1 DEF IInv, LastIsComplete
<1>10. KnownIds'
  <2>1. last # NoBitmap => last.id \in Nat /\ last.id < defined
    BY DEF IInv, KnownIds, Pointers, TypeOK, Bitmap
  <2> QED BY <1>1, <1>4, <1>6, <2>1 DEF KnownIds
<1>11. Ownership'
  <2>1. live = {b.id : b \in Pointers}
        /\ (current # NoBitmap /\ last # NoBitmap => current.id # last.id)
    BY <1>1 DEF IInv, Ownership
  <2>2. last # NoBitmap => last.id # defined
    BY <1>1 DEF IInv, KnownIds, Pointers, TypeOK, Bitmap
  <2>3. live' = {b.id : b \in Pointers'}
    <3>1. live \ Pointee(current) = IF last = NoBitmap THEN {} ELSE {last.id}
      BY <2>1 DEF Pointee, Pointers
    <3> QED BY <1>1, <1>4, <1>6, <3>1
  <2> QED BY <1>1, <1>4, <2>2, <2>3 DEF Ownership
<1> QED BY <1>5, <1>7, <1>8, <1>9, <1>10, <1>11 DEF IInv

(* A constructor that throws leaves positions aligned, and stops the run. *)
LEMMA DefineFailsIInv ==
  ASSUME IInv, NEW bits \in BitStrings, DefineFails(bits)
  PROVE  IInv'
<1>1. /\ subset' = Append(subset, "C") /\ Len(subset') = Len(subset) + 1
      /\ subset \in Seq(Kinds) /\ subset' \in Seq(Kinds) /\ live' = live \ Pointee(current)
      /\ UNCHANGED <<pending, current, last, defined, served>>
      /\ status' = "error" /\ Pointers' = Pointers
  BY DEF IInv, TypeOK, DefineFails, Pointers, Kinds
<1>2. TypeOK'
  <2>1. live' \in SUBSET Nat BY <1>1 DEF IInv, TypeOK
  <2> QED BY <1>1, <2>1 DEF IInv, TypeOK
<1>3. Aligned'
  <2> SUFFICES ASSUME NEW b \in Pointers
               PROVE  /\ b.anchor <= Len(subset')
                      /\ b.refs = RefsOf(subset', b.anchor, b.bits)
    BY <1>1 DEF Aligned
  <2>1. b \in Bitmap BY DEF IInv, TypeOK, Pointers
  <2>2. b.anchor \in 0..Len(subset)
    BY <2>1, <1>1 DEF IInv, Aligned, Bitmap
  <2> QED BY <1>1, <2>1, <2>2, RefsStable DEF IInv, Aligned, Bitmap, Kinds
<1> QED
  BY <1>1, <1>2, <1>3 DEF IInv, InOrder, LastIsComplete, Ownership, KnownIds

(* Bitmaps::next moves the least position that is left to those served. *)
LEMMA NextRefIInv == IInv /\ NextRef => IInv'
<1> SUFFICES ASSUME IInv, NextRef PROVE IInv'
  OBVIOUS
<1> DEFINE pos  == Min(current.left)
           rest == [current EXCEPT !.left = @ \ {pos}]
<1>1. /\ current \in Bitmap /\ current # NoBitmap /\ current.left # {}
      /\ current.left \in SUBSET Positions /\ current.id \in Nat
      /\ status = "run" /\ status' = status /\ defined' = defined
      /\ subset' = subset /\ pending' = pending
      /\ served' = served \cup {pos}
      /\ served \in SUBSET Positions
  BY DEF IInv, TypeOK, NextRef, Bitmap, Running
<1>2. pos \in current.left /\ \A y \in current.left : pos <= y
  BY <1>1, MinProperty
<1>3. pos \in Positions BY <1>1, <1>2
<1>4. /\ rest \in Bitmap /\ rest.id = current.id /\ rest.bits = current.bits
      /\ rest.anchor = current.anchor /\ rest.refs = current.refs
      /\ rest.left = current.left \ {pos}
  BY <1>1 DEF Bitmap
<1>5. \/ /\ rest.left = {} /\ live' = live \ Pointee(last)
         /\ last' = rest /\ current' = NoBitmap
      \/ /\ rest.left # {} /\ current' = rest /\ last' = last /\ live' = live
  BY DEF NextRef
<1> HIDE DEF pos, rest
<1>6. rest # NoBitmap BY <1>4, NoBitmapAssumption
<1>7. current \in Pointers /\ (last # NoBitmap => last \in Pointers)
  BY <1>1 DEF Pointers
<1>8. /\ live = {b.id : b \in Pointers}
      /\ (last # NoBitmap => current.id # last.id)
  BY <1>1 DEF IInv, Ownership
<1>9. /\ served \cap current.left = {}
      /\ served \cup current.left = current.refs
      /\ \A p \in served, q \in current.left : p < q
  BY <1>1 DEF IInv, InOrder
<1>10. TypeOK'
  BY <1>1, <1>3, <1>4, <1>5 DEF IInv, TypeOK
<1>11. CASE rest.left = {}
  <2>1. Pointers' = {rest} BY <1>5, <1>6, <1>11 DEF Pointers
  <2>2. Aligned'
    BY <1>1, <1>4, <1>7, <2>1 DEF IInv, Aligned
  <2>3. InOrder' BY <1>5, <1>11 DEF InOrder
  <2>4. LastIsComplete' BY <1>5, <1>11 DEF LastIsComplete
  <2>5. live \ Pointee(last) = {current.id}
    BY <1>1, <1>8 DEF Pointee, Pointers
  <2>6. Ownership' BY <1>4, <1>5, <1>11, <2>1, <2>5 DEF Ownership
  <2>7. KnownIds' BY <1>1, <1>4, <1>7, <2>1 DEF IInv, KnownIds
  <2> QED BY <1>10, <2>2, <2>3, <2>4, <2>6, <2>7 DEF IInv
<1>12. CASE rest.left # {}
  <2>1. Pointers' = {rest} \cup ({last} \ {NoBitmap})
    BY <1>5, <1>6, <1>12 DEF Pointers
  <2>2. Aligned'
    BY <1>1, <1>4, <1>7, <2>1 DEF IInv, Aligned
  <2>3. InOrder'
    <3>1. \A y \in rest.left : pos < y
      BY <1>1, <1>2, <1>4 DEF Positions
    <3> QED BY <1>1, <1>2, <1>4, <1>5, <1>9, <1>12, <3>1 DEF InOrder
  <2>4. LastIsComplete' BY <1>5, <1>12 DEF IInv, LastIsComplete
  <2>5. {b.id : b \in Pointers'} = {b.id : b \in Pointers}
    BY <1>1, <1>4, <2>1 DEF Pointers
  <2>6. Ownership' BY <1>4, <1>5, <1>8, <1>12, <2>5 DEF Ownership
  <2>7. KnownIds' BY <1>1, <1>4, <1>7, <2>1 DEF IInv, KnownIds
  <2> QED BY <1>10, <2>2, <2>3, <2>4, <2>6, <2>7 DEF IInv
<1> QED BY <1>11, <1>12

(* The other outcomes of Bitmaps::next stop the run. *)
LEMMA StoppedIInv == IInv /\ (NextPastEnd \/ NextFails) => IInv'
BY DEF IInv, NextPastEnd, NextFails, Running, TypeOK, Aligned, InOrder,
       LastIsComplete, Ownership, KnownIds, Pointers

(* C37000 starts the last bitmap again, with all its positions left. *)
LEMMA ReuseIInv == IInv /\ ReuseLast => IInv'
<1> SUFFICES ASSUME IInv, ReuseLast PROVE IInv'
  OBVIOUS
<1> DEFINE again == [last EXCEPT !.left = last.refs]
<1>1. /\ live' = live \ Pointee(current) /\ last' = NoBitmap /\ served' = {}
      /\ current' = IF last = NoBitmap THEN last ELSE again
      /\ pending' = FALSE /\ status = "run"
      /\ UNCHANGED <<subset, defined, status>>
  BY DEF ReuseLast, Running
<1>2. last # NoBitmap =>
        /\ again \in Bitmap /\ again.id = last.id /\ again.bits = last.bits
        /\ again.anchor = last.anchor /\ again.refs = last.refs
        /\ again.left = last.refs
  BY DEF IInv, TypeOK, Bitmap
<1> HIDE DEF again
<1>3. last # NoBitmap => again # NoBitmap
  BY <1>2, NoBitmapAssumption
<1>4. Pointers' = IF last = NoBitmap THEN {} ELSE {again}
  BY <1>1, <1>3 DEF Pointers
<1>5. TypeOK' BY <1>1, <1>2 DEF IInv, TypeOK
<1>6. Aligned' BY <1>1, <1>2, <1>4 DEF IInv, Aligned, Pointers
<1>7. InOrder' BY <1>1, <1>2 DEF InOrder
<1>8. LastIsComplete' BY <1>1 DEF LastIsComplete
<1>9. live \ Pointee(current) = IF last = NoBitmap THEN {} ELSE {last.id}
  BY <1>1 DEF IInv, Ownership, Pointee, Pointers
<1>10. Ownership' BY <1>1, <1>2, <1>4, <1>9 DEF Ownership
<1>11. KnownIds' BY <1>1, <1>2, <1>4 DEF IInv, KnownIds, Pointers
<1> QED BY <1>5, <1>6, <1>7, <1>8, <1>10, <1>11 DEF IInv

(* C37255 frees the last bitmap only. *)
LEMMA DiscardIInv == IInv /\ DiscardLast => IInv'
<1> SUFFICES ASSUME IInv, DiscardLast PROVE IInv'
  OBVIOUS
<1>1. /\ live' = live \ Pointee(last) /\ last' = NoBitmap /\ status = "run"
      /\ UNCHANGED <<subset, pending, current, defined, served, status>>
  BY DEF DiscardLast, Running
<1>2. Pointers' = {current} \ {NoBitmap} BY <1>1 DEF Pointers
<1>3. TypeOK' BY <1>1 DEF IInv, TypeOK
<1>4. Aligned' BY <1>1, <1>2 DEF IInv, Aligned, Pointers
<1>5. InOrder' BY <1>1 DEF IInv, InOrder
<1>6. LastIsComplete' BY <1>1 DEF LastIsComplete
<1>7. live \ Pointee(last) = IF current = NoBitmap THEN {} ELSE {current.id}
  BY <1>1 DEF IInv, Ownership, Pointee, Pointers
<1>8. Ownership' BY <1>1, <1>2, <1>7 DEF Ownership
<1>9. KnownIds' BY <1>1, <1>2 DEF IInv, KnownIds, Pointers
<1> QED BY <1>3, <1>4, <1>5, <1>6, <1>8, <1>9 DEF IInv

(* Every step keeps the inductive invariant. *)
LEMMA NextIInv == IInv /\ [Next]_vars => IInv'
<1> SUFFICES ASSUME IInv, [Next]_vars PROVE IInv'
  OBVIOUS
<1>1. CASE UNCHANGED vars
  BY <1>1 DEF vars, IInv, TypeOK, Aligned, InOrder, LastIsComplete, Ownership,
              KnownIds, Pointers
<1>2. CASE Next
  BY <1>2, StoreIInv, ExpectIInv, DefineIInv, DefineFailsIInv, NextRefIInv,
     StoppedIInv, ReuseIInv, DiscardIInv DEF Next
<1> QED BY <1>1, <1>2

(* The inductive invariant of the bitmaps of an interpreter run, for any number
   of variables and bits: the theorems below are its parts. *)
THEOREM BitmapsInv == Spec => []IInv
BY InitIInv, NextIInv, PTL DEF Spec

----------------------------------------------------------------------------
(* Type correctness of Bitmaps, for any bounds. *)
THEOREM BitmapsTypeCorrect == Spec => []TypeOK
<1>1. IInv => TypeOK BY DEF IInv
<1> QED BY <1>1, BitmapsInv, PTL

(* A value never lands on a bitmap, on character data or on a variable that
   was stored after the bitmap, whatever is stored, defined, iterated, reused
   and discarded. *)
THEOREM PositionsAligned == Spec => []Aligned
<1>1. IInv => Aligned BY DEF IInv
<1> QED BY <1>1, BitmapsInv, PTL

(* next() goes through the positions declared present in the order of the
   subset and returns each of them once per use of the bitmap. *)
THEOREM PositionsInOrder == Spec => [](InOrder /\ LastIsComplete)
<1>1. IInv => InOrder /\ LastIsComplete BY DEF IInv
<1> QED BY <1>1, BitmapsInv, PTL

(* No Bitmap object leaks and none is deleted twice while no constructor
   throws. *)
THEOREM ObjectsOwned == Spec => []Ownership
<1>1. IInv => Ownership BY DEF IInv
<1> QED BY <1>1, BitmapsInv, PTL

(* A bitmap becomes the last one at the step that returns the last of the
   positions it declares present, and at no other: what was served since it
   became active is then the whole of it. *)
THEOREM BitmapsHandedOverWhole == Spec => HandedOverWhole
<1> DEFINE HandOver == current # NoBitmap /\ last' # last /\ last' # NoBitmap
                       => last'.id = current.id /\ served' = current.refs
<1>1. IInv /\ [Next]_vars => [HandOver]_vars
  <2> SUFFICES ASSUME IInv, Next, current # NoBitmap, last' # last,
                      last' # NoBitmap
               PROVE  last'.id = current.id /\ served' = current.refs
    OBVIOUS
  <2>1. NextRef
    BY DEF Next, Store, ExpectBitmap, Define, DefineFails, NextPastEnd,
           NextFails, ReuseLast, DiscardLast
  <2> DEFINE pos  == Min(current.left)
             rest == [current EXCEPT !.left = @ \ {pos}]
  <2>2. current \in Bitmap /\ current.left \in SUBSET Positions
    BY DEF IInv, TypeOK, Bitmap
  <2>3. pos \in current.left
    BY <2>1, <2>2, MinProperty DEF NextRef
  <2>4. rest.left = current.left \ {pos} /\ rest.id = current.id
    BY <2>2 DEF Bitmap
  <2>5. rest.left = {} /\ last' = rest /\ served' = served \cup {pos}
    BY <2>1 DEF NextRef
  <2>6. current.left = {pos} BY <2>3, <2>4, <2>5
  <2> QED BY <2>4, <2>5, <2>6 DEF IInv, InOrder
<1>2. []IInv /\ [][Next]_vars => [][HandOver]_vars BY <1>1, PTL
<1> QED BY <1>2, BitmapsInv, PTL DEF Spec, HandedOverWhole

============================================================================
