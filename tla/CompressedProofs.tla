-------------------------- MODULE CompressedProofs --------------------------
(* The subsets of a compressed message keep the same shape, for any number of
   subsets, any items and any data; and each is decoded as if it were alone. *)
EXTENDS Compressed, SequenceTheorems, TLAPS

IsVar(v) == v = [code |-> v.code, val |-> v.val, attrs |-> v.attrs]

(* A sequence of variables, whatever their values. *)
IsSubset(f) ==
  /\ Len(f) \in Nat
  /\ f = [i \in 1..Len(f) |-> f[i]]
  /\ \A i \in 1..Len(f) : IsVar(f[i])

SameCodes(f, g) ==
  Len(f) = Len(g) /\ \A i \in 1..Len(g) : f[i].code = g[i].code

(* f is g and one more variable, for the descriptor code. *)
OneMore(f, g, code) ==
  /\ f = Append(g, f[Len(g) + 1])
  /\ f[Len(g) + 1].code = code

(* What has become of subset s since the item under way was sent. *)
Progress(s) ==
  IF sent.dest = "attribute" THEN SameCodes(table[s], before[s])
  ELSE IF busy /\ s <= done THEN OneMore(table[s], before[s], sent.info.code)
  ELSE table[s] = before[s]

(* The inductive invariant, in parts. *)
Subsets == /\ table = [s \in 1..N |-> table[s]]
           /\ before = [s \in 1..N |-> before[s]]
           /\ \A s \in 1..N : IsSubset(table[s]) /\ IsSubset(before[s])

Counters == done \in Nat /\ busy \in BOOLEAN

Idle == sent = NoItem => before = table /\ busy = FALSE

UnderWay == sent # NoItem => /\ Table!Sendable(sent, Len(before[1]))
                             /\ \A s \in 1..N : Progress(s)

Alike == \A s \in 1..N : SameCodes(before[s], before[1])

ShapeInv == Subsets /\ Counters /\ Idle /\ UnderWay /\ Alike

----------------------------------------------------------------------------
(* A subset is a sequence over the set of its variables. *)
LEMMA SubsetIsSeq ==
  ASSUME NEW f, IsSubset(f)
  PROVE  f \in Seq({f[i] : i \in 1..Len(f)})
<1> DEFINE S == {f[i] : i \in 1..Len(f)}
<1>1. [i \in 1..Len(f) |-> f[i]] \in [1..Len(f) -> S]
  OBVIOUS
<1>2. f \in [1..Len(f) -> S]
  BY <1>1 DEF IsSubset
<1> QED
  BY <1>2, SeqDef DEF IsSubset

(* Append adds at the end, whatever is added. *)
LEMMA AppendAny ==
  ASSUME NEW f, IsSubset(f), NEW v
  PROVE  /\ Len(Append(f, v)) = Len(f) + 1
         /\ Append(f, v) = [i \in 1..Len(f) + 1 |-> Append(f, v)[i]]
         /\ \A i \in 1..Len(f) : Append(f, v)[i] = f[i]
         /\ Append(f, v)[Len(f) + 1] = v
         /\ SubSeq(Append(f, v), 1, Len(f)) = f
<1> DEFINE S == {f[i] : i \in 1..Len(f)} \cup {v}
<1>1. f \in Seq(S)
  <2>1. [i \in 1..Len(f) |-> f[i]] \in [1..Len(f) -> S]
    OBVIOUS
  <2>2. f \in [1..Len(f) -> S]
    BY <2>1 DEF IsSubset
  <2> QED
    BY <2>2, SeqDef DEF IsSubset
<1>2. v \in S
  OBVIOUS
<1> HIDE DEF S
<1>3. Append(f, v) \in Seq(S) /\ Len(f) \in Nat
  BY <1>1, <1>2, AppendProperties
<1>4. /\ Len(Append(f, v)) = Len(f) + 1
      /\ \A i \in 1..Len(f) : Append(f, v)[i] = f[i]
      /\ Append(f, v)[Len(f) + 1] = v
  BY <1>1, <1>2, AppendProperties
<1>5. SubSeq(Append(f, v), 1, Len(f)) = f
  <2> DEFINE g == SubSeq(Append(f, v), 1, Len(f))
  <2>1. \A i \in 1..Len(f) : Append(f, v)[i] \in S
    BY <1>1, <1>3, <1>4, LenProperties
  <2>2. /\ g \in Seq(S) /\ Len(g) = Len(f)
        /\ \A i \in 1..Len(f) : g[i] = f[i]
    BY <1>3, <1>4, <2>1, SubSeqProperties
  <2> QED
    BY <1>1, <2>2, SeqEqual
<1> QED
  BY <1>3, <1>4, <1>5, LenProperties

(* store_variable adds one variable at the end, and changes no other. *)
LEMMA AppendVar ==
  ASSUME NEW f, IsSubset(f), NEW v, IsVar(v)
  PROVE  /\ IsSubset(Append(f, v))
         /\ Len(Append(f, v)) = Len(f) + 1
         /\ \A i \in 1..Len(f) : Append(f, v)[i] = f[i]
         /\ Append(f, v)[Len(f) + 1] = v
<1> DEFINE g == Append(f, v)
<1>1. /\ Len(g) = Len(f) + 1
      /\ g = [i \in 1..Len(f) + 1 |-> g[i]]
      /\ \A i \in 1..Len(f) : g[i] = f[i]
      /\ g[Len(f) + 1] = v
  BY AppendAny
<1>2. Len(f) \in Nat
  BY DEF IsSubset
<1>3. \A i \in 1..Len(g) : IsVar(g[i])
  BY <1>1, <1>2 DEF IsSubset
<1> QED
  BY <1>1, <1>2, <1>3 DEF IsSubset

(* seta changes the attributes of a variable, and not its descriptor. *)
LEMMA SetAttrs ==
  ASSUME NEW f, IsSubset(f), NEW p \in 1..Len(f), NEW a
  PROVE  /\ IsSubset([f EXCEPT ![p].attrs = a])
         /\ SameCodes([f EXCEPT ![p].attrs = a], f)
<1> DEFINE w == [f[p] EXCEPT !.attrs = a]
<1> DEFINE g == [f EXCEPT ![p] = w]
<1>1. IsVar(w) /\ w.code = f[p].code
  BY DEF IsSubset, IsVar
<1>2. f \in Seq({f[i] : i \in 1..Len(f)})
  BY SubsetIsSeq
<1>3. /\ g = [i \in 1..Len(f) |-> IF i = p THEN w ELSE f[i]]
      /\ DOMAIN g = 1..Len(f)
  BY DEF IsSubset
<1> DEFINE S == {f[i] : i \in 1..Len(f)} \cup {w}
<1>4. g \in [1..Len(f) -> S]
  BY <1>3
<1>5. Len(f) \in Nat
  BY DEF IsSubset
<1>6. g \in Seq(S) /\ Len(g) = Len(f)
  BY <1>3, <1>4, <1>5, SeqDef, LenProperties
<1>7. \A i \in 1..Len(f) : IsVar(g[i]) /\ g[i].code = f[i].code
  BY <1>1, <1>3 DEF IsSubset
<1>8. g = [i \in 1..Len(g) |-> g[i]]
  BY <1>3, <1>6
<1> QED
  BY <1>5, <1>6, <1>7, <1>8 DEF IsSubset, SameCodes

----------------------------------------------------------------------------
(* One more variable for the same descriptor leaves two subsets alike. *)
LEMMA OneMoreEach ==
  ASSUME NEW f, IsSubset(f), NEW g, IsSubset(g), SameCodes(f, g),
         NEW ff, NEW gg, NEW code, OneMore(ff, f, code), OneMore(gg, g, code)
  PROVE  SameCodes(ff, gg)
<1> DEFINE v == ff[Len(f) + 1]
           w == gg[Len(g) + 1]
<1>1. /\ ff = Append(f, v) /\ v.code = code
      /\ gg = Append(g, w) /\ w.code = code
  BY DEF OneMore
<1>2. /\ Len(Append(f, v)) = Len(f) + 1
      /\ \A i \in 1..Len(f) : Append(f, v)[i] = f[i]
      /\ Append(f, v)[Len(f) + 1] = v
  BY AppendAny
<1>3. /\ Len(Append(g, w)) = Len(g) + 1
      /\ \A i \in 1..Len(g) : Append(g, w)[i] = g[i]
      /\ Append(g, w)[Len(g) + 1] = w
  BY AppendAny
<1> QED
  BY <1>1, <1>2, <1>3 DEF SameCodes, IsSubset

----------------------------------------------------------------------------
(* No message has been read: there is nothing to compare. *)
LEMMA InitShape == Init => ShapeInv
<1> SUFFICES ASSUME Init PROVE ShapeInv
  OBVIOUS
<1> USE DEF Init
<1>1. IsSubset(<<>>) /\ Len(<<>>) = 0
  BY DEF IsSubset
<1>2. Subsets
  BY <1>1 DEF Subsets
<1>3. \A s \in 1..N : before[s] = <<>>
  OBVIOUS
<1>4. Alike
  BY <1>1, <1>3, NAssumption DEF Alike, SameCodes
<1>5. Counters /\ Idle /\ UnderWay
  BY DEF Counters, Idle, UnderWay
<1> QED
  BY <1>2, <1>4, <1>5 DEF ShapeInv

(* The sender sends a new item only when the last one is over. *)
LEMMA SendShape == ShapeInv /\ Send => ShapeInv'
<1> SUFFICES ASSUME ShapeInv, Send PROVE ShapeInv'
  OBVIOUS
<1>1. before = table /\ busy = FALSE
  BY DEF ShapeInv, Idle, Send
<1>2. table' = table /\ before' = before /\ busy' = busy /\ done' = done
  BY <1>1 DEF Send
<1>3. Subsets' /\ Counters' /\ Alike'
  BY <1>2 DEF ShapeInv, Subsets, Counters, Alike
<1>4. Idle'
  BY <1>1, <1>2 DEF Idle
<1>5. Table!Sendable(sent', Len(before'[1]))
  BY <1>1, <1>2 DEF Send
<1>6. \A s \in 1..N : Progress(s)'
  BY <1>1, <1>2 DEF Progress, SameCodes
<1> QED
  BY <1>3, <1>4, <1>5, <1>6 DEF ShapeInv, UnderWay

(* The base value is read for all the subsets, and none has been given it. *)
LEMMA BeginShape == ShapeInv /\ Begin => ShapeInv'
<1> SUFFICES ASSUME ShapeInv, Begin PROVE ShapeInv'
  OBVIOUS
<1>1. table' = table /\ before' = before /\ sent' = sent /\ sent # NoItem
  BY DEF Begin
<1>2. busy = FALSE
  BY DEF Begin, ShapeInv, Counters
<1>3. (busy' = busy /\ done' = done) \/ (busy' = TRUE /\ done' = 0)
  <2>1. CASE Refused
    BY <2>1 DEF Begin
  <2>2. CASE ~Refused
    BY <2>2 DEF Begin
  <2> QED
    BY <2>1, <2>2
<1>4. Subsets' /\ Alike' /\ Idle'
  BY <1>1 DEF ShapeInv, Subsets, Alike, Idle
<1>5. Counters'
  <2>1. CASE busy' = busy /\ done' = done
    BY <2>1 DEF ShapeInv, Counters
  <2>2. CASE busy' = TRUE /\ done' = 0
    BY <2>2 DEF Counters
  <2> QED
    BY <1>3, <2>1, <2>2
<1>6. \A s \in 1..N : Progress(s) /\ ~(busy' /\ s <= done')
  BY <1>1, <1>2, <1>3, NAssumption DEF ShapeInv, UnderWay
<1>7. \A s \in 1..N : Progress(s)'
  BY <1>1, <1>2, <1>6 DEF Progress, SameCodes
<1> QED
  BY <1>1, <1>4, <1>5, <1>7 DEF ShapeInv, UnderWay

(* One subset has its value: it goes ahead of the others by one variable, or by
   none when the value is an attribute. *)
LEMMA DeliverShape == ShapeInv /\ Deliver => ShapeInv'
<1> SUFFICES ASSUME ShapeInv, Deliver, NEW d, d = done + 1 PROVE ShapeInv'
  OBVIOUS
<1>1. /\ busy = TRUE /\ sent # NoItem /\ d \in 1..N /\ done \in Nat
      /\ before' = before /\ sent' = sent /\ busy' = busy /\ done' = d
  BY NAssumption DEF ShapeInv, Counters, Idle, Deliver
<1>2. /\ \A s \in 1..N : Progress(s)
      /\ Table!Sendable(sent, Len(before[1]))
  BY <1>1 DEF ShapeInv, UnderWay
<1>3. /\ IsVar(Filled(d)) /\ Filled(d).code = sent.info.code
  BY DEF Filled, IsVar
<1>4. IsSubset(table[d]) /\ IsSubset(before[d])
  BY <1>1 DEF ShapeInv, Subsets
<1>5. /\ table' = [table EXCEPT ![d] = table'[d]]
      /\ IsSubset(table'[d])
      /\ Progress(d)'
  <2>1. CASE sent.dest # "attribute"
    <3>1. table' = [table EXCEPT ![d] = Append(table[d], Filled(d))]
      BY <2>1 DEF Deliver, Dispatch
    <3>2. table'[d] = Append(before[d], Filled(d))
      BY <1>1, <1>2, <2>1, <3>1 DEF ShapeInv, Subsets, Progress
    <3>3. IsSubset(table'[d])
      BY <1>3, <1>4, <3>2, AppendVar
    <3>4. OneMore(table'[d], before[d], sent.info.code)
      BY <1>3, <1>4, <3>2, AppendVar DEF OneMore
    <3>5. Progress(d)'
      BY <1>1, <2>1, <3>4 DEF Progress
    <3>6. table' = [table EXCEPT ![d] = table'[d]]
      BY <1>1, <3>1 DEF ShapeInv, Subsets
    <3> QED
      BY <3>3, <3>5, <3>6
  <2>2. CASE sent.dest = "attribute"
    <3> DEFINE a == Table!SetAttr(table[d][sent.pos].attrs, Filled(d).code, Filled(d).val)
    <3>1. table' = [table EXCEPT ![d] = [table[d] EXCEPT ![sent.pos].attrs = a]]
      BY <2>2 DEF Deliver, Dispatch
    <3>2. table'[d] = [table[d] EXCEPT ![sent.pos].attrs = a]
      BY <1>1, <3>1 DEF ShapeInv, Subsets
    <3>3. SameCodes(table[d], before[d])
      BY <1>1, <1>2, <2>2 DEF Progress
    <3>4. sent.pos \in 1..Len(table[d])
      BY <1>1, <1>2, <2>2, <3>3 DEF Table!Sendable, ShapeInv, Alike, SameCodes
    <3> HIDE DEF a
    <3>5. IsSubset(table'[d]) /\ SameCodes(table'[d], table[d])
      <4>1. /\ IsSubset([table[d] EXCEPT ![sent.pos].attrs = a])
            /\ SameCodes([table[d] EXCEPT ![sent.pos].attrs = a], table[d])
        BY <1>4, <3>4, SetAttrs
      <4> QED
        BY <3>2, <4>1
    <3>6. SameCodes(table'[d], before[d])
      BY <3>3, <3>5 DEF SameCodes
    <3>7. Progress(d)'
      BY <1>1, <2>2, <3>6 DEF Progress
    <3>8. table' = [table EXCEPT ![d] = table'[d]]
      BY <1>1, <3>1 DEF ShapeInv, Subsets
    <3> QED
      BY <3>5, <3>7, <3>8
  <2> QED
    BY <2>1, <2>2
<1>6. \A s \in 1..N : s # d => table'[s] = table[s]
  BY <1>5 DEF ShapeInv, Subsets
<1>7. Subsets'
  <2>1. table' = [s \in 1..N |-> table'[s]]
    BY <1>1, <1>5 DEF ShapeInv, Subsets
  <2> QED
    BY <1>1, <1>5, <1>6, <2>1 DEF ShapeInv, Subsets
<1>8. \A s \in 1..N : Progress(s)'
  <2> SUFFICES ASSUME NEW s \in 1..N, s # d PROVE Progress(s)'
    BY <1>5
  <2>1. table'[s] = table[s] /\ (s <= d <=> s <= done)
    BY <1>1, <1>6
  <2> QED
    BY <1>1, <1>2, <2>1 DEF Progress, SameCodes
<1>9. Counters' /\ Idle' /\ Alike'
  BY <1>1 DEF ShapeInv, Counters, Idle, Alike
<1> QED
  BY <1>1, <1>2, <1>7, <1>8, <1>9 DEF ShapeInv, UnderWay

(* All the subsets have gone ahead by the same step. *)
LEMMA EndShape == ShapeInv /\ End => ShapeInv'
<1> SUFFICES ASSUME ShapeInv, End PROVE ShapeInv'
  OBVIOUS
<1>1. /\ busy = TRUE /\ done = N /\ sent # NoItem
      /\ table' = table /\ before' = table
      /\ busy' = FALSE /\ sent' = NoItem /\ done' = 0
  BY DEF End, ShapeInv, Idle, Counters
<1>2. Subsets' /\ Counters' /\ Idle' /\ UnderWay'
  BY <1>1 DEF ShapeInv, Subsets, Counters, Idle, UnderWay
<1>3. 1 \in 1..N /\ \A s \in 1..N : s <= done
  BY <1>1, NAssumption
<1>4. ASSUME NEW s \in 1..N
      PROVE  SameCodes(table[s], table[1])
  <2>1. Progress(s) /\ Progress(1) /\ SameCodes(before[s], before[1])
    BY <1>1, <1>3 DEF ShapeInv, UnderWay, Alike
  <2>2. CASE sent.dest = "attribute"
    BY <2>1, <2>2 DEF Progress, SameCodes
  <2>3. CASE sent.dest # "attribute"
    <3>1. /\ OneMore(table[s], before[s], sent.info.code)
          /\ OneMore(table[1], before[1], sent.info.code)
      BY <1>1, <1>3, <2>1, <2>3 DEF Progress
    <3>2. IsSubset(before[s]) /\ IsSubset(before[1])
      BY <1>3 DEF ShapeInv, Subsets
    <3> QED
      BY <2>1, <3>1, <3>2, OneMoreEach
  <2> QED
    BY <2>2, <2>3
<1> QED
  BY <1>1, <1>2, <1>4 DEF ShapeInv, Alike

(* One step per action. *)
LEMMA StepShape == ShapeInv /\ [Next]_vars => ShapeInv'
<1>1. ShapeInv /\ UNCHANGED vars => ShapeInv'
  <2> SUFFICES ASSUME ShapeInv, UNCHANGED vars PROVE ShapeInv'
    OBVIOUS
  <2> USE DEF vars
  <2>1. Subsets' /\ Counters' /\ Idle' /\ Alike'
    BY DEF ShapeInv, Subsets, Counters, Idle, Alike
  <2>2. ASSUME NEW s \in 1..N, Progress(s) PROVE Progress(s)'
    BY <2>2 DEF Progress, SameCodes, OneMore
  <2> QED
    BY <2>1, <2>2 DEF ShapeInv, UnderWay
<1> QED
  BY <1>1, SendShape, BeginShape, DeliverShape, EndShape DEF Next

(* The invariant holds in every state of the decoder. *)
THEOREM Shape == Spec => []ShapeInv
  BY InitShape, StepShape, PTL DEF Spec

(* All the subsets have the same descriptors in the same order when an item is
   over, so that the interpreter may look at the first for all of them; while the
   loop hands out an item no subset loses or changes a variable, and none is more
   than one ahead. *)
THEOREM ShapeIsSame == Spec => []SameShape
<1>1. ASSUME ShapeInv, sent = NoItem, NEW s \in 1..N
      PROVE  /\ Len(table[s]) = Len(table[1])
             /\ \A i \in DOMAIN table[1] : table[s][i].code = table[1][i].code
  <2>1. SameCodes(table[s], table[1]) /\ IsSubset(table[1])
    BY <1>1, NAssumption DEF ShapeInv, Subsets, Idle, Alike
  <2>2. DOMAIN table[1] = 1..Len(table[1])
    BY <2>1 DEF IsSubset
  <2> QED
    BY <2>1, <2>2 DEF SameCodes
<1>2. ASSUME ShapeInv, sent # NoItem, NEW s \in 1..N
      PROVE  IF busy /\ s <= done /\ sent.dest # "attribute"
               THEN /\ Len(table[s]) = Len(before[s]) + 1
                    /\ SubSeq(table[s], 1, Len(before[s])) = before[s]
               ELSE Len(table[s]) = Len(before[s])
  <2>1. Progress(s) /\ IsSubset(before[s])
    BY <1>2 DEF ShapeInv, UnderWay, Subsets
  <2>2. CASE busy /\ s <= done /\ sent.dest # "attribute"
    <3> DEFINE v == table[s][Len(before[s]) + 1]
    <3>1. table[s] = Append(before[s], v)
      BY <2>1, <2>2 DEF Progress, OneMore
    <3> HIDE DEF v
    <3>2. /\ Len(table[s]) = Len(before[s]) + 1
          /\ SubSeq(table[s], 1, Len(before[s])) = before[s]
      BY <2>1, <3>1, AppendAny
    <3> QED
      BY <2>2, <3>2
  <2>3. CASE ~(busy /\ s <= done /\ sent.dest # "attribute")
    BY <2>1, <2>3 DEF Progress, SameCodes
  <2> QED
    BY <2>2, <2>3
<1>3. ShapeInv => SameShape
  BY <1>1, <1>2 DEF SameShape
<1> QED
  BY <1>3, Shape, PTL
----------------------------------------------------------------------------
(* Compressed sections implement SubsetTable. *)
(* The attributes of a variable that have a value. *)
KnownAttrs(a) == [c \in {c \in DOMAIN a : a[c] # Unset} |-> a[c]]

KnownVar(v) == [v EXCEPT !.attrs = KnownAttrs(@)]

(* What is on its way is a coding of the item. *)
Coded ==
  sent # NoItem =>
    /\ sent \in Items
    /\ stream.part \in Parts(sent)
    /\ stream.af \in IF sent.dest = "field"
                       THEN FieldParts(sent.field.bit_count, sent.afs) ELSE {NoPart}

(* The Var that goes around has no attributes but the one that all subsets get. *)
CarriesOwn ==
  busy => /\ ~Refused /\ fields = AttrsMade
          /\ \A c \in DOMAIN var.attrs :
               /\ sent.dest = "field"
               /\ \A s \in 1..N : fields[s] # NullAttr
               /\ c = AttributeOf[sent.field.significance]

(* The subsets that had their value are as if each had been decoded alone. *)
AloneSoFar ==
  sent # NoItem =>
    \A s \in 1..N :
      IF busy /\ s <= done THEN Known(table[s]) = Table!Decoded(Known(before[s]), sent, s)
      ELSE table[s] = before[s]

AloneInv == Coded /\ CarriesOwn /\ AloneSoFar

----------------------------------------------------------------------------
(* The widths that the proofs compute with are numbers. *)
LEMMA OnesInt == \A w \in Nat : AllOnes(w) \in Int
  BY DEF AllOnes

(* What an item is made of. *)
LEMMA ItemType ==
  ASSUME NEW item \in Items
  PROVE  /\ item.dest \in {"store", "uniform", "field", "attribute", "chardata", "refval"}
         /\ item.pos \in Nat
         /\ item.info.type \in {"Integer", "String", "Binary"}
         /\ item.info.bit_len \in Nat /\ item.info.bit_ref \in Int
         /\ item.field.bit_count \in Nat
         /\ item.raws \in [1..N -> Nat] /\ item.afs \in [1..N -> Nat]
<1>1. item \in Table!Item
  BY ItemsAssumption
<1>2. /\ item.dest \in {"store", "uniform", "field", "attribute", "chardata", "refval"}
      /\ item.pos \in Nat /\ item.info \in Varinfo
      /\ item.field \in [bit_count : 1..32, significance : 1..63, skip_missing : BOOLEAN]
      /\ item.raws \in [1..N -> Nat] /\ item.afs \in [1..N -> Nat]
  <2>1. Table!Varinfo = Varinfo
    BY DEF Table!Varinfo, Varinfo, Table!Code, Code
  <2> QED
    BY <1>1, <2>1 DEF Table!Item
<1>3. item.info.type \in {"Integer", "String", "Binary"}
  BY <1>2 DEF Varinfo
<1>4. item.info.bit_len \in Nat /\ item.info.bit_ref \in Int
  BY <1>2 DEF Varinfo
<1>5. item.field.bit_count \in Nat
  <2>1. item.field.bit_count \in 1..32
    BY <1>2
  <2> QED
    BY <2>1
<1> QED
  BY <1>2, <1>3, <1>4, <1>5

(* What the loop makes of the base and the differences of a number is the number. *)
LEMMA NumberIsAlone ==
  ASSUME NEW item \in Items, item.info.type = "Integer",
         NEW part \in NumberParts(item.info.bit_len, item.raws), NEW s \in 1..N
  PROVE  NumberOf(item.info, part, s) = DecodeNumber(item.info, item.raws[s])
<1> DEFINE w == item.info.bit_len
           raw == item.raws[s]
<1>1. w \in Nat /\ raw \in Nat /\ item.raws \in [1..N -> Nat]
  BY ItemType
<1>2. PICK c \in (0..AllOnes(w)) \X (0..w) :
        /\ Codes(w, item.raws, c[1], c[2])
        /\ part = Part(c[1], c[2], [t \in 1..N |-> Difference(w, item.raws[t], c[1], c[2])])
  BY DEF NumberParts
<1>3. PICK base, nbits : base = c[1] /\ nbits = c[2]
  OBVIOUS
<1>4. /\ base \in Int /\ nbits \in Nat
      /\ part.base = base /\ part.nbits = nbits
      /\ part.diffs[s] = Difference(w, raw, base, nbits)
      /\ Codes(w, item.raws, base, nbits)
  BY <1>1, <1>2, <1>3, OnesInt DEF Part
<1>5. AllOnes(w) \in Int /\ AllOnes(nbits) \in Int
  BY <1>1, <1>4, OnesInt
<1>6. raw = AllOnes(w) => item.info.code \notin NeverMissing
  BY ItemsAssumption
<1> HIDE DEF w, raw
<1>7. CASE nbits = 0
  <2>1. raw = base /\ part.diffs[s] = 0
    BY <1>4, <1>7 DEF Codes, Difference, raw
  <2>2. NumberOf(item.info, part, s) = IF base = AllOnes(w) THEN Unset
                                       ELSE base + item.info.bit_ref
    BY <1>4, <1>5, <1>7, <2>1 DEF NumberOf, w
  <2> QED
    BY <1>6, <2>1, <2>2 DEF DecodeNumber, w, raw
<1>8. CASE nbits # 0
  <2>1. /\ base < AllOnes(w)
        /\ raw # AllOnes(w) => raw - base \in 0..(AllOnes(nbits) - 1)
    BY <1>4, <1>8 DEF Codes, raw
  <2>2. CASE raw = AllOnes(w)
    <3>1. part.diffs[s] = AllOnes(nbits)
      BY <1>4, <1>8, <2>2 DEF Difference
    <3>2. NumberOf(item.info, part, s) = Unset
      BY <1>4, <1>8, <3>1 DEF NumberOf
    <3> QED
      BY <1>6, <2>2, <3>2 DEF DecodeNumber, w, raw
  <2>3. CASE raw # AllOnes(w)
    <3>1. part.diffs[s] = raw - base
      BY <1>4, <1>8, <2>3 DEF Difference
    <3>2. /\ part.diffs[s] # AllOnes(nbits) /\ base # AllOnes(w)
          /\ base + part.diffs[s] = raw
      BY <1>1, <1>4, <1>5, <2>1, <2>3, <3>1 DEF raw
    <3>3. NumberOf(item.info, part, s) = raw + item.info.bit_ref
      BY <1>4, <2>3, <3>2 DEF NumberOf, w
    <3> QED
      BY <2>3, <3>3 DEF DecodeNumber, w, raw
  <2> QED
    BY <2>2, <2>3
<1> QED
  BY <1>7, <1>8

(* So is a string, sent once for all or a whole one for each subset. *)
LEMMA StringIsAlone ==
  ASSUME NEW item \in Items, item.info.type = "String",
         NEW part \in StringParts(item.info.bit_len, item.raws), NEW s \in 1..N
  PROVE  StringOf(item.info, part, s) = DecodeString(item.info, item.raws[s])
<1> DEFINE w == item.info.bit_len
<1>1. w \in Nat /\ item.raws \in [1..N -> Nat] /\ item.raws[s] <= AllOnes(w)
  BY ItemType, ItemsAssumption
<1>2. CASE part = Part(0, w, item.raws)
  <2>1. part.base = 0 /\ part.nbits = w /\ part.diffs = item.raws
    BY <1>2 DEF Part
  <2>2. w = 0 => item.raws[s] = 0
    <3> SUFFICES ASSUME w = 0 PROVE item.raws[s] = 0
      OBVIOUS
    <3>1. AllOnes(0) = 0
      BY DEF AllOnes
    <3>2. item.raws[s] \in Nat /\ item.raws[s] <= AllOnes(0)
      BY <1>1
    <3> QED
      BY <3>1, <3>2
  <2> QED
    BY <2>1, <2>2 DEF StringOf
<1>3. CASE AllSame(item.raws) /\ part = Part(item.raws[1], 0, Zeros)
  <2>1. part.base = item.raws[1] /\ part.nbits = 0 /\ item.raws[s] = item.raws[1]
    BY <1>3 DEF Part, AllSame
  <2> QED
    BY <2>1 DEF StringOf
<1> QED
  BY <1>2, <1>3 DEF StringParts

(* Each subset is handed the value it would decode alone. *)
LEMMA ValueIsAlone ==
  ASSUME Coded, sent # NoItem, ~Refused, NEW s \in 1..N
  PROVE  ValueOf(sent.info, stream.part, s) = DecodeValue(sent.info, sent.raws[s])
<1>1. sent \in Items /\ stream.part \in Parts(sent)
  BY DEF Coded
<1>2. sent.info.type = "Integer" \/ sent.info.type = "String"
  BY <1>1, ItemType DEF Refused, Unimplemented
<1>3. CASE sent.info.type = "Integer"
  <2>1. stream.part # BrokenPart(sent.info.bit_len)
    BY <1>3 DEF Refused, RefusedBase, BrokenPart, Part
  <2>2. stream.part \in NumberParts(sent.info.bit_len, sent.raws)
    BY <1>1, <1>3, <2>1 DEF Parts
  <2>3. DecodeValue(sent.info, sent.raws[s]) = DecodeNumber(sent.info, sent.raws[s])
    BY <1>3 DEF DecodeValue
  <2> QED
    BY <1>1, <1>3, <2>2, <2>3, NumberIsAlone DEF ValueOf
<1>4. CASE sent.info.type = "String"
  <2>1. DecodeValue(sent.info, sent.raws[s]) = DecodeString(sent.info, sent.raws[s])
    BY <1>4 DEF DecodeValue
  <2> QED
    BY <1>1, <1>4, <2>1, StringIsAlone DEF ValueOf, Parts
<1> QED
  BY <1>2, <1>3, <1>4

----------------------------------------------------------------------------
(* SubsetTable decodes fields as Compressed does. *)
LEMMA SameFields ==
  /\ \A info, raw : Table!DecodeValue(info, raw) = DecodeValue(info, raw)
  /\ \A field, af : /\ Table!MakesAttribute(field, af) <=> MakesAttribute(field, af)
                    /\ Table!AttributeValue(field, af) = AttributeValue(field, af)
  /\ Table!AttributeOf = AttributeOf
<1>1. /\ \A w : Table!AllOnes(w) = AllOnes(w)
      /\ Table!NeverMissing = NeverMissing /\ Table!AttributeOf = AttributeOf
  BY DEF Table!AllOnes, AllOnes, Table!NeverMissing, NeverMissing, Table!AttributeOf,
         AttributeOf
<1>2. \A info, raw : /\ Table!DecodeString(info, raw) = DecodeString(info, raw)
                     /\ Table!DecodeBinary(info, raw) = DecodeBinary(info, raw)
                     /\ Table!DecodeNumber(info, raw) = DecodeNumber(info, raw)
  BY <1>1 DEF Table!DecodeString, DecodeString, Table!DecodeBinary, DecodeBinary,
              Table!DecodeNumber, DecodeNumber, Table!AllBytesOnes, AllBytesOnes
<1>3. \A info, raw : Table!DecodeValue(info, raw) = DecodeValue(info, raw)
  BY <1>2 DEF Table!DecodeValue, DecodeValue
<1>4. \A field, af : Table!MakesAttribute(field, af) <=> MakesAttribute(field, af)
  BY <1>1 DEF Table!MakesAttribute, MakesAttribute
<1>5. \A field, af : Table!AttributeValue(field, af) = AttributeValue(field, af)
  BY <1>1 DEF Table!AttributeValue, AttributeValue
<1> QED
  BY <1>1, <1>3, <1>4, <1>5

(* The associated field of a subset, from the base and the differences. *)
LEMMA FieldIsAlone ==
  ASSUME Coded, sent # NoItem, sent.dest = "field", NEW s \in 1..N
  PROVE  /\ stream.af.base + stream.af.diffs[s] = sent.afs[s]
         /\ stream.af.base = AllOnes(sent.field.bit_count) =>
              sent.afs[s] = AllOnes(sent.field.bit_count)
<1> DEFINE w == sent.field.bit_count
<1>1. /\ sent \in Items /\ w \in Nat /\ sent.afs \in [1..N -> Nat]
      /\ stream.af \in FieldParts(w, sent.afs)
  BY ItemType DEF Coded
<1>2. PICK c \in (0..AllOnes(w)) \X (0..w) :
        /\ c[1] = AllOnes(w) => c[2] = 0
        /\ \A t \in 1..N : sent.afs[t] - c[1] \in 0..AllOnes(c[2])
        /\ stream.af = Part(c[1], c[2], [t \in 1..N |-> sent.afs[t] - c[1]])
  BY <1>1 DEF FieldParts
<1>3. PICK base, nbits : base = c[1] /\ nbits = c[2]
  OBVIOUS
<1>4. /\ base \in Int /\ stream.af.base = base
      /\ stream.af.diffs[s] = sent.afs[s] - base
      /\ base = AllOnes(w) => sent.afs[s] - base \in 0..AllOnes(0)
  BY <1>1, <1>2, <1>3, OnesInt DEF Part
<1>5. AllOnes(0) = 0 /\ sent.afs[s] \in Nat
  <2>1. AllOnes(0) = 0
    BY DEF AllOnes
  <2> QED
    BY <1>1, <2>1
<1> HIDE DEF w
<1>6. stream.af.base + stream.af.diffs[s] = sent.afs[s]
  BY <1>4, <1>5
<1>7. base = AllOnes(w) => sent.afs[s] = AllOnes(w)
  BY <1>4, <1>5
<1> QED
  BY <1>4, <1>6, <1>7 DEF w

(* A field of all ones for every subset makes no attribute with a value. *)
LEMMA OnesMakeNone ==
  ASSUME NEW item \in Items, item.dest = "field", NEW s \in 1..N,
         \A t \in 1..N : item.afs[t] = AllOnes(item.field.bit_count)
  PROVE  Table!FieldAttrs(item.field, item.afs[s]) = Table!NoAttrs
<1>1. item.field.significance # 21
  BY ItemsAssumption
<1>2. AttributeValue(item.field, item.afs[s]) = Unset
  BY <1>1 DEF AttributeValue
<1> QED
  BY <1>2, SameFields DEF Table!FieldAttrs, Table!SetAttr

(* The attribute that each subset is given. *)
LEMMA FieldsMade ==
  ASSUME Coded, CarriesOwn, busy, sent # NoItem, NEW s \in 1..N
  PROVE  /\ fields[s] = NullAttr \/
              /\ sent.dest = "field" /\ MakesAttribute(sent.field, sent.afs[s])
              /\ fields[s] # NullAttr
              /\ fields[s][1] = AttributeOf[sent.field.significance]
              /\ fields[s][2] = AttributeValue(sent.field, sent.afs[s])
              /\ \A t \in 1..N : fields[t] # NullAttr
         /\ fields[s] = NullAttr /\ sent.dest = "field" =>
              Table!FieldAttrs(sent.field, sent.afs[s]) = Table!NoAttrs
<1>1. fields = AttrsMade /\ sent \in Items
  BY DEF CarriesOwn, Coded
<1>2. CASE sent.dest # "field"
  BY <1>1, <1>2 DEF AttrsMade
<1>3. CASE sent.dest = "field" /\ stream.af.base = AllOnes(sent.field.bit_count)
  <2>1. fields[s] = NullAttr
    BY <1>1, <1>3 DEF AttrsMade
  <2>2. \A t \in 1..N : sent.afs[t] = AllOnes(sent.field.bit_count)
    BY <1>3, FieldIsAlone
  <2> QED
    BY <1>1, <1>3, <2>1, <2>2, OnesMakeNone
<1>4. CASE sent.dest = "field" /\ stream.af.base # AllOnes(sent.field.bit_count)
  <2>1. \A t \in 1..N : stream.af.base + stream.af.diffs[t] = sent.afs[t]
    BY <1>4, FieldIsAlone
  <2>2. ASSUME NEW t \in 1..N
        PROVE  fields[t] = IF ~MakesAttribute(sent.field, sent.afs[t]) THEN NullAttr
                           ELSE <<AttributeOf[sent.field.significance],
                                  AttributeValue(sent.field, sent.afs[t])>>
    BY <1>1, <1>4, <2>1 DEF AttrsMade
  <2>3. \A a, b : <<a, b>> # NullAttr
    BY DEF NullAttr
  <2>4. CASE ~MakesAttribute(sent.field, sent.afs[s])
    BY <1>4, <2>2, <2>4, SameFields DEF Table!FieldAttrs
  <2>5. CASE MakesAttribute(sent.field, sent.afs[s])
    <3>1. \A t \in 1..N : MakesAttribute(sent.field, sent.afs[t])
      BY <1>1, <1>4, <2>5, ItemsAssumption DEF FieldsAlike
    <3>2. \A t \in 1..N : fields[t] = <<AttributeOf[sent.field.significance],
                                        AttributeValue(sent.field, sent.afs[t])>>
      BY <2>2, <3>1
    <3>3. \A t \in 1..N : fields[t] # NullAttr
      BY <2>3, <3>2
    <3>4. /\ fields[s][1] = AttributeOf[sent.field.significance]
          /\ fields[s][2] = AttributeValue(sent.field, sent.afs[s])
      BY <3>2
    <3> QED
      BY <1>4, <2>5, <3>3, <3>4
  <2> QED
    BY <2>4, <2>5
<1> QED
  BY <1>2, <1>3, <1>4

(* The Var that goes around brings no attribute of a subset to another. *)
LEMMA AttrsAreAlone ==
  ASSUME Coded, CarriesOwn, busy, sent # NoItem, NEW s \in 1..N
  PROVE  /\ KnownAttrs(AttrsOf(s)) = IF sent.dest = "field"
                                       THEN Table!FieldAttrs(sent.field, sent.afs[s])
                                       ELSE Table!NoAttrs
         /\ \A c \in DOMAIN AttrsOf(s) :
              /\ sent.dest = "field"
              /\ \A t \in 1..N : fields[t] # NullAttr
              /\ c = AttributeOf[sent.field.significance]
<1> DEFINE old == IF Shared THEN var.attrs ELSE Table!NoAttrs
           code == AttributeOf[sent.field.significance]
           val == AttributeValue(sent.field, sent.afs[s])
<1>1. \A c \in DOMAIN old : /\ sent.dest = "field" /\ c = code
                           /\ \A t \in 1..N : fields[t] # NullAttr
  BY DEF CarriesOwn, Table!NoAttrs
<1>2. CASE fields[s] = NullAttr
  <2>1. AttrsOf(s) = old
    BY <1>2 DEF AttrsOf
  <2>2. DOMAIN old = {}
    BY <1>1, <1>2
  <2>3. KnownAttrs(old) = Table!NoAttrs
    BY <2>2 DEF KnownAttrs, Table!NoAttrs
  <2> QED
    BY <1>2, <2>1, <2>2, <2>3, FieldsMade
<1>3. CASE fields[s] # NullAttr
  <2>1. /\ sent.dest = "field" /\ MakesAttribute(sent.field, sent.afs[s])
        /\ fields[s][1] = code /\ fields[s][2] = val
        /\ \A t \in 1..N : fields[t] # NullAttr
    BY <1>3, FieldsMade
  <2>2. AttrsOf(s) = [c \in (DOMAIN old) \cup {code} |-> IF c = code THEN val ELSE old[c]]
    BY <1>3, <2>1 DEF AttrsOf
  <2>3. (DOMAIN old) \cup {code} = {code}
    BY <1>1
  <2> HIDE DEF old, code, val
  <2>4. AttrsOf(s) = [c \in {code} |-> val]
    BY <2>2, <2>3
  <2>5. Table!FieldAttrs(sent.field, sent.afs[s]) = Table!SetAttr(Table!NoAttrs, code, val)
    BY <2>1, SameFields DEF Table!FieldAttrs, code, val
  <2>6. KnownAttrs([c \in {code} |-> val]) = Table!SetAttr(Table!NoAttrs, code, val)
    <3>1. DOMAIN Table!NoAttrs = {}
      BY DEF Table!NoAttrs
    <3>2. CASE val = Unset
      BY <3>2 DEF KnownAttrs, Table!SetAttr, Table!NoAttrs
    <3>3. CASE val # Unset
      <4>1. Table!SetAttr(Table!NoAttrs, code, val) = [c \in {code} |-> val]
        BY <3>1, <3>3 DEF Table!SetAttr
      <4>2. {c \in {code} : [d \in {code} |-> val][c] # Unset} = {code}
        BY <3>3
      <4> QED
        BY <4>1, <4>2 DEF KnownAttrs
    <3> QED
      BY <3>2, <3>3
  <2> QED
    BY <2>1, <2>4, <2>5, <2>6 DEF code
<1> QED
  BY <1>2, <1>3

----------------------------------------------------------------------------
(* What is known of a subset is a subset. *)
LEMMA KnownIsSubset ==
  ASSUME NEW f, IsSubset(f)
  PROVE  /\ Known(f) = [i \in 1..Len(f) |-> KnownVar(f[i])]
         /\ IsSubset(Known(f)) /\ Len(Known(f)) = Len(f)
<1>1. DOMAIN f = 1..Len(f) /\ Len(f) \in Nat
  BY DEF IsSubset
<1>2. Known(f) = [i \in 1..Len(f) |-> KnownVar(f[i])]
  BY <1>1 DEF Known, KnownVar, KnownAttrs
<1>3. \A i \in 1..Len(f) : IsVar(KnownVar(f[i]))
  BY DEF IsSubset, IsVar, KnownVar
<1> DEFINE S == {KnownVar(f[i]) : i \in 1..Len(f)}
<1>4. Known(f) \in [1..Len(f) -> S]
  BY <1>2
<1> HIDE DEF S
<1>5. Known(f) \in Seq(S) /\ Len(Known(f)) = Len(f)
  BY <1>1, <1>2, <1>4, SeqDef, LenProperties
<1>6. Known(f) = [i \in 1..Len(Known(f)) |-> Known(f)[i]]
  BY <1>2, <1>5
<1> QED
  BY <1>1, <1>2, <1>3, <1>5, <1>6 DEF IsSubset

(* A variable more, or an attribute more, is one more of what is known. *)
LEMMA KnownAppend ==
  ASSUME NEW f, IsSubset(f), NEW v, IsVar(v)
  PROVE  Known(Append(f, v)) = Append(Known(f), KnownVar(v))
<1> DEFINE n == Len(f)
           g == Append(f, v)
           k == Append(Known(f), KnownVar(v))
<1>1. n \in Nat /\ IsSubset(g) /\ Len(g) = n + 1 /\ g[n + 1] = v
      /\ \A i \in 1..n : g[i] = f[i]
  BY AppendVar DEF IsSubset
<1>2. /\ Known(f) = [i \in 1..n |-> KnownVar(f[i])]
      /\ IsSubset(Known(f)) /\ Len(Known(f)) = n
  BY KnownIsSubset
<1>3. /\ k = [i \in 1..n + 1 |-> k[i]] /\ k[n + 1] = KnownVar(v)
      /\ \A i \in 1..n : k[i] = Known(f)[i]
  BY <1>2, AppendAny
<1>4. Known(g) = [i \in 1..n + 1 |-> KnownVar(g[i])]
  BY <1>1, KnownIsSubset
<1> HIDE DEF n, g, k
<1>5. ASSUME NEW i \in 1..n + 1
      PROVE  KnownVar(g[i]) = k[i]
  <2>1. CASE i = n + 1
    BY <1>1, <1>3, <2>1
  <2>2. CASE i # n + 1
    <3>1. i \in 1..n
      BY <1>1, <2>2
    <3> QED
      BY <1>1, <1>2, <1>3, <3>1
  <2> QED
    BY <2>1, <2>2
<1>6. Known(g) = k
  BY <1>3, <1>4, <1>5
<1> QED
  BY <1>6 DEF g, k

(* An attribute that is set is set in what is known, and one unset is not known. *)
LEMMA KnownSet ==
  ASSUME NEW a, NEW code, NEW val
  PROVE  KnownAttrs(Table!SetAttr(a, code, val)) = Table!SetAttr(KnownAttrs(a), code, val)
<1>1. CASE val = Unset
  BY <1>1 DEF Table!SetAttr
<1>2. CASE val # Unset
  <2> DEFINE b == [c \in (DOMAIN a) \cup {code} |-> IF c = code THEN val ELSE a[c]]
             K == {c \in DOMAIN a : a[c] # Unset}
             k == [c \in K |-> a[c]]
  <2>1. {c \in DOMAIN b : b[c] # Unset} = K \cup {code}
    BY <1>2
  <2>2. KnownAttrs(b) = [c \in K \cup {code} |-> b[c]]
    BY <2>1 DEF KnownAttrs
  <2>3. Table!SetAttr(k, code, val) = [c \in K \cup {code} |-> IF c = code THEN val ELSE k[c]]
    BY <1>2 DEF Table!SetAttr
  <2>4. \A c \in K \cup {code} : b[c] = IF c = code THEN val ELSE k[c]
    OBVIOUS
  <2>5. Table!SetAttr(a, code, val) = b /\ KnownAttrs(a) = k
    BY <1>2 DEF Table!SetAttr, KnownAttrs
  <2> HIDE DEF b, K, k
  <2> QED
    BY <2>2, <2>3, <2>4, <2>5
<1> QED
  BY <1>1, <1>2

(* Likewise for a variable of the subset. *)
LEMMA KnownAttribute ==
  ASSUME NEW f, IsSubset(f), NEW p \in 1..Len(f), NEW code, NEW val
  PROVE  Known([f EXCEPT ![p].attrs = Table!SetAttr(@, code, val)])
           = [Known(f) EXCEPT ![p].attrs = Table!SetAttr(@, code, val)]
<1> DEFINE a == Table!SetAttr(f[p].attrs, code, val)
           g == [f EXCEPT ![p].attrs = a]
<1>1. /\ IsSubset(g) /\ SameCodes(g, f)
      /\ Known(f) = [i \in 1..Len(f) |-> KnownVar(f[i])]
  BY SetAttrs, KnownIsSubset
<1>2. Known(g) = [i \in 1..Len(f) |-> KnownVar(g[i])]
  BY <1>1, KnownIsSubset DEF SameCodes
<1>3. IsVar(f[p]) /\ DOMAIN f = 1..Len(f)
  BY DEF IsSubset
<1>4. g[p] = [f[p] EXCEPT !.attrs = a] /\ \A i \in 1..Len(f) : i # p => g[i] = f[i]
  BY <1>3
<1>5. KnownVar(g[p]) = [KnownVar(f[p]) EXCEPT !.attrs = Table!SetAttr(@, code, val)]
  <2>1. f[p] = [code |-> f[p].code, val |-> f[p].val, attrs |-> f[p].attrs]
    BY <1>3 DEF IsVar
  <2> DEFINE c == f[p].code
             v == f[p].val
             k == KnownAttrs(f[p].attrs)
  <2>2. g[p] = [code |-> c, val |-> v, attrs |-> a]
    BY <1>4, <2>1
  <2>3. KnownVar(g[p]) = [code |-> c, val |-> v, attrs |-> KnownAttrs(a)]
    BY <2>2 DEF KnownVar
  <2>4. KnownVar(f[p]) = [code |-> c, val |-> v, attrs |-> k]
    BY <2>1 DEF KnownVar
  <2>5. KnownAttrs(a) = Table!SetAttr(k, code, val)
    BY KnownSet
  <2> HIDE DEF c, v, k, a
  <2> QED
    BY <2>3, <2>4, <2>5
<1> DEFINE h == [Known(f) EXCEPT ![p].attrs = Table!SetAttr(@, code, val)]
<1>6. h = [i \in 1..Len(f) |->
             IF i = p THEN [KnownVar(f[p]) EXCEPT !.attrs = Table!SetAttr(@, code, val)]
             ELSE KnownVar(f[i])]
  BY <1>1
<1>7. \A i \in 1..Len(f) : KnownVar(g[i]) = h[i]
  BY <1>4, <1>5, <1>6
<1> QED
  BY <1>2, <1>6, <1>7

----------------------------------------------------------------------------
(* The alternatives of SubsetTable. *)
LEMMA DecodedPlain ==
  ASSUME NEW vs, NEW item, NEW s, item.dest \in {"store", "uniform"}
  PROVE  Table!Decoded(vs, item, s) =
           Append(vs, Table!NewVar(item.info, item.raws[s], Table!NoAttrs))
BY DEF Table!Decoded

(* A subset alone, when the item makes a variable with its associated field. *)
LEMMA DecodedWithField ==
  ASSUME NEW vs, NEW item, NEW s, item.dest = "field"
  PROVE  Table!Decoded(vs, item, s) =
           Append(vs, Table!NewVar(item.info, item.raws[s],
                                   Table!FieldAttrs(item.field, item.afs[s])))
BY DEF Table!Decoded

(* A subset alone, when the item makes an attribute. *)
LEMMA DecodedAttribute ==
  ASSUME NEW vs, NEW item, NEW s, item.dest = "attribute"
  PROVE  Table!Decoded(vs, item, s) =
           [vs EXCEPT ![item.pos].attrs =
              Table!SetAttr(@, item.info.code,
                            Table!DecodeValue(item.info, item.raws[s]))]
BY DEF Table!Decoded

(* One subset has its value: what is known of it is as if it were alone. *)
LEMMA DeliverAlone ==
  ASSUME ShapeInv, AloneInv, Deliver, NEW d, d = done + 1
  PROVE  Known(table'[d]) = Table!Decoded(Known(before[d]), sent, d)
<1>1. /\ busy = TRUE /\ sent # NoItem /\ d \in 1..N /\ done \in Nat /\ ~Refused
      /\ before' = before /\ sent' = sent /\ busy' = busy /\ done' = d
  BY NAssumption DEF ShapeInv, Counters, Idle, Deliver, AloneInv, CarriesOwn
<1>2. IsSubset(before[d]) /\ table[d] = before[d]
  BY <1>1 DEF ShapeInv, Subsets, AloneInv, AloneSoFar
<1> DEFINE v == Filled(d)
           val == DecodeValue(sent.info, sent.raws[d])
<1>3. ValueOf(sent.info, stream.part, d) = val
  BY <1>1, ValueIsAlone DEF AloneInv
<1>4. v = [code |-> sent.info.code, val |-> val, attrs |-> AttrsOf(d)] /\ IsVar(v)
  BY <1>3 DEF Filled, IsVar
<1> HIDE DEF v
<1>5. CASE sent.dest # "attribute"
  <2>1. table' = [table EXCEPT ![d] = Append(table[d], v)]
    BY <1>5 DEF Deliver, Dispatch, v
  <2>2. table'[d] = Append(before[d], v)
    BY <1>1, <1>2, <2>1 DEF ShapeInv, Subsets
  <2>3. Known(table'[d]) = Append(Known(before[d]), KnownVar(v))
    BY <1>2, <1>4, <2>2, KnownAppend
  <2>4. KnownVar(v) = [code |-> sent.info.code, val |-> val, attrs |-> KnownAttrs(AttrsOf(d))]
    BY <1>4 DEF KnownVar
  <2>5. sent.dest \in {"store", "uniform"} \/ sent.dest = "field"
    BY <1>1, <1>5, ItemType DEF Refused, Unimplemented, AloneInv, Coded
  <2> DEFINE attrs == IF sent.dest = "field" THEN Table!FieldAttrs(sent.field, sent.afs[d])
                      ELSE Table!NoAttrs
  <2>6. KnownAttrs(AttrsOf(d)) = attrs
    BY <1>1, AttrsAreAlone DEF AloneInv
  <2>7. Table!Decoded(Known(before[d]), sent, d) =
          Append(Known(before[d]), Table!NewVar(sent.info, sent.raws[d], attrs))
    <3>1. PICK vs, item : vs = Known(before[d]) /\ item = sent
      OBVIOUS
    <3>2. PICK at : at = attrs
      OBVIOUS
    <3>3. CASE sent.dest \in {"store", "uniform"}
      <4>1. sent.dest # "field"
        BY <3>3
      <4>2. at = Table!NoAttrs
        BY <3>2, <4>1
      <4>3. Table!Decoded(vs, item, d) =
              Append(vs, Table!NewVar(item.info, item.raws[d], at))
        BY <3>1, <3>3, <4>2, DecodedPlain
      <4> HIDE DEF attrs
      <4> QED
        BY <3>1, <3>2, <4>3
    <3>4. CASE sent.dest = "field"
      <4>1. at = Table!FieldAttrs(item.field, item.afs[d])
        BY <3>1, <3>2, <3>4
      <4>2. Table!Decoded(vs, item, d) =
              Append(vs, Table!NewVar(item.info, item.raws[d], at))
        BY <3>1, <3>4, <4>1, DecodedWithField
      <4> HIDE DEF attrs
      <4> QED
        BY <3>1, <3>2, <4>2
    <3> QED
      BY <2>5, <3>3, <3>4
  <2>8. KnownVar(v) = Table!NewVar(sent.info, sent.raws[d], attrs)
    BY <2>4, <2>6, SameFields DEF Table!NewVar
  <2> QED
    BY <2>3, <2>7, <2>8
<1>6. CASE sent.dest = "attribute"
  <2>1. sent.pos \in 1..Len(before[d])
    BY <1>1, <1>6 DEF ShapeInv, UnderWay, Alike, SameCodes, Table!Sendable
  <2>2. v.code = sent.info.code /\ v.val = val
    BY <1>4
  <2>3. table' = [table EXCEPT ![d][sent.pos].attrs = Table!SetAttr(@, sent.info.code, val)]
    BY <1>6, <2>2 DEF Deliver, Dispatch, v
  <2>4. table'[d] = [before[d] EXCEPT ![sent.pos].attrs =
                       Table!SetAttr(@, sent.info.code, val)]
    BY <1>1, <1>2, <2>3 DEF ShapeInv, Subsets
  <2>5. Known(table'[d]) = [Known(before[d]) EXCEPT ![sent.pos].attrs =
                              Table!SetAttr(@, sent.info.code, val)]
    <3>1. PICK f, p, c, x : f = before[d] /\ p = sent.pos /\ c = sent.info.code /\ x = val
      OBVIOUS
    <3>2. PICK t : t = table'[d]
      OBVIOUS
    <3> HIDE DEF val
    <3>3. t = [f EXCEPT ![p].attrs = Table!SetAttr(@, c, x)]
      BY <2>4, <3>1, <3>2
    <3>4. Known([f EXCEPT ![p].attrs = Table!SetAttr(@, c, x)])
            = [Known(f) EXCEPT ![p].attrs = Table!SetAttr(@, c, x)]
      <4>1. IsSubset(f) /\ p \in 1..Len(f)
        BY <1>2, <2>1, <3>1
      <4> QED
        BY <4>1, KnownAttribute
    <3>5. Known(t) = [Known(f) EXCEPT ![p].attrs = Table!SetAttr(@, c, x)]
      BY <3>3, <3>4
    <3> QED
      BY <3>1, <3>2, <3>5
  <2>6. Table!DecodeValue(sent.info, sent.raws[d]) = val
    BY SameFields
  <2>7. Table!Decoded(Known(before[d]), sent, d) =
          [Known(before[d]) EXCEPT ![sent.pos].attrs =
             Table!SetAttr(@, sent.info.code, Table!DecodeValue(sent.info, sent.raws[d]))]
    BY <1>6, DecodedAttribute
  <2> HIDE DEF val
  <2> QED
    BY <2>5, <2>6, <2>7
<1> QED
  BY <1>5, <1>6

(* Each step keeps what the refinement needs. *)
LEMMA StepAlone ==
  ASSUME ShapeInv, AloneInv, [Next]_vars
  PROVE  AloneInv'
<1>1. CASE Send
  <2>1. /\ before = table /\ table' = table /\ before' = table /\ busy' = FALSE
        /\ sent' \in Items
        /\ \E part \in Parts(sent'),
              af \in IF sent'.dest = "field"
                       THEN FieldParts(sent'.field.bit_count, sent'.afs) ELSE {NoPart} :
             stream' = [part |-> part, af |-> af]
    BY <1>1 DEF Send, ShapeInv, Idle
  <2>2. Coded'
    BY <2>1 DEF Coded, Parts, StringParts, NumberParts, BrokenPart, FieldParts, AllSame,
                Codes, Difference
  <2> QED
    BY <2>1, <2>2 DEF AloneInv, CarriesOwn, AloneSoFar
<1>2. ASSUME UNCHANGED <<sent, stream>>
      PROVE  Coded' /\ (Refused' <=> Refused) /\ AttrsMade' = AttrsMade
  BY <1>2 DEF AloneInv, Coded, Refused, RefusedNumber, RefusedString, RefusedBase,
              Unimplemented, StringOf, AttrsMade
<1>3. CASE Begin
  <2>1. /\ sent # NoItem /\ busy = FALSE /\ UNCHANGED <<table, before, sent, stream>>
        /\ \A s \in 1..N : table[s] = before[s]
    BY <1>3 DEF Begin, ShapeInv, Counters, AloneInv, AloneSoFar
  <2>2. CASE Refused
    BY <1>2, <1>3, <2>1, <2>2 DEF Begin, AloneInv, CarriesOwn, AloneSoFar
  <2>3. CASE ~Refused
    <3>1. busy' = TRUE /\ done' = 0 /\ fields' = AttrsMade /\ DOMAIN var'.attrs = {}
      BY <1>3, <2>3 DEF Begin, Table!NoAttrs
    <3>2. CarriesOwn'
      BY <1>2, <2>1, <2>3, <3>1 DEF CarriesOwn
    <3>3. AloneSoFar'
      BY <2>1, <3>1 DEF AloneSoFar
    <3> QED
      BY <1>2, <2>1, <3>2, <3>3 DEF AloneInv
  <2> QED
    BY <2>2, <2>3
<1>4. CASE Deliver
  <2> DEFINE d == done + 1
  <2>1. /\ busy = TRUE /\ sent # NoItem /\ d \in 1..N /\ done \in Nat
        /\ UNCHANGED <<before, sent, stream, busy, fields>> /\ done' = d
    BY <1>4, NAssumption DEF ShapeInv, Counters, Idle, Deliver
  <2>2. Known(table'[d]) = Table!Decoded(Known(before[d]), sent, d)
    BY <1>4, DeliverAlone
  <2>3. ASSUME NEW s \in 1..N, s # d
        PROVE  table'[s] = table[s] /\ (s <= d <=> s <= done)
    <3>1. table'[s] = table[s]
      BY <1>4, <2>1, <2>3 DEF Deliver, Dispatch, ShapeInv, Subsets
    <3> QED
      BY <2>1, <2>3, <3>1
  <2>4. AloneSoFar'
    <3> SUFFICES ASSUME NEW s \in 1..N
                 PROVE  IF s <= d
                          THEN Known(table'[s]) = Table!Decoded(Known(before[s]), sent, s)
                          ELSE table'[s] = before[s]
      BY <2>1 DEF AloneSoFar
    <3>1. CASE s = d
      BY <2>1, <2>2, <3>1
    <3>2. CASE s # d
      BY <2>1, <2>3, <3>2 DEF AloneInv, AloneSoFar
    <3> QED
      BY <3>1, <3>2
  <2>5. var' = var \/ var' = Filled(d)
    BY <1>4 DEF Deliver
  <2>6. DOMAIN var'.attrs \subseteq (DOMAIN var.attrs) \cup DOMAIN AttrsOf(d)
    BY <2>5 DEF Filled
  <2>7. CarriesOwn'
    BY <1>2, <2>1, <2>6, AttrsAreAlone DEF AloneInv, CarriesOwn
  <2> QED
    BY <1>2, <2>1, <2>4, <2>7 DEF AloneInv
<1>5. CASE End
  BY <1>5 DEF End, AloneInv, Coded, CarriesOwn, AloneSoFar
<1>6. CASE UNCHANGED vars
  BY <1>2, <1>6 DEF vars, AloneInv, CarriesOwn, AloneSoFar
<1> QED
  BY <1>1, <1>3, <1>4, <1>5, <1>6 DEF Next

(* The promise is about the same decoding, with another table. *)
LEMMA PromisedDecoded ==
  ASSUME NEW vs, NEW item, NEW s
  PROVE  Promise!Decoded(vs, item, s) = Table!Decoded(vs, item, s)
<1>1. /\ \A w : Table!AllOnes(w) = Promise!AllOnes(w)
      /\ Table!NeverMissing = Promise!NeverMissing
      /\ Table!AttributeOf = Promise!AttributeOf
      /\ Table!NoAttrs = Promise!NoAttrs
  BY DEF Table!AllOnes, Promise!AllOnes, Table!NeverMissing, Promise!NeverMissing,
         Table!AttributeOf, Promise!AttributeOf, Table!NoAttrs, Promise!NoAttrs
<1>2. \A info, raw : /\ Table!DecodeString(info, raw) = Promise!DecodeString(info, raw)
                     /\ Table!DecodeBinary(info, raw) = Promise!DecodeBinary(info, raw)
                     /\ Table!DecodeNumber(info, raw) = Promise!DecodeNumber(info, raw)
  BY <1>1 DEF Table!DecodeString, Promise!DecodeString, Table!DecodeBinary,
              Promise!DecodeBinary, Table!DecodeNumber, Promise!DecodeNumber,
              Table!AllBytesOnes, Promise!AllBytesOnes
<1>3. \A info, raw : Table!DecodeValue(info, raw) = Promise!DecodeValue(info, raw)
  BY <1>2 DEF Table!DecodeValue, Promise!DecodeValue
<1>4. \A field, af : /\ Table!MakesAttribute(field, af) <=> Promise!MakesAttribute(field, af)
                     /\ Table!AttributeValue(field, af) = Promise!AttributeValue(field, af)
  BY <1>1 DEF Table!MakesAttribute, Promise!MakesAttribute, Table!AttributeValue,
              Promise!AttributeValue
<1>5. \A a, c, v : Table!SetAttr(a, c, v) = Promise!SetAttr(a, c, v)
  BY DEF Table!SetAttr, Promise!SetAttr
<1>6. \A field, af : Table!FieldAttrs(field, af) = Promise!FieldAttrs(field, af)
  BY <1>1, <1>4, <1>5 DEF Table!FieldAttrs, Promise!FieldAttrs
<1>7. \A info, raw, a : Table!NewVar(info, raw, a) = Promise!NewVar(info, raw, a)
  BY <1>3 DEF Table!NewVar, Promise!NewVar
<1> QED
  BY <1>1, <1>3, <1>5, <1>6, <1>7 DEF Table!Decoded, Promise!Decoded

(* Each step is a step of SubsetTable, or none: the subsets that it shows get their
   value when the loop is over. *)
LEMMA StepAsAlone ==
  ASSUME ShapeInv, AloneInv, [Next]_vars
  PROVE  [Promise!Next]_<<KnownTable, sent>>
<1>1. CASE Send
  <2>1. before' = table /\ sent = NoItem /\ IsSubset(table[1])
    BY <1>1, NAssumption DEF Send, ShapeInv, Subsets
  <2>2. KnownTable' = KnownTable
    BY <1>1, <2>1, ItemsAssumption DEF KnownTable, Send
  <2>3. KnownTable[1] = Known(table[1])
    BY <2>1, NAssumption DEF KnownTable
  <2>4. Len(KnownTable[1]) = Len(table[1])
    BY <2>1, <2>3, KnownIsSubset
  <2>5. sent' \in {item \in Items : Promise!Sendable(item, Len(KnownTable[1]))}
    BY <1>1, <2>4 DEF Send, Table!Sendable, Promise!Sendable
  <2> QED
    BY <2>1, <2>2, <2>5 DEF Promise!Next, Promise!Send
<1>2. CASE Begin \/ Deliver
  <2>1. sent # NoItem /\ UNCHANGED <<sent, before>>
    BY <1>2 DEF Begin, Deliver, ShapeInv, Idle
  <2> QED
    BY <2>1 DEF KnownTable
<1>3. CASE End
  <2>1. /\ busy = TRUE /\ done = N /\ sent # NoItem /\ sent' = NoItem /\ table' = table
    BY <1>3 DEF End, ShapeInv, Idle, Counters
  <2>2. KnownTable' = [s \in 1..N |-> Known(table[s])]
    BY <2>1 DEF KnownTable
  <2>3. \A s \in 1..N : /\ KnownTable[s] = Known(before[s])
                        /\ Known(table[s]) = Table!Decoded(Known(before[s]), sent, s)
    BY <2>1, NAssumption DEF KnownTable, AloneInv, AloneSoFar
  <2>4. \A s \in 1..N : Promise!Decoded(KnownTable[s], sent, s) =
                          Table!Decoded(KnownTable[s], sent, s)
    BY PromisedDecoded
  <2>5. KnownTable' = [s \in 1..N |-> Promise!Decoded(KnownTable[s], sent, s)]
    BY <2>2, <2>3, <2>4
  <2> QED
    BY <2>1, <2>5 DEF Promise!Next, Promise!Decode
<1>4. CASE UNCHANGED vars
  BY <1>4 DEF vars, KnownTable
<1> QED
  BY <1>1, <1>2, <1>3, <1>4 DEF Next

(* Compressed data is decoded as if each subset had been decoded alone: the decoder of
   whole sections (bufr/decoder.cc), with one Var that goes around all the subsets,
   implements SubsetTable, in which no subset knows of another. *)
THEOREM CompressedAsIfAlone == Spec => AsIfAlone
<1>1. Init => ShapeInv /\ AloneInv /\ Promise!Init
  <2> SUFFICES ASSUME Init PROVE AloneInv /\ Promise!Init
    BY InitShape
  <2>1. AloneInv
    BY DEF Init, AloneInv, Coded, CarriesOwn, AloneSoFar
  <2>2. Known(<<>>) = <<>>
    BY DEF Known
  <2>3. KnownTable = [s \in 1..N |-> <<>>]
    BY <2>2 DEF Init, KnownTable
  <2> QED
    BY <2>1, <2>3 DEF Init, Promise!Init
<1>2. (ShapeInv /\ AloneInv) /\ [Next]_vars => (ShapeInv /\ AloneInv)'
  BY StepShape, StepAlone
<1>3. (ShapeInv /\ AloneInv) /\ [Next]_vars => [Promise!Next]_<<KnownTable, sent>>
  BY StepAsAlone
<1> QED
  BY <1>1, <1>2, <1>3, PTL DEF Spec, AsIfAlone, Promise!Spec
=============================================================================
