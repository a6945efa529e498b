-------------------------- MODULE VartablesProofs ---------------------------
(* For any files and any alterations: what a B table answered once it answers for ever,
   no pointer to an entry comes to mean another, each code of its file is found, and
   each alteration is in one place; and a D table has the sequences of its file.
   For any program that uses the tables from Python: objects count who refers to them,
   values come back, and attributes are listed, each alone. *)
EXTENDS PyObjects, FiniteSetTheorems, SequenceTheorems, WellFoundedInduction, TLAPS

(* Induction over the naturals, for sets. *)
Less == {p \in Nat \X Nat : p[1] < p[2]}

(* No natural has naturals below it for ever. *)
LEMMA LessIsWellFounded == IsWellFoundedOn(Less, Nat)
BY NatLessThanWellFounded DEF OpToRel, Less

(* A set of naturals that has 0, and has the next of each that it has, has all. *)
LEMMA NatSetInduction ==
  ASSUME NEW S, 0 \in S, \A n \in Nat : n \in S => n + 1 \in S
  PROVE  Nat \subseteq S
<1> SUFFICES ASSUME Nat \ S # {} PROVE FALSE
  OBVIOUS
<1>1. PICK m \in Nat \ S : \A k \in Nat \ S : <<k, m>> \notin Less
  <2>1. Nat \ S \subseteq Nat
    OBVIOUS
  <2> QED BY <2>1, LessIsWellFounded, WFMin
<1>2. m # 0 /\ m - 1 \in Nat
  OBVIOUS
<1>3. <<m - 1, m>> \in Less
  BY <1>2 DEF Less
<1>4. m - 1 \in S
  BY <1>1, <1>2, <1>3
<1> QED
  BY <1>2, <1>4

VarCode == Nat \X Nat \X Nat

(* Codes are ranked by integers. *)
LEMMA RankInt == \A code \in VarCode : Rank(code) \in Int
<1>1. 2^14 \in Int /\ 2^8 \in Int
  OBVIOUS
<1> QED
  BY <1>1 DEF Rank, VarCode

----------------------------------------------------------------------------
(* Sequences. *)

(* A sequence has its elements, and elements are what makes one. *)
LEMMA SequenceIsSeq ==
  ASSUME NEW s, IsSequence(s)
  PROVE  s \in Seq({s[i] : i \in 1..Len(s)})
BY DEF IsSequence

(* And the other way round. *)
LEMMA SeqIsSequence ==
  ASSUME NEW S, NEW s \in Seq(S)
  PROVE  IsSequence(s)
BY DEF IsSequence

(* What is put after a sequence moves nothing in it. *)
LEMMA ConcatGrows ==
  ASSUME NEW s, NEW t, IsSequence(s), IsSequence(t)
  PROVE  /\ IsSequence(s \o t)
         /\ Len(s \o t) = Len(s) + Len(t)
         /\ \A p \in 1..Len(s) : (s \o t)[p] = s[p]
<1> DEFINE Q == {s[i] : i \in 1..Len(s)}
           R == {t[i] : i \in 1..Len(t)}
           S == Q \cup R
<1>1. s \in Seq(S) /\ t \in Seq(S)
  <2>1. s \in Seq(Q) /\ t \in Seq(R)
    BY SequenceIsSeq
  <2> HIDE DEF Q, R
  <2> QED
    BY <2>1
<1>2. Len(s) \in Nat /\ Len(t) \in Nat
  BY DEF IsSequence
<1> HIDE DEF S
<1>3. /\ s \o t \in Seq(S)
      /\ Len(s \o t) = Len(s) + Len(t)
      /\ \A i \in 1..(Len(s) + Len(t)) :
           (s \o t)[i] = IF i <= Len(s) THEN s[i] ELSE t[i - Len(s)]
  BY <1>1, ConcatProperties
<1>4. IsSequence(s \o t)
  BY <1>3, SeqIsSequence
<1> QED
  BY <1>2, <1>3, <1>4

(* Nor does one more at the end. *)
LEMMA AppendGrows ==
  ASSUME NEW s, NEW e, IsSequence(s)
  PROVE  /\ IsSequence(Append(s, e))
         /\ Len(Append(s, e)) = Len(s) + 1
         /\ Append(s, e)[Len(s) + 1] = e
         /\ \A p \in 1..Len(s) : Append(s, e)[p] = s[p]
<1> DEFINE Q == {s[i] : i \in 1..Len(s)}
           S == Q \cup {e}
<1>1. s \in Seq(S) /\ e \in S
  <2>1. s \in Seq(Q)
    BY DEF IsSequence
  <2> HIDE DEF Q
  <2> QED
    BY <2>1
<1>2. Len(s) \in Nat
  BY DEF IsSequence
<1> HIDE DEF S
<1>3. /\ Append(s, e) \in Seq(S)
      /\ Len(Append(s, e)) = Len(s) + 1
      /\ Append(s, e)[Len(s) + 1] = e
      /\ \A p \in 1..Len(s) : Append(s, e)[p] = s[p]
  BY <1>1, AppendProperties
<1>4. IsSequence(Append(s, e))
  BY <1>3, SeqIsSequence
<1> QED
  BY <1>3, <1>4

----------------------------------------------------------------------------
(* The binary search. *)

(* Where the search is after one more time round the loop. *)
Narrowed(codes, code, last) ==
  LET begin == last[1]
      end == last[2]
      cur == (begin + end) \div 2
  IN IF end - begin <= 1 THEN <<begin, end>>
     ELSE IF Rank(codes[cur]) > Rank(code) THEN <<begin, cur>>
     ELSE <<cur, end>>

IsNarrow(codes, code, narrow, m) ==
  narrow = [n \in 0..m |-> IF n = 0 THEN <<0, Len(codes) + 1>>
                           ELSE Narrowed(codes, code, narrow[n - 1])]

(* Search is what the loop comes to. *)
LEMMA SearchIsNarrow ==
  ASSUME NEW codes, NEW code
  PROVE  LET narrow == CHOOSE narrow : IsNarrow(codes, code, narrow, Len(codes))
             found == narrow[Len(codes)][1]
         IN Search(codes, code) = IF found = 0 \/ codes[found] # code THEN 0 ELSE found
BY DEF Search, IsNarrow, Narrowed

(* A loop can be gone through any number of times. *)
LEMMA NarrowExists ==
  ASSUME NEW codes, NEW code
  PROVE  \A m \in Nat : \E narrow : IsNarrow(codes, code, narrow, m)
<1> DEFINE S == {m \in Nat : \E narrow : IsNarrow(codes, code, narrow, m)}
<1>1. 0 \in S
  <2> DEFINE f == [n \in 0..0 |-> <<0, Len(codes) + 1>>]
  <2>1. IsNarrow(codes, code, f, 0)
    BY DEF IsNarrow
  <2> QED
    BY <2>1
<1>2. ASSUME NEW m \in Nat, m \in S
      PROVE  m + 1 \in S
  <2>1. PICK f : IsNarrow(codes, code, f, m)
    BY <1>2
  <2> DEFINE g == [n \in 0..(m + 1) |->
                     IF n = m + 1 THEN Narrowed(codes, code, f[m]) ELSE f[n]]
  <2>2. \A n \in 0..(m + 1) : g[n] = IF n = 0 THEN <<0, Len(codes) + 1>>
                                      ELSE Narrowed(codes, code, g[n - 1])
    <3> SUFFICES ASSUME NEW n \in 0..(m + 1)
                 PROVE  g[n] = IF n = 0 THEN <<0, Len(codes) + 1>>
                               ELSE Narrowed(codes, code, g[n - 1])
      OBVIOUS
    <3>1. CASE n = m + 1
      <4>1. n - 1 = m /\ n # 0 /\ n - 1 \in 0..(m + 1) /\ g[n - 1] = f[m]
        BY <3>1
      <4> QED
        BY <3>1, <4>1
    <3>2. CASE n # m + 1
      <4>1. n \in 0..m /\ (n # 0 => n - 1 \in 0..m)
        BY <3>2
      <4>2. g[n] = f[n] /\ (n # 0 => g[n - 1] = f[n - 1])
        BY <4>1
      <4>3. f[n] = IF n = 0 THEN <<0, Len(codes) + 1>>
                   ELSE Narrowed(codes, code, f[n - 1])
        BY <2>1, <4>1 DEF IsNarrow
      <4> QED
        BY <4>1, <4>2, <4>3
    <3> QED
      BY <3>1, <3>2
  <2>3. IsNarrow(codes, code, g, m + 1)
    BY <2>2 DEF IsNarrow
  <2> QED
    BY <2>3
<1> HIDE DEF S
<1>3. Nat \subseteq S
  BY <1>1, <1>2, NatSetInduction
<1> QED
  BY <1>3 DEF S

(* Codes that grow are ranked as their places are. *)
LEMMA GrowingRanks ==
  ASSUME NEW codes, Len(codes) \in Nat, \A i \in 1..Len(codes) : codes[i] \in VarCode,
         Growing(codes), NEW i \in 1..Len(codes), NEW j \in 1..Len(codes), i < j
  PROVE  Rank(codes[i]) < Rank(codes[j])
<1> DEFINE S == {n \in Nat : i + n + 1 <= Len(codes) =>
                              Rank(codes[i]) < Rank(codes[i + n + 1])}
<1>1. 0 \in S
  <2>1. i + 1 <= Len(codes) => i + 1 \in 2..Len(codes) /\ (i + 1) - 1 = i
    OBVIOUS
  <2> QED
    BY <2>1 DEF Growing
<1>2. ASSUME NEW n \in Nat, n \in S
      PROVE  n + 1 \in S
  <2> DEFINE k == i + n + 1
  <2> SUFFICES ASSUME k + 1 <= Len(codes) PROVE Rank(codes[i]) < Rank(codes[k + 1])
    OBVIOUS
  <2>1. Rank(codes[i]) < Rank(codes[k])
    BY <1>2
  <2>2. k + 1 \in 2..Len(codes) /\ (k + 1) - 1 = k
    OBVIOUS
  <2>3. Rank(codes[k]) < Rank(codes[k + 1])
    BY <2>2 DEF Growing
  <2>4. /\ Rank(codes[i]) \in Int /\ Rank(codes[k]) \in Int
        /\ Rank(codes[k + 1]) \in Int
    BY RankInt
  <2> HIDE DEF k
  <2> QED
    BY <2>1, <2>3, <2>4
<1> HIDE DEF S
<1>3. j - i - 1 \in S
  BY <1>1, <1>2, NatSetInduction
<1> QED
  BY <1>3 DEF S

(* What the loop keeps: the code is not before begin, nor at end or after. *)
Bracket(codes, code, last, n) ==
  LET begin == last[1]
      end == last[2]
  IN /\ begin \in 0..Len(codes) /\ end \in 1..(Len(codes) + 1) /\ begin < end
     /\ end - begin <= 1 \/ end - begin <= Len(codes) + 1 - n
     /\ begin # 0 => Rank(codes[begin]) <= Rank(code)
     /\ end <= Len(codes) => Rank(codes[end]) > Rank(code)

(* Each time round the loop keeps it, with less between begin and end. *)
LEMMA NarrowedBrackets ==
  ASSUME NEW codes, Len(codes) \in Nat, \A i \in 1..Len(codes) : codes[i] \in VarCode,
         NEW code \in VarCode, NEW last, NEW n \in Nat, Bracket(codes, code, last, n)
  PROVE  Bracket(codes, code, Narrowed(codes, code, last), n + 1)
<1> DEFINE begin == last[1]
           end == last[2]
           cur == (begin + end) \div 2
<1>1. /\ begin \in 0..Len(codes) /\ end \in 1..(Len(codes) + 1) /\ begin < end
      /\ end - begin <= 1 \/ end - begin <= Len(codes) + 1 - n
      /\ begin # 0 => Rank(codes[begin]) <= Rank(code)
      /\ end <= Len(codes) => Rank(codes[end]) > Rank(code)
  BY DEF Bracket
<1>2. CASE end - begin <= 1
  <2>1. Narrowed(codes, code, last) = <<begin, end>>
    BY <1>2 DEF Narrowed
  <2> HIDE DEF begin, end
  <2> QED
    BY <1>1, <1>2, <2>1 DEF Bracket
<1>3. CASE ~(end - begin <= 1)
  <2>1. /\ cur \in 1..Len(codes) /\ begin < cur /\ cur < end
        /\ end - begin <= Len(codes) + 1 - n
    <3> HIDE DEF begin, end
    <3> QED
      BY <1>1, <1>3
  <2>2. Rank(codes[cur]) \in Int /\ Rank(code) \in Int
    BY <2>1, RankInt
  <2>3. Narrowed(codes, code, last) =
          IF Rank(codes[cur]) > Rank(code) THEN <<begin, cur>> ELSE <<cur, end>>
    BY <1>3 DEF Narrowed
  <2> HIDE DEF begin, end, cur
  <2>4. CASE Rank(codes[cur]) > Rank(code)
    <3>1. Narrowed(codes, code, last) = <<begin, cur>>
      BY <2>3, <2>4
    <3> QED
      BY <1>1, <2>1, <2>4, <3>1 DEF Bracket
  <2>5. CASE ~(Rank(codes[cur]) > Rank(code))
    <3>1. Narrowed(codes, code, last) = <<cur, end>> /\ Rank(codes[cur]) <= Rank(code)
      BY <2>2, <2>3, <2>5
    <3> QED
      BY <1>1, <2>1, <3>1 DEF Bracket
  <2> QED
    BY <2>4, <2>5
<1> QED
  BY <1>2, <1>3

(* So nothing is between them when the loop ends. *)
LEMMA LoopBrackets ==
  ASSUME NEW codes, Len(codes) \in Nat, \A i \in 1..Len(codes) : codes[i] \in VarCode,
         NEW code \in VarCode, NEW narrow, IsNarrow(codes, code, narrow, Len(codes))
  PROVE  Bracket(codes, code, narrow[Len(codes)], Len(codes))
<1> DEFINE S == {n \in Nat : n <= Len(codes) => Bracket(codes, code, narrow[n], n)}
<1>1. 0 \in S
  <2>1. narrow[0] = <<0, Len(codes) + 1>>
    BY DEF IsNarrow
  <2> QED
    BY <2>1 DEF Bracket
<1>2. ASSUME NEW n \in Nat, n \in S
      PROVE  n + 1 \in S
  <2> SUFFICES ASSUME n + 1 <= Len(codes)
               PROVE  Bracket(codes, code, narrow[n + 1], n + 1)
    OBVIOUS
  <2>1. n + 1 \in 0..Len(codes) /\ n + 1 # 0 /\ (n + 1) - 1 = n
    OBVIOUS
  <2>2. narrow[n + 1] = Narrowed(codes, code, narrow[n])
    BY <2>1 DEF IsNarrow
  <2>3. Bracket(codes, code, narrow[n], n)
    BY <1>2
  <2> QED
    BY <2>2, <2>3, NarrowedBrackets
<1> HIDE DEF S
<1>3. Len(codes) \in S
  BY <1>1, <1>2, NatSetInduction
<1> QED
  BY <1>3 DEF S

(* Vartable and DTable look codes up by binary search (internals/vartable.cc:111,
   dtable.cc:158): in codes that grow, each is found where it is. *)
THEOREM SearchFinds ==
  ASSUME NEW codes, Len(codes) \in Nat, \A i \in 1..Len(codes) : codes[i] \in VarCode,
         Growing(codes), NEW i \in 1..Len(codes)
  PROVE  Search(codes, codes[i]) = i
<1> DEFINE code == codes[i]
           narrow == CHOOSE narrow : IsNarrow(codes, code, narrow, Len(codes))
           found == narrow[Len(codes)][1]
<1>1. Search(codes, code) = IF found = 0 \/ codes[found] # code THEN 0 ELSE found
  BY SearchIsNarrow
<1>2. IsNarrow(codes, code, narrow, Len(codes))
  BY NarrowExists
<1> HIDE DEF narrow
<1> DEFINE last == narrow[Len(codes)]
<1>3. Bracket(codes, code, last, Len(codes))
  BY <1>2, LoopBrackets
<1>4. found = i
  <2> DEFINE end == last[2]
  <2>1. /\ found \in 0..Len(codes) /\ end \in 1..(Len(codes) + 1) /\ end = found + 1
        /\ found # 0 => Rank(codes[found]) <= Rank(code)
        /\ end <= Len(codes) => Rank(codes[end]) > Rank(code)
    BY <1>3 DEF Bracket
  <2>2. \A j \in 1..Len(codes) : Rank(codes[j]) \in Int
    BY RankInt
  <2> HIDE DEF found, end
  <2>3. CASE found < i
    <3>1. end \in 1..Len(codes) /\ (end = i \/ end < i)
      BY <2>1, <2>3
    <3>2. end < i => Rank(codes[end]) < Rank(code)
      BY <3>1, GrowingRanks
    <3> QED
      BY <2>1, <2>2, <3>1, <3>2
  <2>4. CASE found > i
    <3>1. found \in 1..Len(codes) /\ found # 0
      BY <2>1, <2>4
    <3>2. Rank(code) < Rank(codes[found])
      BY <2>4, <3>1, GrowingRanks
    <3> QED
      BY <2>1, <2>2, <3>1, <3>2
  <2> QED
    BY <2>1, <2>3, <2>4
<1> QED
  BY <1>1, <1>4

----------------------------------------------------------------------------
(* Loading a B table. *)

(* The entries of a table: a sequence, with codes that grow. *)
IsEntries(entries) ==
  /\ IsSequence(entries)
  /\ \A i \in 1..Len(entries) : entries[i].info.code \in VarCode
  /\ Growing(CodesOf(entries))

(* One code for each entry. *)
LEMMA CodesLen ==
  ASSUME NEW entries, IsSequence(entries)
  PROVE  /\ Len(CodesOf(entries)) = Len(entries) /\ Len(entries) \in Nat
         /\ \A i \in 1..Len(entries) : CodesOf(entries)[i] = entries[i].info.code
<1>1. DOMAIN entries = 1..Len(entries) /\ Len(entries) \in Nat
  BY DEF IsSequence
<1>2. CodesOf(entries) = [i \in 1..Len(entries) |-> entries[i].info.code]
  BY <1>1 DEF CodesOf
<1>3. Len(CodesOf(entries)) = Len(entries)
  BY <1>1, <1>2
<1> QED
  BY <1>1, <1>2, <1>3

(* obtain takes no entry that is not after the last. *)
LEMMA ObtainGrows ==
  ASSUME NEW entries, IsEntries(entries), NEW made,
         \A e \in made : e.info.code \in VarCode
  PROVE  Obtain(entries, made) = Refused \/ IsEntries(Obtain(entries, made))
<1> SUFFICES ASSUME Obtain(entries, made) # Refused
             PROVE  IsEntries(Obtain(entries, made))
  OBVIOUS
<1> DEFINE e == CHOOSE e \in made : TRUE
           next == Append(entries, e)
           codes == CodesOf(entries)
<1>1. made # {} /\ e \in made
  BY DEF Obtain
<1>2. /\ Obtain(entries, made) = next
      /\ entries # <<>> => ~(Rank(Last(codes)) >= Rank(e.info.code))
  BY <1>1 DEF Obtain
<1>3. e.info.code \in VarCode
  BY <1>1
<1> HIDE DEF e
<1>4. /\ IsSequence(next) /\ Len(next) = Len(entries) + 1 /\ Len(entries) \in Nat
      /\ next[Len(entries) + 1] = e
      /\ \A p \in 1..Len(entries) : next[p] = entries[p]
  BY AppendGrows DEF IsEntries, IsSequence
<1> HIDE DEF next
<1>5. \A i \in 1..Len(next) : next[i].info.code \in VarCode
  BY <1>3, <1>4 DEF IsEntries
<1>6. Growing(CodesOf(next))
  <2>1. Len(CodesOf(next)) = Len(entries) + 1
    BY <1>4, CodesLen
  <2> SUFFICES ASSUME NEW i \in 2..(Len(entries) + 1)
               PROVE  Rank(CodesOf(next)[i - 1]) < Rank(CodesOf(next)[i])
    BY <2>1 DEF Growing
  <2>2. /\ i \in 1..Len(next) /\ i - 1 \in 1..Len(next)
        /\ CodesOf(next)[i] = next[i].info.code
        /\ CodesOf(next)[i - 1] = next[i - 1].info.code
    BY <1>4, CodesLen
  <2>3. \A p \in 1..Len(entries) : codes[p] = entries[p].info.code
    BY CodesLen DEF IsEntries
  <2>4. Len(codes) = Len(entries)
    BY CodesLen DEF IsEntries
  <2> HIDE DEF codes
  <2>5. CASE i \in 2..Len(entries)
    <3>1. Rank(codes[i - 1]) < Rank(codes[i])
      BY <2>4, <2>5 DEF IsEntries, Growing, codes
    <3>2. i \in 1..Len(entries) /\ i - 1 \in 1..Len(entries)
      BY <1>4, <2>5
    <3> QED
      BY <1>4, <2>2, <2>3, <3>1, <3>2
  <2>6. CASE i = Len(entries) + 1
    <3>1. /\ i - 1 = Len(entries) /\ i - 1 \in 1..Len(entries) /\ entries # <<>>
      <4>1. Len(entries) >= 1
        BY <1>4, <2>6
      <4> QED
        BY <1>4, <2>6, <4>1
    <3>2. Last(codes) = entries[i - 1].info.code
      BY <2>3, <2>4, <3>1 DEF Last
    <3>3. ~(Rank(next[i - 1].info.code) >= Rank(e.info.code))
      BY <1>2, <1>4, <3>1, <3>2
    <3>4. Rank(next[i - 1].info.code) \in Int /\ Rank(e.info.code) \in Int
      BY <1>3, <1>5, <2>2, RankInt
    <3>5. next[i] = e
      BY <1>4, <2>6
    <3> QED
      BY <2>2, <3>3, <3>4, <3>5
  <2> QED
    BY <2>5, <2>6
<1> QED
  BY <1>2, <1>4, <1>5, <1>6 DEF IsEntries

(* set_bufr and set_crex leave the code as it is. *)
LEMMA BufrCodes ==
  ASSUME NEW line, NEW e \in BufrEntries(line)
  PROVE  e.info.code = line.code
BY DEF BufrEntries, Entry, SetBufr, TextInfo, Info

(* Likewise for CREX. *)
LEMMA CrexCodes ==
  ASSUME NEW line, NEW e \in CrexEntries(line)
  PROVE  e.info.code = line.code
BY DEF CrexEntries, Entry, SetCrex, Info

(* A line of each kind of file, taken after others. *)
BufrLine(entries, line) ==
  IF entries = Refused \/ line.length < BufrLength THEN Refused
  ELSE Obtain(entries, BufrEntries(line))

CrexLine(entries, line) ==
  IF entries = Refused \/ ~HasCrex(line) THEN entries
  ELSE Obtain(entries, CrexEntries(line))

FileLine(format, entries, line) ==
  IF format = "bufr" THEN BufrLine(entries, line) ELSE CrexLine(entries, line)

IsRead(format, lines, read, m) ==
  read = [n \in 0..m |->
            IF n = 0 THEN <<>> ELSE FileLine(format, read[n - 1], lines[n])]

(* A file can be read up to any line. *)
LEMMA ReadExists ==
  ASSUME NEW format, NEW lines
  PROVE  \A m \in Nat : \E read : IsRead(format, lines, read, m)
<1> DEFINE S == {m \in Nat : \E read : IsRead(format, lines, read, m)}
<1>1. 0 \in S
  <2> DEFINE f == [n \in 0..0 |-> <<>>]
  <2>1. IsRead(format, lines, f, 0)
    BY DEF IsRead
  <2> QED
    BY <2>1
<1>2. ASSUME NEW m \in Nat, m \in S
      PROVE  m + 1 \in S
  <2>1. PICK f : IsRead(format, lines, f, m)
    BY <1>2
  <2> DEFINE g == [n \in 0..(m + 1) |->
                     IF n = m + 1 THEN FileLine(format, f[m], lines[m + 1]) ELSE f[n]]
  <2>2. ASSUME NEW n \in 0..(m + 1)
        PROVE  g[n] = IF n = 0 THEN <<>> ELSE FileLine(format, g[n - 1], lines[n])
    <3>1. CASE n = m + 1
      <4>1. n - 1 = m /\ n # 0 /\ n - 1 \in 0..(m + 1) /\ g[n - 1] = f[m]
        BY <3>1
      <4> QED
        BY <3>1, <4>1
    <3>2. CASE n # m + 1
      <4>1. n \in 0..m /\ (n # 0 => n - 1 \in 0..m)
        BY <3>2
      <4>2. g[n] = f[n] /\ (n # 0 => g[n - 1] = f[n - 1])
        BY <4>1
      <4>3. f[n] = IF n = 0 THEN <<>> ELSE FileLine(format, f[n - 1], lines[n])
        BY <2>1, <4>1 DEF IsRead
      <4> QED
        BY <4>1, <4>2, <4>3
    <3> QED
      BY <3>1, <3>2
  <2>3. IsRead(format, lines, g, m + 1)
    BY <2>2 DEF IsRead
  <2> QED
    BY <2>3
<1> HIDE DEF S
<1>3. Nat \subseteq S
  BY <1>1, <1>2, NatSetInduction
<1> QED
  BY <1>3 DEF S

(* Each line leaves a table refused, or with codes that grow. *)
LEMMA LineGrows ==
  ASSUME NEW format \in Format, NEW entries, NEW line, line.code \in VarCode,
         entries = Refused \/ IsEntries(entries)
  PROVE  LET next == FileLine(format, entries, line)
         IN next = Refused \/ IsEntries(next)
<1>1. /\ \A e \in BufrEntries(line) : e.info.code \in VarCode
      /\ \A e \in CrexEntries(line) : e.info.code \in VarCode
  BY BufrCodes, CrexCodes
<1>2. CASE entries = Refused
  BY <1>2 DEF FileLine, BufrLine, CrexLine
<1>3. CASE entries # Refused
  <2>1. IsEntries(entries)
    BY <1>3
  <2>2. /\ LET made == BufrEntries(line)
           IN Obtain(entries, made) = Refused \/ IsEntries(Obtain(entries, made))
        /\ LET made == CrexEntries(line)
           IN Obtain(entries, made) = Refused \/ IsEntries(Obtain(entries, made))
    BY <1>1, <2>1, ObtainGrows
  <2> QED
    BY <1>3, <2>1, <2>2 DEF FileLine, BufrLine, CrexLine
<1> QED
  BY <1>2, <1>3

(* So does a whole file. *)
LEMMA ReadGrows ==
  ASSUME NEW format \in Format, NEW lines, IsSequence(lines),
         \A i \in 1..Len(lines) : lines[i].code \in VarCode,
         NEW read, IsRead(format, lines, read, Len(lines))
  PROVE  read[Len(lines)] = Refused \/ IsEntries(read[Len(lines)])
<1> DEFINE S == {n \in Nat : n <= Len(lines) => read[n] = Refused \/ IsEntries(read[n])}
<1>1. Len(lines) \in Nat
  BY DEF IsSequence
<1>2. 0 \in S
  <2>1. read[0] = <<>>
    BY <1>1 DEF IsRead
  <2>2. IsEntries(<<>>)
    BY DEF IsEntries, IsSequence, CodesOf, Growing
  <2> QED
    BY <2>1, <2>2
<1>3. ASSUME NEW n \in Nat, n \in S
      PROVE  n + 1 \in S
  <2> SUFFICES ASSUME n + 1 <= Len(lines)
               PROVE  read[n + 1] = Refused \/ IsEntries(read[n + 1])
    OBVIOUS
  <2>1. n + 1 \in 0..Len(lines) /\ n + 1 # 0 /\ (n + 1) - 1 = n /\ n + 1 \in 1..Len(lines)
    BY <1>1
  <2>2. read[n + 1] = FileLine(format, read[n], lines[n + 1])
    BY <2>1 DEF IsRead
  <2>3. read[n] = Refused \/ IsEntries(read[n])
    BY <1>1, <1>3
  <2>4. lines[n + 1].code \in VarCode
    BY <2>1
  <2> QED
    BY <2>2, <2>3, <2>4, LineGrows
<1> HIDE DEF S
<1>4. Len(lines) \in S
  BY <1>1, <1>2, <1>3, NatSetInduction
<1> QED
  BY <1>1, <1>4 DEF S

(* A file that is not refused makes a table whose codes grow (internals/vartable.cc:97). *)
THEOREM ParsedGrows ==
  ASSUME NEW format \in Format, NEW file \in Contents, Parsed(format, file) # Refused
  PROVE  IsEntries(Parsed(format, file))
<1>1. file # NoFile
  BY DEF Parsed
<1>2. /\ IsSequence(file) /\ Len(file) \in Nat
      /\ \A i \in 1..Len(file) : file[i].code \in VarCode
  BY <1>1, FilesAssumption DEF IsSequence, VarCode
<1>3. CASE format = "bufr"
  <2> DEFINE Reads(f) == f = [n \in 0..Len(file) |->
                             IF n = 0 THEN <<>> ELSE BufrLine(f[n - 1], file[n])]
             read == CHOOSE f : Reads(f)
  <2>1. \A f : IsRead(format, file, f, Len(file)) => Reads(f)
    BY <1>3 DEF IsRead, FileLine
  <2>2. \A f : Reads(f) => IsRead(format, file, f, Len(file))
    BY <1>3 DEF IsRead, FileLine
  <2>3. Parsed(format, file) = read[Len(file)]
    BY <1>1, <1>3 DEF Parsed, LoadBufr, BufrLine
  <2>4. \E f : Reads(f)
    BY <1>2, <2>1, ReadExists
  <2> HIDE DEF Reads
  <2>5. Reads(read)
    BY <2>4
  <2> HIDE DEF read
  <2> QED
    BY <1>2, <2>2, <2>3, <2>5, ReadGrows
<1>4. CASE format # "bufr"
  <2> DEFINE Reads(f) == f = [n \in 0..Len(file) |->
                             IF n = 0 THEN <<>> ELSE CrexLine(f[n - 1], file[n])]
             read == CHOOSE f : Reads(f)
  <2>1. \A f : IsRead(format, file, f, Len(file)) => Reads(f)
    BY <1>4 DEF IsRead, FileLine
  <2>2. \A f : Reads(f) => IsRead(format, file, f, Len(file))
    BY <1>4 DEF IsRead, FileLine
  <2>3. Parsed(format, file) = IF read[Len(file)] = <<>> THEN Refused ELSE read[Len(file)]
    BY <1>1, <1>4 DEF Parsed, LoadCrex, CrexLine
  <2>4. \E f : Reads(f)
    BY <1>2, <2>1, ReadExists
  <2> HIDE DEF Reads
  <2>5. Reads(read)
    BY <2>4
  <2> HIDE DEF read
  <2> QED
    BY <1>2, <2>2, <2>3, <2>5, ReadGrows
<1> QED
  BY <1>3, <1>4

----------------------------------------------------------------------------
(* The library. *)

(* A chain begins with the entry of the table, and has pointers only. *)
IsChain(chain, n) == chain \in Seq(1..n) /\ chain # <<>>

(* A table that was loaded: chains of pointers into a memory of n entries. *)
IsTable(table, n) ==
  /\ table = [file |-> table.file, chains |-> table.chains]
  /\ table.chains = [i \in DOMAIN table.chains |-> table.chains[i]]
  /\ \A i \in DOMAIN table.chains : IsChain(table.chains[i], n)

(* And its entries are numbered from 1 on. *)
IsNumbered(table, n) ==
  IsTable(table, n) /\ \E m \in Nat : DOMAIN table.chains = 1..m

(* The inductive invariant. *)
IInv ==
  /\ disk = [p \in Path \cup DPath |-> disk[p]]
  /\ \A p \in Path : disk[p] \in Contents
  /\ IsSequence(memory)
  /\ tables = [t \in BTable |-> tables[t]]
  /\ \A t \in Loaded : IsTable(tables[t], Len(memory))

(* Memory only grows: every entry stays where it is. *)
Grows == /\ Len(memory') \in Nat /\ Len(memory) <= Len(memory')
         /\ \A p \in 1..Len(memory) : memory'[p] = memory[p]

(* Nothing is loaded at first. *)
LEMMA InitHolds == InitLibrary => IInv
BY DEF InitLibrary, IInv, IsSequence, Loaded

(* A table is good for a memory that has grown. *)
LEMMA TableStays ==
  ASSUME NEW table, NEW n \in Nat, NEW m \in Nat, n <= m, IsTable(table, n)
  PROVE  IsTable(table, m)
<1>1. 1..n \subseteq 1..m
  OBVIOUS
<1>2. \A s : s \in Seq(1..n) => s \in Seq(1..m)
  BY <1>1
<1> QED
  BY <1>2 DEF IsTable, IsChain

(* Where the pointers of a chain are when a new one comes after the first. *)
LEMMA LinkedPlaces ==
  ASSUME NEW n \in Nat, NEW chain, IsChain(chain, n), NEW p \in 1..(n + 1)
  PROVE  LET next == LinkAfterFirst(chain, p)
         IN /\ IsChain(next, n + 1)
            /\ Len(chain) \in Nat \ {0} /\ DOMAIN chain = 1..Len(chain)
            /\ \A j \in 1..Len(chain) : chain[j] \in 1..n
            /\ DOMAIN next = 1..(Len(chain) + 1)
            /\ next[1] = chain[1] /\ next[2] = p
            /\ \A j \in 3..(Len(chain) + 1) : next[j] = chain[j - 1]
<1> DEFINE next == LinkAfterFirst(chain, p)
<1>1. /\ chain \in Seq(1..(n + 1)) /\ chain # <<>> /\ Len(chain) \in Nat
      /\ Len(chain) >= 1 /\ chain[1] \in 1..(n + 1) /\ DOMAIN chain = 1..Len(chain)
      /\ \A j \in 1..Len(chain) : chain[j] \in 1..n
  <2>1. chain \in Seq(1..n) /\ chain # <<>>
    BY DEF IsChain
  <2>2. chain \in Seq(1..(n + 1))
    BY <2>1
  <2>3. Len(chain) \in Nat /\ Len(chain) >= 1
    BY <2>1, EmptySeq
  <2> QED
    BY <2>1, <2>2, <2>3
<1>2. <<chain[1], p>> \in Seq(1..(n + 1)) /\ Len(<<chain[1], p>>) = 2
  BY <1>1
<1>3. /\ Tail(chain) \in Seq(1..(n + 1))
      /\ Len(Tail(chain)) = Len(chain) - 1
      /\ \A i \in 1..(Len(chain) - 1) : Tail(chain)[i] = chain[i + 1]
  BY <1>1
<1>4. /\ next \in Seq(1..(n + 1))
      /\ Len(next) = 2 + Len(Tail(chain))
      /\ \A i \in 1..(2 + Len(Tail(chain))) :
           next[i] = IF i <= 2 THEN <<chain[1], p>>[i] ELSE Tail(chain)[i - 2]
  BY <1>2, <1>3, ConcatProperties DEF LinkAfterFirst
<1> HIDE DEF next
<1>5. DOMAIN next = 1..(Len(chain) + 1) /\ 2 + Len(Tail(chain)) = Len(chain) + 1
  BY <1>1, <1>3, <1>4
<1>6. next[1] = chain[1] /\ next[2] = p
  BY <1>1, <1>4, <1>5
<1>8. IsChain(next, n + 1)
  BY <1>4, <1>6, <1>5, EmptySeq DEF IsChain
<1>7. ASSUME NEW j \in 3..(Len(chain) + 1)
      PROVE  next[j] = chain[j - 1]
  <2> DEFINE i == j - 2
  <2>1. /\ i \in 1..(Len(chain) - 1) /\ i + 1 = j - 1
        /\ j \in 1..(Len(chain) + 1) /\ ~(j <= 2)
    BY <1>1
  <2>2. next[j] = Tail(chain)[i]
    BY <1>4, <1>5, <2>1
  <2> HIDE DEF i
  <2>3. Tail(chain)[i] = chain[i + 1]
    BY <1>3, <2>1
  <2> QED
    BY <2>1, <2>2, <2>3
<1> QED
  BY <1>1, <1>5, <1>6, <1>7, <1>8 DEF next

(* A new pointer goes after the first of a chain, the others move one place. *)
LEMMA LinkedChain ==
  ASSUME NEW n \in Nat, NEW chain, IsChain(chain, n), NEW p \in 1..(n + 1)
  PROVE  LET next == LinkAfterFirst(chain, p)
         IN /\ IsChain(next, n + 1)
            /\ next[1] = chain[1]
            /\ \A j \in DOMAIN chain : \E k \in DOMAIN next : next[k] = chain[j]
<1> DEFINE next == LinkAfterFirst(chain, p)
<1>1. /\ IsChain(next, n + 1)
      /\ Len(chain) \in Nat \ {0} /\ DOMAIN chain = 1..Len(chain)
      /\ DOMAIN next = 1..(Len(chain) + 1)
      /\ next[1] = chain[1]
      /\ \A j \in 3..(Len(chain) + 1) : next[j] = chain[j - 1]
  BY LinkedPlaces
<1> HIDE DEF next
<1>2. ASSUME NEW j \in DOMAIN chain
      PROVE  \E k \in DOMAIN next : next[k] = chain[j]
  <2>1. j \in 1..Len(chain)
    BY <1>1
  <2>2. CASE j = 1
    BY <1>1, <2>2
  <2>3. CASE j # 1
    <3>1. /\ j + 1 \in 3..(Len(chain) + 1) /\ j + 1 \in DOMAIN next
          /\ (j + 1) - 1 = j
      BY <1>1, <2>1, <2>3
    <3>2. next[j + 1] = chain[j]
      BY <1>1, <3>1
    <3> QED
      BY <3>1, <3>2
  <2> QED
    BY <2>2, <2>3
<1> QED
  BY <1>1, <1>2 DEF next

(* What a step does that a table can see: memory grows, and a chain that was there
   begins as it did and has every pointer that it had. *)
Keeps(t) ==
  /\ tables'[t].file = tables[t].file
  /\ \A i \in DOMAIN tables[t].chains :
       /\ tables'[t].chains[i][1] = tables[t].chains[i][1]
       /\ \A j \in DOMAIN tables[t].chains[i] :
            \E k \in DOMAIN tables'[t].chains[i] :
              tables'[t].chains[i][k] = tables[t].chains[i][j]

Stays == Grows /\ \A t \in Loaded : Keeps(t)

(* When memory grows and no table changes. *)
LEMMA UntouchedStays ==
  ASSUME IInv, UNCHANGED tables, UNCHANGED disk, IsSequence(memory'), Grows
  PROVE  IInv' /\ Stays
<1>1. Len(memory) \in Nat /\ Len(memory') \in Nat /\ Len(memory) <= Len(memory')
  BY DEF Grows, IInv, IsSequence
<1>2. \A t \in Loaded' : IsTable(tables'[t], Len(memory'))
  BY <1>1, TableStays DEF IInv, Loaded
<1>3. IInv'
  BY <1>2 DEF IInv, BTable
<1>4. \A t \in Loaded : Keeps(t)
  BY DEF Keeps
<1> QED
  BY <1>3, <1>4 DEF Stays

(* A file that is replaced is not looked at again. *)
LEMMA ReplaceKeeps ==
  ASSUME IInv, NEW p, NEW file, Replace(p, file),
         p \in Path => file \in Contents
  PROVE  IInv' /\ Stays
<1>1. UNCHANGED <<tables, memory>> /\ disk' = [disk EXCEPT ![p] = file]
  BY DEF Replace
<1>2. Grows
  BY <1>1 DEF Grows, IInv, IsSequence
<1>3. /\ disk' = [q \in Path \cup DPath |-> disk'[q]]
      /\ \A q \in Path : disk'[q] \in Contents
  BY <1>1 DEF IInv
<1>4. IInv'
  BY <1>1, <1>3 DEF IInv, BTable, Loaded
<1>5. \A t \in Loaded : Keeps(t)
  BY <1>1 DEF Keeps
<1> QED
  BY <1>2, <1>4, <1>5 DEF Stays

(* A table that is loaded has pointers into what was added to memory. *)
LEMMA LoadKeeps ==
  ASSUME IInv, NEW t \in BTable, Load(t)
  PROVE  IInv' /\ Stays /\ IsNumbered(tables'[t], Len(memory'))
<1> DEFINE entries == Parsed(t[1], disk[t[2]])
<1>1. t[1] \in Format /\ t[2] \in Path
  BY DEF BTable
<1>2. entries # Refused /\ disk[t[2]] \in Contents
  BY <1>1 DEF Load, IInv
<1>3. IsSequence(entries) /\ IsSequence(memory)
  BY <1>1, <1>2, ParsedGrows DEF IsEntries, IInv
<1> DEFINE new == [file |-> disk[t[2]],
                   chains |-> [i \in DOMAIN entries |-> <<Len(memory) + i>>]]
<1>4. /\ memory' = memory \o entries /\ UNCHANGED disk
      /\ tables' = [tables EXCEPT ![t] = new] /\ tables[t] = NotLoaded
  BY DEF Load
<1> HIDE DEF entries
<1>5. /\ IsSequence(memory') /\ Len(memory') = Len(memory) + Len(entries)
      /\ \A p \in 1..Len(memory) : memory'[p] = memory[p]
  BY <1>3, <1>4, ConcatGrows
<1>6. /\ Len(memory) \in Nat /\ Len(entries) \in Nat /\ Len(memory') \in Nat
      /\ DOMAIN entries = 1..Len(entries)
  BY <1>3, <1>5 DEF IsSequence
<1>7. Grows
  BY <1>5, <1>6 DEF Grows
<1>8. IsTable(new, Len(memory'))
  <2>1. ASSUME NEW i \in DOMAIN entries
        PROVE  IsChain(<<Len(memory) + i>>, Len(memory'))
    <3>1. Len(memory) + i \in 1..Len(memory')
      BY <1>5, <1>6
    <3> QED
      BY <3>1 DEF IsChain
  <2> QED
    BY <2>1 DEF IsTable
<1>9. DOMAIN new.chains = 1..Len(entries)
  BY <1>6
<1> HIDE DEF new
<1>10. /\ tables' = [u \in BTable |-> tables'[u]]
       /\ tables'[t] = new
       /\ \A u \in BTable \ {t} : tables'[u] = tables[u]
  BY <1>4 DEF IInv
<1>11. \A u \in Loaded' : IsTable(tables'[u], Len(memory'))
  BY <1>5, <1>6, <1>8, <1>10, TableStays DEF IInv, Loaded, BTable
<1>12. IInv'
  BY <1>4, <1>5, <1>10, <1>11 DEF IInv, BTable
<1>13. \A u \in Loaded : Keeps(u)
  BY <1>4, <1>10 DEF Keeps, Loaded
<1>14. IsNumbered(tables'[t], Len(memory'))
  BY <1>6, <1>8, <1>9, <1>10 DEF IsNumbered
<1> QED
  BY <1>7, <1>12, <1>13, <1>14 DEF Stays

(* An alteration is added to memory, and to a chain. *)
LEMMA QueryAlteredKeeps ==
  ASSUME IInv, NEW t \in Loaded, NEW code, NEW a, QueryAltered(t, code, a)
  PROVE  /\ IInv' /\ Stays
         /\ IsNumbered(tables[t], Len(memory)) => IsNumbered(tables'[t], Len(memory'))
         /\ \A u \in BTable \ {t} : tables'[u] = tables[u]
<1> DEFINE i == QueryEntry(t, code)
           chain == tables[t].chains[i]
           next == LinkAfterFirst(chain, Len(memory) + 1)
<1>1. /\ tables' = [tables EXCEPT ![t].chains[i] = next]
      /\ UNCHANGED disk
  BY DEF QueryAltered
<1>2. PICK entry : memory' = Append(memory, entry)
  BY DEF QueryAltered
<1> HIDE DEF i
<1>3. /\ IsSequence(memory') /\ Len(memory') = Len(memory) + 1
      /\ \A p \in 1..Len(memory) : memory'[p] = memory[p]
  BY <1>2, AppendGrows DEF IInv
<1>4. Len(memory) \in Nat /\ Len(memory') \in Nat
  BY <1>3 DEF IInv, IsSequence
<1>5. Grows
  BY <1>3, <1>4 DEF Grows
<1>6. t \in BTable /\ IsTable(tables[t], Len(memory))
  BY DEF IInv, Loaded
<1> HIDE DEF chain, next
<1>7. /\ tables' = [u \in BTable |-> tables'[u]]
      /\ tables'[t] = [tables[t] EXCEPT !.chains[i] = next]
      /\ \A u \in BTable \ {t} : tables'[u] = tables[u]
  BY <1>1, <1>6 DEF IInv
<1>8. /\ tables'[t] = [file |-> tables'[t].file, chains |-> tables'[t].chains]
      /\ tables'[t].file = tables[t].file
      /\ tables'[t].chains = [tables[t].chains EXCEPT ![i] = next]
  BY <1>6, <1>7 DEF IsTable
<1>9. i \in DOMAIN tables[t].chains =>
        /\ IsChain(next, Len(memory'))
        /\ next[1] = chain[1]
        /\ \A j \in DOMAIN chain : \E k \in DOMAIN next : next[k] = chain[j]
  <2> HAVE i \in DOMAIN tables[t].chains
  <2>1. IsChain(chain, Len(memory))
    BY <1>6 DEF IsTable, chain
  <2>2. Len(memory) + 1 \in 1..(Len(memory) + 1)
    BY <1>4
  <2> QED
    BY <2>1, <2>2, <1>3, <1>4, LinkedChain DEF next
<1>10. /\ DOMAIN tables'[t].chains = DOMAIN tables[t].chains
       /\ tables'[t].chains = [k \in DOMAIN tables'[t].chains |-> tables'[t].chains[k]]
       /\ i \in DOMAIN tables[t].chains => tables'[t].chains[i] = next
       /\ \A k \in DOMAIN tables[t].chains \ {i} :
            tables'[t].chains[k] = tables[t].chains[k]
  BY <1>6, <1>8 DEF IsTable
<1>11. IsTable(tables[t], Len(memory'))
  BY <1>3, <1>4, <1>6, TableStays
<1>12. \A k \in DOMAIN tables'[t].chains : IsChain(tables'[t].chains[k], Len(memory'))
  BY <1>9, <1>10, <1>11 DEF IsTable
<1>13. IsTable(tables'[t], Len(memory'))
  BY <1>8, <1>10, <1>12 DEF IsTable
<1>14. \A u \in Loaded' : IsTable(tables'[u], Len(memory'))
  BY <1>3, <1>4, <1>7, <1>13, TableStays DEF IInv, Loaded, BTable
<1>15. IInv'
  BY <1>1, <1>3, <1>7, <1>14 DEF IInv, BTable
<1>16. Keeps(t)
  BY <1>8, <1>9, <1>10 DEF Keeps, chain
<1>17. ASSUME NEW u \in Loaded
       PROVE  Keeps(u)
  <2>1. CASE u = t
    BY <2>1, <1>16
  <2>2. CASE u # t
    <3>1. tables'[u] = tables[u]
      BY <2>2, <1>7 DEF Loaded
    <3> QED
      BY <3>1 DEF Keeps
  <2> QED
    BY <2>1, <2>2
<1>18. IsNumbered(tables[t], Len(memory)) => IsNumbered(tables'[t], Len(memory'))
  BY <1>10, <1>13 DEF IsNumbered
<1> QED
  BY <1>5, <1>7, <1>15, <1>17, <1>18 DEF Stays

(* Each step keeps the invariant, and what was there. *)
LEMMA StepKeeps ==
  ASSUME IInv, [NextLibrary]_library
  PROVE  IInv' /\ Stays
<1>1. UNCHANGED <<tables, disk, memory>> => IInv' /\ Stays
  <2> HAVE UNCHANGED <<tables, disk, memory>>
  <2>1. IsSequence(memory') /\ Grows
    BY DEF Grows, IInv, IsSequence
  <2> QED
    BY <2>1, UntouchedStays
<1>2. CASE UNCHANGED library
  BY <1>1, <1>2 DEF library
<1>3. CASE \E t \in BTable : Load(t)
  BY <1>3, LoadKeeps
<1>4. CASE \E t \in DTable : LoadSequences(t)
  BY <1>1, <1>4 DEF LoadSequences
<1>5. ASSUME NEW format \in Format, NEW name \in Wanted, Get(format, name)
      PROVE  IInv' /\ Stays
  <2> DEFINE t == <<format, Named[name]>>
  <2>1. t \in BTable /\ HaveTable(t)
    BY <1>5, FilesAssumption DEF Get, BTable
  <2> HIDE DEF t
  <2> QED
    BY <1>1, <2>1, LoadKeeps DEF HaveTable, library
<1>6. ASSUME NEW t \in Loaded, NEW a \in Alterations, NEW i \in 1..MaxEntries,
             QueryAltered(t, HeadCodes(t)[i], a)
      PROVE  IInv' /\ Stays
  BY <1>6, QueryAlteredKeeps
<1>7. ASSUME NEW p \in Path, NEW file \in Contents, Replace(p, file)
      PROVE  IInv' /\ Stays
  BY <1>7, ReplaceKeeps
<1>8. ASSUME NEW p \in DPath, NEW file \in DContents, Replace(p, file)
      PROVE  IInv' /\ Stays
  BY <1>8, ReplaceKeeps, FilesAssumption
<1> QED
  BY <1>2, <1>3, <1>4, <1>5, <1>6, <1>7, <1>8 DEF NextLibrary

(* What was asked before is answered as before: what a chain had matches as it did. *)
LEMMA StaysAnswers ==
  ASSUME IInv, Stays
  PROVE  AnswersStay
<1>1. Pointer = 1..Len(memory)
  BY DEF IInv, IsSequence, Pointer
<1>2. \A p \in Pointer : memory'[p] = memory[p]
  BY <1>1 DEF Stays, Grows
<1>3. ASSUME NEW t \in Loaded, NEW i \in DOMAIN tables[t].chains, NEW a \in Alterations
      PROVE  LET now == tables[t].chains[i]
                 next == tables'[t].chains[i]
             IN /\ next[1] = now[1]
                /\ {now[j] : j \in Matching(now, a)}
                     \subseteq {next[j] : j \in {j \in DOMAIN next : Is(memory'[next[j]], a)}}
  <2> DEFINE now == tables[t].chains[i]
             next == tables'[t].chains[i]
  <2>1. now \in Seq(Pointer)
    BY <1>1 DEF IInv, IsTable, IsChain
  <2>2. /\ next[1] = now[1]
        /\ \A j \in DOMAIN now : \E k \in DOMAIN next : next[k] = now[j]
    BY DEF Stays, Keeps
  <2> HIDE DEF now, next
  <2>3. ASSUME NEW j \in Matching(now, a)
        PROVE  \E k \in DOMAIN next : next[k] = now[j] /\ Is(memory'[next[k]], a)
    <3>1. j \in DOMAIN now /\ Is(memory[now[j]], a)
      BY DEF Matching
    <3>2. now[j] \in Pointer
      BY <2>1, <3>1
    <3>3. memory'[now[j]] = memory[now[j]]
      BY <1>2, <3>2
    <3>4. PICK k \in DOMAIN next : next[k] = now[j]
      BY <2>2, <3>1
    <3> QED
      BY <3>1, <3>3, <3>4
  <2> QED
    BY <2>2, <2>3 DEF now, next
<1>4. \A t \in Loaded : tables'[t].file = tables[t].file
  BY DEF Stays, Keeps
<1> QED
  BY <1>2, <1>3, <1>4 DEF AnswersStay

(* vartable.h:15-17, varinfo.h:37: entries and tables are never deallocated, so that a
   pointer may be kept.  What is loaded, replaced on disk or altered in between changes
   no answer (query, query_altered, get_bufr). *)
THEOREM AnswersAreKept == SpecLibrary => AnswersNeverChange
<1>1. InitLibrary => IInv
  BY InitHolds
<1>2. IInv /\ [NextLibrary]_library => IInv'
  BY StepKeeps
<1>3. IInv /\ [NextLibrary]_library => [AnswersStay]_library
  BY StepKeeps, StaysAnswers
<1> QED
  BY <1>1, <1>2, <1>3, PTL DEF SpecLibrary, AnswersNeverChange

(* Sequences one after another have what each has, and it stays apart. *)
LEMMA ConcatInjective ==
  ASSUME NEW P, NEW s \in Seq(P), NEW t \in Seq(P), IsInjective(s), IsInjective(t),
         Range(s) \cap Range(t) = {}
  PROVE  /\ s \o t \in Seq(P) /\ IsInjective(s \o t)
         /\ Range(s \o t) = Range(s) \cup Range(t)
<1> DEFINE m == Len(s)
           n == Len(t)
           c == s \o t
<1>1. /\ m \in Nat /\ n \in Nat /\ DOMAIN s = 1..m /\ DOMAIN t = 1..n
  OBVIOUS
<1>2. /\ c \in Seq(P) /\ Len(c) = m + n
      /\ \A i \in 1..(m + n) : c[i] = IF i <= m THEN s[i] ELSE t[i - m]
  BY ConcatProperties
<1> HIDE DEF m, n, c
<1>3. DOMAIN c = 1..(m + n)
  BY <1>1, <1>2
<1>4. ASSUME NEW i \in 1..m
      PROVE  i \in 1..(m + n) /\ c[i] = s[i] /\ s[i] \in Range(s)
  <2>1. i \in 1..(m + n) /\ i <= m
    BY <1>1
  <2> QED
    BY <1>1, <1>2, <2>1 DEF Range
<1>5. ASSUME NEW i \in (m + 1)..(m + n)
      PROVE  i - m \in 1..n /\ c[i] = t[i - m] /\ t[i - m] \in Range(t)
  <2>1. i - m \in 1..n /\ i \in 1..(m + n) /\ ~(i <= m)
    BY <1>1
  <2> QED
    BY <1>1, <1>2, <2>1 DEF Range
<1>6. \A i \in 1..(m + n) : i \in 1..m \/ i \in (m + 1)..(m + n)
  BY <1>1
<1>7. IsInjective(c)
  <2> SUFFICES ASSUME NEW i \in 1..(m + n), NEW j \in 1..(m + n), c[i] = c[j]
               PROVE  i = j
    BY <1>3 DEF IsInjective
  <2>1. CASE i \in 1..m /\ j \in 1..m
    BY <1>1, <1>4, <2>1 DEF IsInjective
  <2>2. CASE i \in (m + 1)..(m + n) /\ j \in (m + 1)..(m + n)
    <3>1. i - m = j - m
      BY <1>1, <1>5, <2>2 DEF IsInjective
    <3> QED
      BY <1>1, <3>1
  <2>3. ~(i \in 1..m /\ j \in (m + 1)..(m + n))
    BY <1>4, <1>5
  <2>4. ~(j \in 1..m /\ i \in (m + 1)..(m + n))
    BY <1>4, <1>5
  <2> QED
    BY <1>6, <2>1, <2>2, <2>3, <2>4
<1>8. Range(c) = Range(s) \cup Range(t)
  <2>1. ASSUME NEW x \in Range(c)
        PROVE  x \in Range(s) \cup Range(t)
    <3>1. PICK i \in 1..(m + n) : x = c[i]
      BY <1>3 DEF Range
    <3> QED
      BY <1>4, <1>5, <1>6, <3>1
  <2>2. ASSUME NEW x \in Range(s)
        PROVE  x \in Range(c)
    <3>1. PICK i \in 1..m : x = s[i]
      BY <1>1 DEF Range
    <3> QED
      BY <1>3, <1>4, <3>1 DEF Range
  <2>3. ASSUME NEW x \in Range(t)
        PROVE  x \in Range(c)
    <3>1. PICK i \in 1..n : x = t[i]
      BY <1>1 DEF Range
    <3>2. i + m \in (m + 1)..(m + n) /\ (i + m) - m = i /\ i + m \in 1..(m + n)
      BY <1>1
    <3>3. c[i + m] = t[i]
      BY <1>5, <3>2
    <3> QED
      BY <1>3, <3>1, <3>2, <3>3 DEF Range
  <2> QED
    BY <2>1, <2>2, <2>3
<1> QED
  BY <1>2, <1>7, <1>8 DEF c

IsFlat(seqs, flat, m) ==
  flat = [i \in 1..m |-> IF i = 1 THEN seqs[i] ELSE flat[i - 1] \o seqs[i]]

(* Sequences can be put one after another, however many they are. *)
LEMMA FlatExists ==
  ASSUME NEW seqs
  PROVE  \A m \in Nat : \E flat : IsFlat(seqs, flat, m)
<1> DEFINE S == {m \in Nat : \E flat : IsFlat(seqs, flat, m)}
<1>1. 0 \in S
  <2> DEFINE f == [i \in 1..0 |-> <<>>]
  <2>1. IsFlat(seqs, f, 0)
    BY DEF IsFlat
  <2> QED
    BY <2>1
<1>2. ASSUME NEW m \in Nat, m \in S
      PROVE  m + 1 \in S
  <2>1. PICK f : IsFlat(seqs, f, m)
    BY <1>2
  <2> DEFINE one == IF m + 1 = 1 THEN seqs[m + 1] ELSE f[m] \o seqs[m + 1]
             g == [i \in 1..(m + 1) |-> IF i = m + 1 THEN one ELSE f[i]]
  <2>2. ASSUME NEW i \in 1..(m + 1)
        PROVE  g[i] = IF i = 1 THEN seqs[i] ELSE g[i - 1] \o seqs[i]
    <3>1. CASE i = m + 1
      <4>1. i - 1 = m /\ (i # 1 => i - 1 \in 1..(m + 1) /\ g[i - 1] = f[m])
        BY <3>1
      <4> QED
        BY <3>1, <4>1
    <3>2. CASE i # m + 1
      <4>1. i \in 1..m /\ (i # 1 => i - 1 \in 1..m)
        BY <3>2
      <4>2. g[i] = f[i] /\ (i # 1 => g[i - 1] = f[i - 1])
        BY <4>1
      <4>3. f[i] = IF i = 1 THEN seqs[i] ELSE f[i - 1] \o seqs[i]
        BY <2>1, <4>1 DEF IsFlat
      <4> QED
        BY <4>1, <4>2, <4>3
    <3> QED
      BY <3>1, <3>2
  <2>3. IsFlat(seqs, g, m + 1)
    BY <2>2 DEF IsFlat
  <2> QED
    BY <2>3
<1> HIDE DEF S
<1>3. Nat \subseteq S
  BY <1>1, <1>2, NatSetInduction
<1> QED
  BY <1>3 DEF S

(* Chains that have nothing in common, one after another. *)
Separate(P, n, seqs) ==
  /\ n \in Nat /\ seqs = [i \in 1..n |-> seqs[i]]
  /\ \A i \in 1..n : seqs[i] \in Seq(P) /\ IsInjective(seqs[i])
  /\ \A i, k \in 1..n : i # k => Range(seqs[i]) \cap Range(seqs[k]) = {}

(* What has them has nothing twice. *)
LEMMA Flattened ==
  ASSUME NEW P, NEW n, NEW seqs, Separate(P, n, seqs)
  PROVE  /\ IsInjective(FlattenSeq(seqs))
         /\ Range(FlattenSeq(seqs)) \subseteq UNION {Range(seqs[i]) : i \in 1..n}
<1>0. /\ n \in Nat /\ seqs = [i \in 1..n |-> seqs[i]]
      /\ \A i \in 1..n : seqs[i] \in Seq(P) /\ IsInjective(seqs[i])
      /\ \A i, k \in 1..n : i # k => Range(seqs[i]) \cap Range(seqs[k]) = {}
  BY DEF Separate
<1>1. Len(seqs) = n /\ DOMAIN seqs = 1..n
  BY <1>0
<1>2. CASE n = 0
  <2>1. FlattenSeq(seqs) = seqs
    BY <1>1, <1>2 DEF FlattenSeq
  <2>2. DOMAIN seqs = {}
    BY <1>1, <1>2
  <2> QED
    BY <2>1, <2>2 DEF IsInjective, Range
<1>3. CASE n # 0
  <2> DEFINE flat == CHOOSE flat : IsFlat(seqs, flat, Len(seqs))
  <2>1. FlattenSeq(seqs) = flat[n]
    BY <1>1, <1>3 DEF FlattenSeq, IsFlat
  <2>2. IsFlat(seqs, flat, n)
    BY <1>0, <1>1, FlatExists
  <2> HIDE DEF flat
  <2> DEFINE Good(i) == /\ flat[i] \in Seq(P) /\ IsInjective(flat[i])
                        /\ Range(flat[i]) = UNION {Range(seqs[k]) : k \in 1..i}
             S == {i \in Nat : i + 1 <= n => Good(i + 1)}
  <2>3. 0 \in S
    <3>1. flat[1] = seqs[1] /\ 1 \in 1..n
      BY <1>0, <1>3, <2>2 DEF IsFlat
    <3>2. UNION {Range(seqs[k]) : k \in 1..1} = Range(seqs[1])
      OBVIOUS
    <3> QED
      BY <1>0, <3>1, <3>2
  <2>4. ASSUME NEW i \in Nat, i \in S
        PROVE  i + 1 \in S
    <3> DEFINE m == i + 1
    <3> SUFFICES ASSUME m + 1 <= n PROVE Good(m + 1)
      OBVIOUS
    <3>1. Good(m) /\ m \in Nat /\ m \in 1..n /\ m + 1 \in 1..n /\ m + 1 # 1 /\ (m + 1) - 1 = m
      BY <1>0, <2>4
    <3>2. flat[m + 1] = flat[m] \o seqs[m + 1]
      BY <2>2, <3>1 DEF IsFlat
    <3>3. /\ flat[m] \in Seq(P) /\ IsInjective(flat[m])
          /\ Range(flat[m]) = UNION {Range(seqs[k]) : k \in 1..m}
          /\ seqs[m + 1] \in Seq(P) /\ IsInjective(seqs[m + 1])
      BY <1>0, <3>1
    <3> HIDE DEF m, Good
    <3>4. \A k \in 1..m : Range(seqs[k]) \cap Range(seqs[m + 1]) = {}
      <4>1. \A k \in 1..m : k \in 1..n /\ k # m + 1
        BY <1>0, <3>1
      <4> QED
        BY <1>0, <3>1, <4>1
    <3>5. Range(flat[m]) \cap Range(seqs[m + 1]) = {}
      BY <3>3, <3>4
    <3>6. /\ flat[m + 1] \in Seq(P) /\ IsInjective(flat[m + 1])
          /\ Range(flat[m + 1]) = Range(flat[m]) \cup Range(seqs[m + 1])
      <4>1. PICK x, y : x = flat[m] /\ y = seqs[m + 1]
        OBVIOUS
      <4>2. /\ x \in Seq(P) /\ y \in Seq(P) /\ IsInjective(x) /\ IsInjective(y)
            /\ Range(x) \cap Range(y) = {}
        BY <3>3, <3>5, <4>1
      <4>3. x \o y \in Seq(P) /\ IsInjective(x \o y) /\ Range(x \o y) = Range(x) \cup Range(y)
        BY <4>2, ConcatInjective
      <4> QED
        BY <3>2, <4>1, <4>3
    <3>7. UNION {Range(seqs[k]) : k \in 1..(m + 1)}
            = (UNION {Range(seqs[k]) : k \in 1..m}) \cup Range(seqs[m + 1])
      <4>1. 1..(m + 1) = (1..m) \cup {m + 1}
        BY <3>1
      <4> QED
        BY <4>1
    <3> QED
      BY <3>3, <3>6, <3>7 DEF Good
  <2> HIDE DEF S
  <2>5. n - 1 \in S
    BY <1>0, <1>3, <2>3, <2>4, NatSetInduction
  <2>6. Good(n)
    BY <1>0, <1>3, <2>5 DEF S
  <2> QED
    BY <2>1, <2>6
<1> QED
  BY <1>2, <1>3

----------------------------------------------------------------------------
(* Chains of alterations. *)

(* The pointers of a chain are all for the code of the first, and each is another
   pointer and another alteration. *)
GoodChain(chain, mem) ==
  /\ IsInjective(chain)
  /\ \A j \in DOMAIN chain : mem[chain[j]].info.code = mem[chain[1]].info.code
  /\ \A j, k \in DOMAIN chain : \A a \in Alterations :
       Is(mem[chain[j]], a) /\ Is(mem[chain[k]], a) => j = k

(* What a table was made of. *)
FromFile(t) ==
  LET entries == Parsed(t[1], tables[t].file)
      chains == tables[t].chains
  IN /\ tables[t].file \in Contents /\ entries # Refused
     /\ DOMAIN chains = DOMAIN entries
     /\ \A i \in DOMAIN chains : memory[chains[i][1]] = entries[i]

(* No pointer is in two chains. *)
Apart ==
  \A t, u \in Loaded :
    \A i \in DOMAIN tables[t].chains, k \in DOMAIN tables[u].chains :
      t # u \/ i # k =>
        Range(tables[t].chains[i]) \cap Range(tables[u].chains[k]) = {}

ChainInv ==
  /\ \A t \in Loaded :
       /\ FromFile(t)
       /\ \A i \in DOMAIN tables[t].chains : GoodChain(tables[t].chains[i], memory)
  /\ Apart

(* An alteration has the code of the entry, and is what was asked for. *)
LEMMA AlteredIs ==
  ASSUME NEW entry, NEW a, NEW e \in Altered(entry, a)
  PROVE  e.info.code = entry.info.code /\ Is(e, a)
BY DEF Altered, Is, Entry, SetBufr, TextInfo, Info

(* Each place of the longer chain, and where its pointer was. *)
LEMMA LinkedFrom ==
  ASSUME NEW n \in Nat, NEW chain, IsChain(chain, n), NEW p, p = n + 1,
         NEW j \in DOMAIN LinkAfterFirst(chain, p)
  PROVE  LET next == LinkAfterFirst(chain, p)
         IN IF j = 2 THEN next[j] = p
            ELSE \E i \in DOMAIN chain :
                   /\ next[j] = chain[i] /\ chain[i] \in 1..n
                   /\ i = IF j = 1 THEN 1 ELSE j - 1
<1> DEFINE next == LinkAfterFirst(chain, p)
<1>1. /\ Len(chain) \in Nat \ {0} /\ DOMAIN chain = 1..Len(chain)
      /\ \A i \in 1..Len(chain) : chain[i] \in 1..n
      /\ DOMAIN next = 1..(Len(chain) + 1)
      /\ next[1] = chain[1] /\ next[2] = p
      /\ \A i \in 3..(Len(chain) + 1) : next[i] = chain[i - 1]
  BY LinkedPlaces
<1> HIDE DEF next
<1>2. CASE j = 1
  BY <1>1, <1>2 DEF next
<1>3. CASE j = 2
  BY <1>1, <1>3 DEF next
<1>4. CASE j # 1 /\ j # 2
  <2>1. j \in 1..(Len(chain) + 1)
    BY <1>1 DEF next
  <2>2. j \in 3..(Len(chain) + 1) /\ j - 1 \in 1..Len(chain)
    BY <1>1, <1>4, <2>1
  <2>3. next[j] = chain[j - 1] /\ chain[j - 1] \in 1..n /\ j - 1 \in DOMAIN chain
    BY <1>1, <2>2
  <2> QED
    BY <1>4, <2>3 DEF next
<1> QED
  BY <1>2, <1>3, <1>4

(* A new alteration, p in a memory mem2 that has one more entry than mem. *)
NewAlteration(n, chain, mem, next, p, mem2, a) ==
  /\ n \in Nat /\ p = n + 1 /\ IsChain(chain, n) /\ GoodChain(chain, mem)
  /\ next = LinkAfterFirst(chain, p)
  /\ \A q \in 1..n : mem2[q] = mem[q]
  /\ Is(mem2[p], a) /\ mem2[p].info.code = mem[chain[1]].info.code
  /\ \A j \in DOMAIN chain : ~Is(mem[chain[j]], a)

(* It makes a good chain when there was none like it. *)
LEMMA LinkedIsGood ==
  ASSUME NEW n, NEW chain, NEW mem, NEW next, NEW p, NEW mem2, NEW a,
         NewAlteration(n, chain, mem, next, p, mem2, a)
  PROVE  /\ GoodChain(next, mem2) /\ next[1] = chain[1]
         /\ Range(next) = Range(chain) \cup {p}
<1> /\ n \in Nat /\ p = n + 1 /\ IsChain(chain, n) /\ GoodChain(chain, mem)
    /\ next = LinkAfterFirst(chain, p)
    /\ \A q \in 1..n : mem2[q] = mem[q]
    /\ Is(mem2[p], a) /\ mem2[p].info.code = mem[chain[1]].info.code
    /\ \A j \in DOMAIN chain : ~Is(mem[chain[j]], a)
  BY DEF NewAlteration
<1>0. \A b : Is(mem2[p], b) => \A e : Is(e, b) => Is(e, a)
  BY DEF Is
<1>1. /\ Len(chain) \in Nat \ {0} /\ DOMAIN chain = 1..Len(chain)
      /\ \A i \in 1..Len(chain) : chain[i] \in 1..n
      /\ DOMAIN next = 1..(Len(chain) + 1)
      /\ next[1] = chain[1] /\ next[2] = p
      /\ \A i \in 3..(Len(chain) + 1) : next[i] = chain[i - 1]
  <2>1. p \in 1..(n + 1)
    OBVIOUS
  <2> QED
    BY <2>1, LinkedPlaces
<1>2. ASSUME NEW j \in DOMAIN next, j # 2
      PROVE  \E i \in DOMAIN chain :
               /\ next[j] = chain[i] /\ chain[i] \in 1..n /\ next[j] # p
               /\ mem2[next[j]] = mem[chain[i]]
               /\ i = IF j = 1 THEN 1 ELSE j - 1
  <2>1. PICK i \in DOMAIN chain :
           /\ next[j] = chain[i] /\ chain[i] \in 1..n
           /\ i = IF j = 1 THEN 1 ELSE j - 1
    BY <1>2, LinkedFrom
  <2>2. next[j] # p
    BY <2>1
  <2> QED
    BY <2>1, <2>2
<1>3. \A j, k \in DOMAIN next : j # 2 /\ k # 2 =>
        ((IF j = 1 THEN 1 ELSE j - 1) = (IF k = 1 THEN 1 ELSE k - 1) => j = k)
  BY <1>1
<1>4. IsInjective(next)
  <2> SUFFICES ASSUME NEW j \in DOMAIN next, NEW k \in DOMAIN next, next[j] = next[k]
               PROVE  j = k
    BY DEF IsInjective
  <2>1. CASE j = 2 \/ k = 2
    BY <1>1, <1>2, <2>1
  <2>2. CASE j # 2 /\ k # 2
    <3>1. PICK i \in DOMAIN chain : next[j] = chain[i] /\ i = IF j = 1 THEN 1 ELSE j - 1
      BY <1>2, <2>2
    <3>2. PICK l \in DOMAIN chain : next[k] = chain[l] /\ l = IF k = 1 THEN 1 ELSE k - 1
      BY <1>2, <2>2
    <3>3. i = l
      BY <3>1, <3>2 DEF GoodChain, IsInjective
    <3> QED
      BY <1>3, <2>2, <3>1, <3>2, <3>3
  <2> QED
    BY <2>1, <2>2
<1>5. mem2[next[1]] = mem[chain[1]]
  BY <1>1
<1>6. ASSUME NEW j \in DOMAIN next
      PROVE  mem2[next[j]].info.code = mem2[next[1]].info.code
  <2>1. CASE j = 2
    BY <1>1, <1>5, <2>1
  <2>2. CASE j # 2
    BY <1>2, <1>5, <2>2 DEF GoodChain
  <2> QED
    BY <2>1, <2>2
<1>7. ASSUME NEW j \in DOMAIN next, NEW k \in DOMAIN next, NEW b \in Alterations,
             Is(mem2[next[j]], b), Is(mem2[next[k]], b)
      PROVE  j = k
  <2>1. CASE j # 2 /\ k # 2
    <3>1. PICK i \in DOMAIN chain : /\ mem2[next[j]] = mem[chain[i]]
                                     /\ i = IF j = 1 THEN 1 ELSE j - 1
      BY <1>2, <2>1
    <3>2. PICK l \in DOMAIN chain : /\ mem2[next[k]] = mem[chain[l]]
                                     /\ l = IF k = 1 THEN 1 ELSE k - 1
      BY <1>2, <2>1
    <3>3. i = l
      BY <1>7, <3>1, <3>2 DEF GoodChain
    <3> QED
      BY <1>3, <2>1, <3>1, <3>2, <3>3
  <2>2. ~(j = 2 /\ k # 2)
    <3> SUFFICES ASSUME j = 2, k # 2 PROVE FALSE
      OBVIOUS
    <3>1. PICK i \in DOMAIN chain : mem2[next[k]] = mem[chain[i]]
      BY <1>2
    <3>2. Is(mem[chain[i]], a)
      BY <1>0, <1>1, <1>7, <3>1
    <3> QED
      BY <3>2
  <2>3. ~(k = 2 /\ j # 2)
    <3> SUFFICES ASSUME k = 2, j # 2 PROVE FALSE
      OBVIOUS
    <3>1. PICK i \in DOMAIN chain : mem2[next[j]] = mem[chain[i]]
      BY <1>2
    <3>2. Is(mem[chain[i]], a)
      BY <1>0, <1>1, <1>7, <3>1
    <3> QED
      BY <3>2
  <2> QED
    BY <2>1, <2>2, <2>3
<1>8. Range(next) = Range(chain) \cup {p}
  <2>1. \A j \in DOMAIN next : next[j] \in Range(chain) \cup {p}
    BY <1>1, <1>2 DEF Range
  <2>2. p \in Range(next)
    BY <1>1 DEF Range
  <2>3. ASSUME NEW i \in DOMAIN chain
        PROVE  chain[i] \in Range(next)
    <3>1. CASE i = 1
      BY <1>1, <3>1 DEF Range
    <3>2. CASE i # 1
      <4>1. i \in 1..Len(chain)
        BY <1>1
      <4>2. i + 1 \in 3..(Len(chain) + 1) /\ (i + 1) - 1 = i /\ i + 1 \in DOMAIN next
        BY <1>1, <3>2, <4>1
      <4>3. next[i + 1] = chain[i]
        BY <1>1, <4>2
      <4> QED
        BY <4>2, <4>3 DEF Range
    <3> QED
      BY <3>1, <3>2
  <2> QED
    BY <2>1, <2>2, <2>3 DEF Range
<1>9. \A j \in DOMAIN next : mem2[next[j]].info.code = mem2[next[1]].info.code
  BY <1>6
<1>10. \A j, k \in DOMAIN next : \A b \in Alterations :
         Is(mem2[next[j]], b) /\ Is(mem2[next[k]], b) => j = k
  BY <1>7
<1> QED
  BY <1>1, <1>4, <1>8, <1>9, <1>10 DEF GoodChain

(* A chain reads the same in a memory that has grown. *)
LEMMA GoodStays ==
  ASSUME NEW n, NEW chain, IsChain(chain, n), NEW mem, NEW mem2,
         \A q \in 1..n : mem2[q] = mem[q], GoodChain(chain, mem)
  PROVE  GoodChain(chain, mem2) /\ mem2[chain[1]] = mem[chain[1]]
<1>1. \A j \in DOMAIN chain : chain[j] \in 1..n
  <2> DEFINE S == 1..n
  <2>1. chain \in Seq(S)
    BY DEF IsChain
  <2> HIDE DEF S
  <2>2. \A j \in DOMAIN chain : chain[j] \in S
    BY <2>1
  <2> QED
    BY <2>2 DEF S
<1>2. 1 \in DOMAIN chain
  BY EmptySeq DEF IsChain
<1>3. \A j \in DOMAIN chain : mem2[chain[j]] = mem[chain[j]]
  BY <1>1
<1> QED
  BY <1>2, <1>3 DEF GoodChain

(* When no table changes. *)
LEMMA UntouchedChains ==
  ASSUME IInv, ChainInv, UNCHANGED <<tables, memory>>
  PROVE  ChainInv'
<1>1. Loaded' = Loaded
  BY DEF Loaded
<1>2. ASSUME NEW t \in Loaded
      PROVE  FromFile(t)' /\ \A i \in DOMAIN tables'[t].chains :
                               GoodChain(tables'[t].chains[i], memory')
  <2>1. FromFile(t)
    BY DEF ChainInv
  <2>2. FromFile(t)'
    BY <2>1 DEF FromFile
  <2> QED
    BY <2>2 DEF ChainInv
<1>3. Apart'
  BY <1>1 DEF ChainInv, Apart
<1> QED
  BY <1>1, <1>2, <1>3 DEF ChainInv

(* A table that is loaded has an entry for each line, and pointers that no other has. *)
LEMMA LoadChains ==
  ASSUME IInv, ChainInv, NEW t \in BTable, Load(t)
  PROVE  ChainInv'
<1> DEFINE entries == Parsed(t[1], disk[t[2]])
           n == Len(memory)
           new == [file |-> disk[t[2]],
                   chains |-> [i \in DOMAIN entries |-> <<n + i>>]]
<1>1. t[1] \in Format /\ t[2] \in Path
  BY DEF BTable
<1>2. entries # Refused /\ disk[t[2]] \in Contents
  BY <1>1 DEF Load, IInv
<1>3. IsSequence(entries) /\ IsSequence(memory)
  BY <1>1, <1>2, ParsedGrows DEF IsEntries, IInv
<1>4. /\ memory' = memory \o entries
      /\ tables' = [tables EXCEPT ![t] = new] /\ tables[t] = NotLoaded
  BY DEF Load
<1> HIDE DEF entries
<1>5. /\ n \in Nat /\ Len(entries) \in Nat /\ DOMAIN entries = 1..Len(entries)
      /\ \A p \in 1..n : memory'[p] = memory[p]
      /\ \A i \in 1..Len(entries) : memory'[n + i] = entries[i]
  BY <1>3, <1>4, ConcatGrows DEF IsSequence
<1> HIDE DEF new
<1>6. /\ tables'[t] = new
      /\ \A u \in BTable \ {t} : tables'[u] = tables[u]
      /\ \A u \in Loaded' : u # t => u \in Loaded /\ tables'[u] = tables[u]
  BY <1>4 DEF IInv, Loaded
<1>7. /\ new.file = disk[t[2]] /\ new.chains = [i \in DOMAIN entries |-> <<n + i>>]
      /\ DOMAIN new.chains = 1..Len(entries)
      /\ \A i \in 1..Len(entries) : new.chains[i] = <<n + i>>
  BY <1>5 DEF new
<1>8. ASSUME NEW u \in Loaded
      PROVE  \A i \in DOMAIN tables[u].chains :
               /\ IsChain(tables[u].chains[i], n) /\ GoodChain(tables[u].chains[i], memory)
               /\ Range(tables[u].chains[i]) \subseteq 1..n
  <2>1. ASSUME NEW i \in DOMAIN tables[u].chains
        PROVE  /\ IsChain(tables[u].chains[i], n) /\ GoodChain(tables[u].chains[i], memory)
    BY DEF IInv, IsTable, ChainInv
  <2>2. ASSUME NEW chain, IsChain(chain, n)
        PROVE  Range(chain) \subseteq 1..n
    BY <2>2 DEF IsChain, Range
  <2> QED
    BY <2>1, <2>2
<1>9. ASSUME NEW u \in Loaded', u # t
      PROVE  /\ FromFile(u)'
             /\ \A i \in DOMAIN tables'[u].chains : GoodChain(tables'[u].chains[i], memory')
  <2>1. u \in Loaded /\ tables'[u] = tables[u]
    BY <1>6, <1>9
  <2>2. ASSUME NEW i \in DOMAIN tables[u].chains
        PROVE  /\ GoodChain(tables[u].chains[i], memory')
               /\ memory'[tables[u].chains[i][1]] = memory[tables[u].chains[i][1]]
    <3>1. PICK mem2 : mem2 = memory'
      OBVIOUS
    <3>2. \A q \in 1..n : mem2[q] = memory[q]
      BY <1>5, <3>1
    <3>3. IsChain(tables[u].chains[i], n) /\ GoodChain(tables[u].chains[i], memory)
      BY <1>8, <2>1
    <3> QED
      BY <3>1, <3>2, <3>3, GoodStays
  <2>3. FromFile(u)
    BY <2>1 DEF ChainInv
  <2>4. FromFile(u)'
    BY <2>1, <2>2, <2>3 DEF FromFile
  <2> QED
    BY <2>1, <2>2, <2>4
<1>10. /\ FromFile(t)'
       /\ \A i \in DOMAIN new.chains : GoodChain(new.chains[i], memory')
  <2>1. FromFile(t)'
    <3>1. Parsed(t[1], tables'[t].file) = entries
      BY <1>6, <1>7 DEF entries
    <3>2. \A i \in 1..Len(entries) : new.chains[i][1] = n + i
      BY <1>7
    <3> QED
      BY <1>2, <1>5, <1>6, <1>7, <3>1, <3>2 DEF FromFile
  <2>2. ASSUME NEW i \in 1..Len(entries)
        PROVE  GoodChain(<<n + i>>, memory')
    <3>1. DOMAIN <<n + i>> = {1}
      OBVIOUS
    <3> QED
      BY <3>1 DEF GoodChain, IsInjective
  <2> QED
    BY <1>7, <2>1, <2>2
<1>11. Apart'
  <2>1. ASSUME NEW i \in DOMAIN new.chains
        PROVE  Range(new.chains[i]) = {n + i} /\ i \in Nat /\ n + i \notin 1..n
    <3>1. DOMAIN <<n + i>> = {1} /\ <<n + i>>[1] = n + i
      OBVIOUS
    <3>2. i \in 1..Len(entries) /\ new.chains[i] = <<n + i>>
      BY <1>7
    <3>3. n + i \notin 1..n
      BY <1>5, <3>2
    <3> HIDE DEF n
    <3> QED
      BY <3>1, <3>2, <3>3 DEF Range
  <2>2. ASSUME NEW u \in Loaded', NEW v \in Loaded',
               NEW i \in DOMAIN tables'[u].chains, NEW k \in DOMAIN tables'[v].chains,
               u # v \/ i # k
        PROVE  Range(tables'[u].chains[i]) \cap Range(tables'[v].chains[k]) = {}
    <3>1. CASE u = t /\ v = t
      <4>1. n + i # n + k
        BY <1>5, <1>6, <2>1, <2>2, <3>1
      <4> QED
        BY <1>6, <2>1, <3>1, <4>1
    <3>2. CASE u = t /\ v # t
      <4>1. v \in Loaded /\ tables'[v] = tables[v] /\ i \in DOMAIN new.chains
        BY <1>6, <2>2, <3>2
      <4>2. Range(tables'[v].chains[k]) \subseteq 1..n
        BY <1>8, <2>2, <4>1
      <4>3. Range(tables'[u].chains[i]) = {n + i} /\ n + i \notin 1..n
        BY <1>6, <2>1, <3>2, <4>1
      <4> QED
        BY <4>2, <4>3
    <3>3. CASE u # t /\ v = t
      <4>1. u \in Loaded /\ tables'[u] = tables[u] /\ k \in DOMAIN new.chains
        BY <1>6, <2>2, <3>3
      <4>2. Range(tables'[u].chains[i]) \subseteq 1..n
        BY <1>8, <2>2, <4>1
      <4>3. Range(tables'[v].chains[k]) = {n + k} /\ n + k \notin 1..n
        BY <1>6, <2>1, <3>3, <4>1
      <4> QED
        BY <4>2, <4>3
    <3>4. CASE u # t /\ v # t
      BY <1>6, <2>2, <3>4 DEF ChainInv, Apart
    <3> QED
      BY <3>1, <3>2, <3>3, <3>4
  <2> QED
    BY <2>2 DEF Apart
<1> QED
  BY <1>6, <1>9, <1>10, <1>11 DEF ChainInv

(* An alteration is added to one chain, where there was none like it. *)
LEMMA QueryAlteredChains ==
  ASSUME IInv, ChainInv, NEW t \in Loaded, NEW code, NEW a, QueryAltered(t, code, a),
         QueryEntry(t, code) \in DOMAIN tables[t].chains
  PROVE  ChainInv'
<1> DEFINE c == QueryEntry(t, code)
           n == Len(memory)
           p == n + 1
           chain == tables[t].chains[c]
           next == LinkAfterFirst(chain, p)
<1>1. /\ tables' = [tables EXCEPT ![t].chains[c] = next]
      /\ Matching(chain, a) = {}
  BY DEF QueryAltered
<1>2. PICK entry \in Altered(memory[chain[1]], a) : memory' = Append(memory, entry)
  BY DEF QueryAltered
<1>3. entry.info.code = memory[chain[1]].info.code /\ Is(entry, a)
  BY AlteredIs
<1> HIDE DEF c
<1>4. /\ n \in Nat /\ memory'[p] = entry
      /\ \A q \in 1..n : memory'[q] = memory[q]
  BY <1>2, AppendGrows DEF IInv, IsSequence
<1>5. t \in BTable /\ IsTable(tables[t], n)
  BY DEF IInv, Loaded
<1> HIDE DEF next, n, p
<1>6. /\ tables'[t] = [tables[t] EXCEPT !.chains[c] = next]
      /\ \A u \in BTable \ {t} : tables'[u] = tables[u]
  BY <1>1, <1>5 DEF IInv
<1>7. /\ tables'[t].file = tables[t].file
      /\ tables'[t].chains = [tables[t].chains EXCEPT ![c] = next]
  BY <1>5, <1>6 DEF IsTable
<1>8. /\ DOMAIN tables'[t].chains = DOMAIN tables[t].chains
      /\ c \in DOMAIN tables[t].chains /\ tables'[t].chains[c] = next
      /\ \A k \in DOMAIN tables[t].chains \ {c} :
           tables'[t].chains[k] = tables[t].chains[k]
  BY <1>5, <1>7 DEF IsTable, c
<1>9. \A u \in Loaded' : /\ u \in Loaded
                         /\ DOMAIN tables'[u].chains = DOMAIN tables[u].chains
                         /\ tables'[u].file = tables[u].file
                         /\ u # t => tables'[u] = tables[u]
  <2>1. \A u \in Loaded' : u \in Loaded /\ (u # t => tables'[u] = tables[u])
    BY <1>6 DEF Loaded
  <2> QED
    BY <2>1, <1>7, <1>8
<1>10. \A u \in Loaded' : \A i \in DOMAIN tables[u].chains :
         u # t \/ i # c => tables'[u].chains[i] = tables[u].chains[i]
  BY <1>8, <1>9
<1>11. ASSUME NEW u \in Loaded, NEW i \in DOMAIN tables[u].chains
       PROVE  /\ IsChain(tables[u].chains[i], n)
              /\ GoodChain(tables[u].chains[i], memory)
              /\ Range(tables[u].chains[i]) \subseteq 1..n
  <2>1. IsChain(tables[u].chains[i], n) /\ GoodChain(tables[u].chains[i], memory)
    BY DEF IInv, IsTable, ChainInv, n
  <2>2. ASSUME NEW x, IsChain(x, n)
        PROVE  Range(x) \subseteq 1..n
    BY <1>4, <2>2 DEF IsChain, Range
  <2> QED
    BY <2>1, <2>2
<1>12. /\ GoodChain(next, memory') /\ next[1] = chain[1]
       /\ Range(next) = Range(chain) \cup {p}
  <2>1. IsChain(chain, n) /\ GoodChain(chain, memory)
    BY <1>8, <1>11
  <2>2. PICK mem, mem2, x, y, l, q :
           /\ mem = memory /\ mem2 = memory' /\ x = chain /\ y = next /\ l = n /\ q = p
    OBVIOUS
  <2>3. l \in Nat /\ q = l + 1 /\ \A r \in 1..l : mem2[r] = mem[r]
    BY <1>4, <2>2 DEF p
  <2>4. /\ Is(mem2[q], a) /\ mem2[q].info.code = mem[x[1]].info.code
        /\ \A j \in DOMAIN x : ~Is(mem[x[j]], a)
    BY <1>1, <1>3, <1>4, <2>2 DEF Matching
  <2>5. IsChain(x, l) /\ GoodChain(x, mem) /\ y = LinkAfterFirst(x, q)
    BY <2>1, <2>2 DEF next
  <2>6. NewAlteration(l, x, mem, y, q, mem2, a)
    BY <2>3, <2>4, <2>5 DEF NewAlteration
  <2>7. /\ GoodChain(y, mem2) /\ y[1] = x[1]
        /\ Range(y) = Range(x) \cup {q}
    BY <2>6, LinkedIsGood
  <2> QED
    BY <2>2, <2>7
<1> HIDE DEF chain
<1>13. ASSUME NEW u \in Loaded', NEW i \in DOMAIN tables'[u].chains
       PROVE  /\ GoodChain(tables'[u].chains[i], memory')
              /\ memory'[tables'[u].chains[i][1]] = memory[tables[u].chains[i][1]]
  <2>1. u \in Loaded /\ i \in DOMAIN tables[u].chains
    BY <1>9
  <2>2. PICK mem2, x : mem2 = memory' /\ x = tables[u].chains[i]
    OBVIOUS
  <2>3. \A q \in 1..n : mem2[q] = memory[q]
    BY <1>4, <2>2
  <2>4. GoodChain(x, mem2) /\ mem2[x[1]] = memory[x[1]]
    BY <1>11, <2>1, <2>2, <2>3, GoodStays
  <2>5. CASE u # t \/ i # c
    BY <1>10, <2>1, <2>2, <2>4, <2>5
  <2>6. CASE u = t /\ i = c
    <3>1. tables'[u].chains[i] = next /\ x = chain
      BY <1>8, <2>2, <2>6 DEF chain
    <3> QED
      BY <1>12, <2>2, <2>4, <3>1
  <2> QED
    BY <2>5, <2>6
<1>14. ASSUME NEW u \in Loaded'
       PROVE  FromFile(u)'
  <2>1. FromFile(u) /\ u \in Loaded
    BY <1>9 DEF ChainInv
  <2>2. /\ tables'[u].file = tables[u].file
        /\ DOMAIN tables'[u].chains = DOMAIN tables[u].chains
        /\ \A i \in DOMAIN tables'[u].chains :
             memory'[tables'[u].chains[i][1]] = memory[tables[u].chains[i][1]]
    BY <1>9, <1>13
  <2> QED
    BY <2>1, <2>2 DEF FromFile
<1>15. ASSUME NEW u \in Loaded', NEW v \in Loaded',
              NEW i \in DOMAIN tables'[u].chains, NEW k \in DOMAIN tables'[v].chains,
              u # v \/ i # k
       PROVE  Range(tables'[u].chains[i]) \cap Range(tables'[v].chains[k]) = {}
  <2>1. /\ u \in Loaded /\ i \in DOMAIN tables[u].chains
        /\ v \in Loaded /\ k \in DOMAIN tables[v].chains
    BY <1>9
  <2>2. Range(tables[u].chains[i]) \cap Range(tables[v].chains[k]) = {}
    BY <1>15, <2>1 DEF ChainInv, Apart
  <2>3. /\ p \notin Range(tables[u].chains[i]) /\ p \notin Range(tables[v].chains[k])
    <3>1. p \notin 1..n
      BY <1>4 DEF p
    <3> QED
      BY <1>11, <2>1, <3>1
  <2>4. CASE u = t /\ i = c
    <3>1. tables'[u].chains[i] = next /\ Range(next) = Range(tables[u].chains[i]) \cup {p}
      BY <1>8, <1>12, <2>4 DEF chain
    <3>2. tables'[v].chains[k] = tables[v].chains[k]
      BY <1>10, <1>15, <2>1, <2>4
    <3> QED
      BY <2>2, <2>3, <3>1, <3>2
  <2>5. CASE v = t /\ k = c
    <3>1. tables'[v].chains[k] = next /\ Range(next) = Range(tables[v].chains[k]) \cup {p}
      BY <1>8, <1>12, <2>5 DEF chain
    <3>2. tables'[u].chains[i] = tables[u].chains[i]
      BY <1>10, <1>15, <2>1, <2>5
    <3> QED
      BY <2>2, <2>3, <3>1, <3>2
  <2>6. CASE ~(u = t /\ i = c) /\ ~(v = t /\ k = c)
    BY <1>10, <2>1, <2>2, <2>6
  <2> QED
    BY <2>4, <2>5, <2>6
<1> QED
  BY <1>13, <1>14, <1>15 DEF ChainInv, Apart

(* Codes are looked for among those of the lines that a table was made of. *)
LEMMA HeadsOfFile ==
  ASSUME IInv, ChainInv, NEW t \in Loaded
  PROVE  LET entries == Parsed(t[1], tables[t].file)
             chains == tables[t].chains
         IN /\ IsEntries(entries) /\ DOMAIN chains = 1..Len(entries)
            /\ HeadCodes(t) = CodesOf(entries)
            /\ [i \in DOMAIN chains |-> memory[chains[i][1]]] = entries
<1> DEFINE entries == Parsed(t[1], tables[t].file)
           chains == tables[t].chains
<1>1. t[1] \in Format
  BY DEF Loaded, BTable
<1>2. /\ tables[t].file \in Contents /\ entries # Refused
      /\ DOMAIN chains = DOMAIN entries
      /\ \A i \in DOMAIN chains : memory[chains[i][1]] = entries[i]
  BY DEF ChainInv, FromFile
<1>3. IsEntries(entries)
  BY <1>1, <1>2, ParsedGrows
<1> HIDE DEF entries, chains
<1>4. entries = [i \in 1..Len(entries) |-> entries[i]]
  BY <1>3 DEF IsEntries, IsSequence
<1>5. DOMAIN chains = 1..Len(entries)
  BY <1>2, <1>4
<1>6. [i \in DOMAIN chains |-> memory[chains[i][1]]] = entries
  BY <1>2, <1>4, <1>5
<1>7. HeadCodes(t) = CodesOf(entries)
  BY <1>2, <1>4, <1>5 DEF HeadCodes, CodesOf, chains
<1> QED
  BY <1>3, <1>5, <1>6, <1>7 DEF entries, chains

(* And there each is found. *)
LEMMA EachFound ==
  ASSUME IInv, ChainInv, NEW t \in Loaded, NEW i \in DOMAIN tables[t].chains
  PROVE  QueryEntry(t, HeadCodes(t)[i]) = i
<1> DEFINE entries == Parsed(t[1], tables[t].file)
<1>1. /\ IsEntries(entries) /\ i \in 1..Len(entries) /\ HeadCodes(t) = CodesOf(entries)
  BY HeadsOfFile
<1> HIDE DEF entries
<1> DEFINE codes == CodesOf(entries)
<1>2. /\ Len(codes) = Len(entries) /\ Len(entries) \in Nat
      /\ \A k \in 1..Len(codes) : codes[k] \in VarCode
  BY <1>1, CodesLen DEF IsEntries
<1>3. Growing(codes)
  BY <1>1 DEF IsEntries
<1> HIDE DEF codes
<1>4. Search(codes, codes[i]) = i
  BY <1>1, <1>2, <1>3, SearchFinds
<1> QED
  BY <1>1, <1>4 DEF QueryEntry, codes

(* Each step keeps the chains good and apart. *)
LEMMA StepChains ==
  ASSUME IInv, ChainInv, [NextLibrary]_library
  PROVE  ChainInv'
<1>1. CASE UNCHANGED library
  BY <1>1, UntouchedChains DEF library
<1>2. CASE \E t \in BTable : Load(t)
  BY <1>2, LoadChains
<1>3. CASE \E t \in DTable : LoadSequences(t)
  BY <1>3, UntouchedChains DEF LoadSequences
<1>4. ASSUME NEW format \in Format, NEW name \in Wanted, Get(format, name)
      PROVE  ChainInv'
  <2> DEFINE t == <<format, Named[name]>>
  <2>1. t \in BTable /\ HaveTable(t)
    BY <1>4, FilesAssumption DEF Get, BTable
  <2> HIDE DEF t
  <2> QED
    BY <2>1, LoadChains, UntouchedChains DEF HaveTable, library
<1>5. ASSUME NEW t \in Loaded, NEW a \in Alterations, NEW i \in DOMAIN HeadCodes(t),
             QueryAltered(t, HeadCodes(t)[i], a)
      PROVE  ChainInv'
  <2>1. i \in DOMAIN tables[t].chains
    BY DEF HeadCodes
  <2>2. QueryEntry(t, HeadCodes(t)[i]) \in DOMAIN tables[t].chains
    BY <2>1, EachFound
  <2> QED
    BY <1>5, <2>2, QueryAlteredChains
<1>6. CASE \E p, file : Replace(p, file)
  BY <1>6, UntouchedChains DEF Replace
<1> QED
  BY <1>1, <1>2, <1>3, <1>4, <1>5, <1>6 DEF NextLibrary

(* Which is what Chained says, of the chains one after another. *)
LEMMA ChainedFollows ==
  ASSUME IInv, ChainInv
  PROVE  Chained
<1>1. ASSUME NEW t \in Loaded
      PROVE  /\ \E n \in Nat : DOMAIN tables[t].chains = 1..n
             /\ tables[t].chains = [i \in DOMAIN tables[t].chains |-> tables[t].chains[i]]
             /\ \A i \in DOMAIN tables[t].chains :
                  /\ tables[t].chains[i] \in Seq(1..Len(memory))
                  /\ GoodChain(tables[t].chains[i], memory)
  <2>1. \E n \in Nat : DOMAIN tables[t].chains = 1..n
    <3>1. PICK entries : entries = Parsed(t[1], tables[t].file)
      OBVIOUS
    <3>2. IsEntries(entries) /\ DOMAIN tables[t].chains = 1..Len(entries)
      BY <3>1, HeadsOfFile
    <3> QED
      BY <3>2 DEF IsEntries, IsSequence
  <2> QED
    BY <2>1 DEF IInv, IsTable, IsChain, ChainInv
<1>2. ASSUME NEW t \in Loaded
      PROVE  /\ IsInjective(Iterate(t))
             /\ \A x \in Range(Iterate(t)) :
                  \E i \in DOMAIN tables[t].chains : x \in Range(tables[t].chains[i])
  <2>1. PICK chains, P : chains = tables[t].chains /\ P = 1..Len(memory)
    OBVIOUS
  <2>2. PICK n \in Nat : DOMAIN chains = 1..n
    BY <1>1, <2>1
  <2>3. chains = [i \in 1..n |-> chains[i]]
    BY <1>1, <2>1, <2>2
  <2>4. \A i \in 1..n : chains[i] \in Seq(P) /\ IsInjective(chains[i])
    BY <1>1, <2>1, <2>2 DEF GoodChain
  <2>5. \A i, k \in 1..n : i # k => Range(chains[i]) \cap Range(chains[k]) = {}
    BY <2>1, <2>2 DEF ChainInv, Apart
  <2>6. Separate(P, n, chains)
    BY <2>3, <2>4, <2>5 DEF Separate
  <2>7. /\ IsInjective(FlattenSeq(chains))
        /\ Range(FlattenSeq(chains)) \subseteq UNION {Range(chains[i]) : i \in 1..n}
    BY <2>6, Flattened
  <2> QED
    BY <2>1, <2>2, <2>7 DEF Iterate
<1>3. ASSUME NEW t \in Loaded, NEW u \in Loaded \ {t}
      PROVE  Range(Iterate(t)) \cap Range(Iterate(u)) = {}
  <2> SUFFICES ASSUME NEW x \in Range(Iterate(t)), x \in Range(Iterate(u)) PROVE FALSE
    OBVIOUS
  <2>1. PICK i \in DOMAIN tables[t].chains : x \in Range(tables[t].chains[i])
    BY <1>2
  <2>2. PICK k \in DOMAIN tables[u].chains : x \in Range(tables[u].chains[k])
    BY <1>2
  <2> QED
    BY <2>1, <2>2 DEF ChainInv, Apart
<1>4. ASSUME NEW t \in Loaded, NEW i \in DOMAIN tables[t].chains,
             NEW j \in DOMAIN tables[t].chains[i], NEW k \in DOMAIN tables[t].chains[i]
      PROVE  LET chain == tables[t].chains[i]
             IN /\ memory[chain[j]].info.code = HeadCodes(t)[i]
                /\ \A a \in Alterations :
                     Is(memory[chain[j]], a) /\ Is(memory[chain[k]], a) => j = k
  <2>1. GoodChain(tables[t].chains[i], memory)
    BY <1>1
  <2>2. HeadCodes(t)[i] = memory[tables[t].chains[i][1]].info.code
    BY DEF HeadCodes
  <2> QED
    BY <2>1, <2>2 DEF GoodChain
<1>5. \A t \in Loaded :
        [i \in DOMAIN tables[t].chains |-> memory[tables[t].chains[i][1]]]
          = Parsed(t[1], tables[t].file)
  BY HeadsOfFile
<1> QED
  BY <1>2, <1>3, <1>4, <1>5, EachFound DEF Chained

(* A B table is its file when it was read: each code of it is found, and query_altered
   gives each alteration one place in the chain of its entry, which no other table or
   entry has (internals/vartable.cc:111-196). *)
THEOREM TablesAreChained == SpecLibrary => []Chained
<1>1. InitLibrary => IInv /\ ChainInv
  <2> SUFFICES ASSUME InitLibrary PROVE ChainInv
    BY InitHolds
  <2>1. Loaded = {}
    BY DEF InitLibrary, Loaded
  <2> QED
    BY <2>1 DEF ChainInv, Apart
<1>2. IInv /\ ChainInv /\ [NextLibrary]_library => IInv' /\ ChainInv'
  BY StepKeeps, StepChains
<1>3. IInv /\ ChainInv => Chained
  BY ChainedFollows
<1> QED
  BY <1>1, <1>2, <1>3, PTL DEF SpecLibrary

----------------------------------------------------------------------------
(* Loading a D table. *)

(* Lines that begin a sequence are counted one by one. *)
LEMMA StartsCounted ==
  ASSUME NEW lines, NEW n \in Nat
  PROVE  /\ IsFiniteSet(StartsUpTo(lines, n)) /\ Cardinality(StartsUpTo(lines, n)) \in Nat
         /\ Cardinality(StartsUpTo(lines, n + 1)) =
              IF lines[n + 1].looks = "start" THEN Cardinality(StartsUpTo(lines, n)) + 1
              ELSE Cardinality(StartsUpTo(lines, n))
<1> DEFINE upto == StartsUpTo(lines, n)
<1>1. IsFiniteSet(upto)
  <2>1. IsFiniteSet(1..n) /\ upto \subseteq 1..n
    BY FS_Interval DEF StartsUpTo
  <2> QED
    BY <2>1, FS_Subset
<1>2. Cardinality(upto) \in Nat
  BY <1>1, FS_CardinalityType
<1>3. CASE lines[n + 1].looks = "start"
  <2>1. StartsUpTo(lines, n + 1) = upto \cup {n + 1} /\ n + 1 \notin upto
    BY <1>3 DEF StartsUpTo
  <2> HIDE DEF upto
  <2>2. Cardinality(upto \cup {n + 1}) = Cardinality(upto) + 1
    BY <1>1, <2>1, FS_AddElement
  <2> QED
    BY <1>1, <1>2, <1>3, <2>1, <2>2 DEF upto
<1>4. CASE lines[n + 1].looks # "start"
  <2>1. StartsUpTo(lines, n + 1) = upto
    <3>1. ASSUME NEW i \in 1..(n + 1), lines[i].looks = "start"
          PROVE  i \in 1..n
      BY <1>4, <3>1
    <3> QED
      BY <3>1 DEF StartsUpTo
  <2> QED
    BY <1>1, <1>2, <1>4, <2>1
<1> QED
  BY <1>3, <1>4

(* None is counted among lines that continue one. *)
LEMMA NoneCounted ==
  ASSUME NEW lines, NEW n \in Nat, NEW m \in Nat, n <= m,
         \A k \in (n + 1)..m : lines[k].looks = "more"
  PROVE  Cardinality(StartsUpTo(lines, m)) = Cardinality(StartsUpTo(lines, n))
<1>1. StartsUpTo(lines, m) = StartsUpTo(lines, n)
  <2>1. ASSUME NEW i \in 1..m, lines[i].looks = "start"
        PROVE  i \in 1..n
    <3>1. i \notin (n + 1)..m
      BY <2>1
    <3> QED
      BY <3>1
  <2>2. 1..n \subseteq 1..m
    OBVIOUS
  <2> QED
    BY <2>1, <2>2 DEF StartsUpTo
<1> QED
  BY <1>1

(* Nor are there fewer up to a later line. *)
LEMMA StartsGrow ==
  ASSUME NEW lines, NEW n \in Nat, NEW i \in StartsUpTo(lines, n)
  PROVE  Cardinality(StartsUpTo(lines, i)) \in 1..Cardinality(StartsUpTo(lines, n))
<1>1. i \in 1..n /\ i \in Nat /\ i - 1 \in Nat /\ (i - 1) + 1 = i
      /\ lines[i].looks = "start"
  BY DEF StartsUpTo
<1>2. /\ Cardinality(StartsUpTo(lines, i)) \in Nat
      /\ Cardinality(StartsUpTo(lines, i)) >= 1
  <2>1. /\ Cardinality(StartsUpTo(lines, i - 1)) \in Nat
        /\ Cardinality(StartsUpTo(lines, (i - 1) + 1)) =
             Cardinality(StartsUpTo(lines, i - 1)) + 1
    BY <1>1, StartsCounted
  <2> QED
    BY <1>1, <2>1
<1>3. Cardinality(StartsUpTo(lines, i)) <= Cardinality(StartsUpTo(lines, n))
  <2>1. StartsUpTo(lines, i) \subseteq StartsUpTo(lines, n)
    BY <1>1 DEF StartsUpTo
  <2>2. IsFiniteSet(StartsUpTo(lines, n))
    BY StartsCounted
  <2> QED
    BY <2>1, <2>2, FS_Subset
<1>4. Cardinality(StartsUpTo(lines, n)) \in Nat
  BY StartsCounted
<1> QED
  BY <1>2, <1>3, <1>4

(* The lines of the sequence that begins at line i, in the first n of them. *)
Spans(lines, i, end, n) ==
  /\ end \in i..n
  /\ \A k \in (i + 1)..end : lines[k].looks = "more"
  /\ end = n \/ lines[end + 1].looks = "start"

(* An entry for each sequence that begins in the first n lines. *)
AllFiled(lines, entries, n) ==
  /\ IsSequence(entries) /\ Len(entries) = Cardinality(StartsUpTo(lines, n))
  /\ \A k \in 1..Len(entries) : entries[k].code \in VarCode
  /\ \A i \in StartsUpTo(lines, n) :
       LET e == entries[Cardinality(StartsUpTo(lines, i))]
       IN e.code = lines[i].code /\ e.begin = i - 1 /\ Spans(lines, i, e.end, n)

(* What the loop over the lines of a D file keeps: an item for each line, and an
   entry for each sequence but the last. *)
ReadUpTo(lines, t, n) ==
  /\ IsSequence(t.varcodes) /\ Len(t.varcodes) = n
  /\ \A k \in 1..n : t.varcodes[k] = lines[k].item /\ lines[k].looks \in {"start", "more"}
  /\ n = 0 => t.entries = <<>>
  /\ n # 0 => /\ t.begin \in 0..(n - 1)
              /\ lines[t.begin + 1].looks = "start"
              /\ t.code = lines[t.begin + 1].code /\ t.code \in VarCode
              /\ \A k \in (t.begin + 2)..n : lines[k].looks = "more"
              /\ AllFiled(lines, t.entries, t.begin)

(* Filing the last one too leaves none out. *)
LEMMA FiledAll ==
  ASSUME NEW lines, NEW t, NEW n \in Nat, ReadUpTo(lines, t, n)
  PROVE  AllFiled(lines, Filed(t), n)
<1>1. CASE n = 0
  <2>1. t.varcodes = <<>> /\ t.entries = <<>>
    BY <1>1 DEF ReadUpTo, IsSequence
  <2>2. StartsUpTo(lines, 0) = {}
    BY DEF StartsUpTo
  <2>3. IsSequence(<<>>) /\ Len(<<>>) = 0
    BY DEF IsSequence
  <2> QED
    BY <1>1, <2>1, <2>2, <2>3, FS_EmptySet DEF AllFiled, Filed
<1>2. CASE n # 0
  <2> DEFINE e == [code |-> t.code, begin |-> t.begin, end |-> Len(t.varcodes)]
             next == Append(t.entries, e)
             b == t.begin
             c == Cardinality(StartsUpTo(lines, b))
  <2>1. Filed(t) = next
    <3>1. t.varcodes # <<>>
      BY <1>2 DEF ReadUpTo
    <3> QED
      BY <3>1 DEF Filed
  <2>2. /\ b \in 0..(n - 1) /\ lines[b + 1].looks = "start"
        /\ t.code = lines[b + 1].code /\ t.code \in VarCode
        /\ \A k \in (b + 2)..n : lines[k].looks = "more"
        /\ AllFiled(lines, t.entries, b) /\ Len(t.varcodes) = n
    BY <1>2 DEF ReadUpTo
  <2>3. e.code = t.code /\ e.begin = b /\ e.end = n
    BY <2>2
  <2> HIDE DEF e, b
  <2>4. c \in Nat /\ Cardinality(StartsUpTo(lines, b + 1)) = c + 1
    BY <2>2, StartsCounted
  <2>5. Cardinality(StartsUpTo(lines, n)) = c + 1
    <3>1. b + 1 \in Nat /\ b + 1 <= n /\ (b + 1) + 1 = b + 2
      BY <2>2
    <3> QED
      BY <2>2, <2>4, <3>1, NoneCounted
  <2> HIDE DEF c
  <2>6. IsSequence(t.entries) /\ Len(t.entries) = c
    BY <2>2 DEF AllFiled, c
  <2>7. /\ IsSequence(next) /\ Len(next) = c + 1 /\ next[c + 1] = e
        /\ \A k \in 1..c : next[k] = t.entries[k]
    BY <2>6, AppendGrows
  <2> HIDE DEF next
  <2>8. \A k \in 1..(c + 1) : next[k].code \in VarCode
    BY <2>2, <2>3, <2>4, <2>6, <2>7 DEF AllFiled
  <2>9. ASSUME NEW i \in StartsUpTo(lines, n)
        PROVE  LET f == next[Cardinality(StartsUpTo(lines, i))]
               IN /\ f.code = lines[i].code /\ f.begin = i - 1
                  /\ Spans(lines, i, f.end, n)
    <3>1. i \in 1..n /\ lines[i].looks = "start"
      BY DEF StartsUpTo
    <3>2. CASE i = b + 1
      <4>1. Spans(lines, i, n, n)
        BY <1>2, <2>2, <3>2 DEF Spans
      <4>2. i - 1 = b
        BY <2>2, <3>2
      <4> QED
        BY <2>2, <2>3, <2>4, <2>7, <3>2, <4>1, <4>2
    <3>3. CASE i # b + 1
      <4>1. i \in StartsUpTo(lines, b)
        <5>1. i \notin (b + 2)..n
          BY <2>2, <3>1
        <5> QED
          BY <2>2, <3>1, <3>3, <5>1 DEF StartsUpTo
      <4>2. Cardinality(StartsUpTo(lines, i)) \in 1..c
        BY <2>2, <4>1, StartsGrow DEF c
      <4> DEFINE f == t.entries[Cardinality(StartsUpTo(lines, i))]
      <4>3. next[Cardinality(StartsUpTo(lines, i))] = f
        BY <2>7, <4>2
      <4>4. f.code = lines[i].code /\ f.begin = i - 1 /\ Spans(lines, i, f.end, b)
        BY <2>2, <4>1 DEF AllFiled
      <4> HIDE DEF f
      <4>5. Spans(lines, i, f.end, n)
        BY <2>2, <4>4 DEF Spans
      <4> QED
        BY <4>3, <4>4, <4>5
    <3> QED
      BY <3>2, <3>3
  <2> QED
    BY <2>1, <2>5, <2>7, <2>8, <2>9 DEF AllFiled
<1> QED
  BY <1>1, <1>2

----------------------------------------------------------------------------
(* A table being read is a record. *)
IsTableD(t) ==
  t = [code |-> t.code, begin |-> t.begin, advertised |-> t.advertised,
       varcodes |-> t.varcodes, entries |-> t.entries]

(* A line that begins a sequence. *)
LEMMA StartReads ==
  ASSUME NEW lines, NEW t, NEW n \in Nat, ReadUpTo(lines, t, n),
         lines[n + 1].looks = "start", lines[n + 1].code \in VarCode \cup {NoCode},
         Start(t, lines[n + 1]) # Refused
  PROVE  ReadUpTo(lines, Start(t, lines[n + 1]), n + 1)
<1> DEFINE line == lines[n + 1]
           u == Start(t, line)
           codes == Append(t.varcodes, line.item)
<1>1. line.code # NoCode
  BY DEF Start
<1>2. u = [code |-> line.code, begin |-> Len(t.varcodes), advertised |-> line.count,
           varcodes |-> codes, entries |-> Filed(t)]
  BY DEF Start
<1>3. /\ u.code = line.code /\ u.begin = n /\ u.varcodes = codes /\ u.entries = Filed(t)
  BY <1>2 DEF ReadUpTo
<1> HIDE DEF u, codes
<1>4. /\ IsSequence(codes) /\ Len(codes) = n + 1 /\ codes[n + 1] = line.item
      /\ \A k \in 1..n : codes[k] = t.varcodes[k]
  BY AppendGrows DEF ReadUpTo, codes
<1>5. \A k \in 1..(n + 1) : codes[k] = lines[k].item /\ lines[k].looks \in {"start", "more"}
  <2> SUFFICES ASSUME NEW k \in 1..(n + 1)
               PROVE  codes[k] = lines[k].item /\ lines[k].looks \in {"start", "more"}
    OBVIOUS
  <2>1. CASE k = n + 1
    BY <1>4, <2>1
  <2>2. CASE k # n + 1
    <3>1. k \in 1..n
      BY <2>2
    <3> QED
      BY <1>4, <3>1 DEF ReadUpTo
  <2> QED
    BY <2>1, <2>2
<1>6. AllFiled(lines, Filed(t), n)
  BY FiledAll
<1>7. \A k \in (n + 2)..(n + 1) : lines[k].looks = "more"
  OBVIOUS
<1>8. u.begin + 1 = n + 1 /\ u.begin \in 0..((n + 1) - 1) /\ u.begin + 2 = n + 2
  BY <1>3
<1>9. ReadUpTo(lines, u, n + 1)
  BY <1>1, <1>3, <1>4, <1>5, <1>6, <1>7, <1>8 DEF ReadUpTo
<1> QED
  BY <1>9 DEF u

(* A line that continues one. *)
LEMMA ContinueReads ==
  ASSUME NEW lines, NEW t, NEW n \in Nat, ReadUpTo(lines, t, n), IsTableD(t),
         lines[n + 1].looks = "more", Continue(t, lines[n + 1]) # Refused
  PROVE  ReadUpTo(lines, Continue(t, lines[n + 1]), n + 1)
<1> DEFINE line == lines[n + 1]
           u == Continue(t, line)
           codes == Append(t.varcodes, line.item)
<1>1. t.varcodes # <<>> /\ u = [t EXCEPT !.varcodes = codes]
  BY DEF Continue
<1>2. /\ u.code = t.code /\ u.begin = t.begin /\ u.varcodes = codes
      /\ u.entries = t.entries
  BY <1>1 DEF IsTableD
<1> HIDE DEF u, codes
<1>3. n # 0
  <2> SUFFICES ASSUME n = 0 PROVE FALSE
    OBVIOUS
  <2>1. t.varcodes = <<>>
    BY DEF ReadUpTo, IsSequence
  <2> QED
    BY <1>1, <2>1
<1>4. /\ IsSequence(codes) /\ Len(codes) = n + 1 /\ codes[n + 1] = line.item
      /\ \A k \in 1..n : codes[k] = t.varcodes[k]
  BY AppendGrows DEF ReadUpTo, codes
<1>5. \A k \in 1..(n + 1) : codes[k] = lines[k].item /\ lines[k].looks \in {"start", "more"}
  <2> SUFFICES ASSUME NEW k \in 1..(n + 1)
               PROVE  codes[k] = lines[k].item /\ lines[k].looks \in {"start", "more"}
    OBVIOUS
  <2>1. CASE k = n + 1
    BY <1>4, <2>1
  <2>2. CASE k # n + 1
    <3>1. k \in 1..n
      BY <2>2
    <3> QED
      BY <1>4, <3>1 DEF ReadUpTo
  <2> QED
    BY <2>1, <2>2
<1>6. /\ t.begin \in 0..(n - 1) /\ lines[t.begin + 1].looks = "start"
      /\ t.code = lines[t.begin + 1].code /\ t.code \in VarCode
      /\ \A k \in (t.begin + 2)..n : lines[k].looks = "more"
      /\ AllFiled(lines, t.entries, t.begin)
  BY <1>3 DEF ReadUpTo
<1>7. \A k \in (t.begin + 2)..(n + 1) : lines[k].looks = "more"
  <2> SUFFICES ASSUME NEW k \in (t.begin + 2)..(n + 1) PROVE lines[k].looks = "more"
    OBVIOUS
  <2>1. CASE k = n + 1
    BY <2>1
  <2>2. CASE k # n + 1
    <3>1. k \in (t.begin + 2)..n
      BY <1>6, <2>2
    <3> QED
      BY <1>6, <3>1
  <2> QED
    BY <2>1, <2>2
<1>8. n + 1 # 0 /\ t.begin \in 0..((n + 1) - 1)
  BY <1>6
<1>9. ReadUpTo(lines, u, n + 1)
  BY <1>2, <1>4, <1>5, <1>6, <1>7, <1>8 DEF ReadUpTo
<1> QED
  BY <1>9 DEF u

----------------------------------------------------------------------------
(* Both give a record. *)
LEMMA NextIsTableD ==
  ASSUME NEW t, NEW line, IsTableD(t), NextLine(t, line) # Refused
  PROVE  IsTableD(NextLine(t, line))
<1>1. CASE NextLine(t, line) = Start(t, line)
  <2>1. PICK begin, codes, entries :
          Start(t, line) = [code |-> line.code, begin |-> begin,
                            advertised |-> line.count, varcodes |-> codes,
                            entries |-> entries]
    BY <1>1, Zenon DEF Start
  <2> QED
    BY <1>1, <2>1 DEF IsTableD
<1>2. CASE NextLine(t, line) = Continue(t, line)
  <2>1. PICK codes : Continue(t, line) = [t EXCEPT !.varcodes = codes]
    BY <1>2 DEF Continue
  <2> QED
    BY <1>2, <2>1 DEF IsTableD
<1> QED
  BY <1>1, <1>2 DEF NextLine

IsReadD(lines, read, m) ==
  read = [n \in 0..m |-> IF n = 0 THEN Nothing ELSE NextLine(read[n - 1], lines[n])]

(* A D file can be read up to any line. *)
LEMMA ReadDExists ==
  ASSUME NEW lines
  PROVE  \A m \in Nat : \E read : IsReadD(lines, read, m)
<1> DEFINE S == {m \in Nat : \E read : IsReadD(lines, read, m)}
<1>1. 0 \in S
  <2> DEFINE f == [n \in 0..0 |-> Nothing]
  <2>1. IsReadD(lines, f, 0)
    BY DEF IsReadD
  <2> QED
    BY <2>1
<1>2. ASSUME NEW m \in Nat, m \in S
      PROVE  m + 1 \in S
  <2>1. PICK f : IsReadD(lines, f, m)
    BY <1>2
  <2> DEFINE g == [n \in 0..(m + 1) |->
                     IF n = m + 1 THEN NextLine(f[m], lines[m + 1]) ELSE f[n]]
  <2>2. ASSUME NEW n \in 0..(m + 1)
        PROVE  g[n] = IF n = 0 THEN Nothing ELSE NextLine(g[n - 1], lines[n])
    <3>1. CASE n = m + 1
      <4>1. n - 1 = m /\ n # 0 /\ n - 1 \in 0..(m + 1) /\ g[n - 1] = f[m]
        BY <3>1
      <4> QED
        BY <3>1, <4>1
    <3>2. CASE n # m + 1
      <4>1. n \in 0..m /\ (n # 0 => n - 1 \in 0..m)
        BY <3>2
      <4>2. g[n] = f[n] /\ (n # 0 => g[n - 1] = f[n - 1])
        BY <4>1
      <4>3. f[n] = IF n = 0 THEN Nothing ELSE NextLine(f[n - 1], lines[n])
        BY <2>1, <4>1 DEF IsReadD
      <4> QED
        BY <4>1, <4>2, <4>3
    <3> QED
      BY <3>1, <3>2
  <2>3. IsReadD(lines, g, m + 1)
    BY <2>2 DEF IsReadD
  <2> QED
    BY <2>3
<1> HIDE DEF S
<1>3. Nat \subseteq S
  BY <1>1, <1>2, NatSetInduction
<1> QED
  BY <1>3 DEF S

(* A D file as it may be: lines, of which those that begin a sequence have a code. *)
IsDFile(lines) ==
  /\ IsSequence(lines)
  /\ \A i \in Starts(lines) : lines[i].code \in VarCode \cup {NoCode}

(* Each line that is not refused keeps what is read so far. *)
LEMMA LineReads ==
  ASSUME NEW lines, IsDFile(lines), NEW n \in Nat, n + 1 <= Len(lines),
         NEW t, t # Refused, IsTableD(t), ReadUpTo(lines, t, n),
         NextLine(t, lines[n + 1]) # Refused
  PROVE  /\ IsTableD(NextLine(t, lines[n + 1]))
         /\ ReadUpTo(lines, NextLine(t, lines[n + 1]), n + 1)
<1>1. IsTableD(NextLine(t, lines[n + 1]))
  BY NextIsTableD
<1>2. CASE lines[n + 1].looks = "start"
  <2>1. NextLine(t, lines[n + 1]) = Start(t, lines[n + 1])
    BY <1>2 DEF NextLine
  <2>2. n + 1 \in Starts(lines)
    BY <1>2 DEF Starts, StartsUpTo, IsDFile, IsSequence
  <2>3. lines[n + 1].code \in VarCode \cup {NoCode}
    BY <2>2 DEF IsDFile
  <2> QED
    BY <1>1, <1>2, <2>1, <2>3, StartReads
<1>3. CASE lines[n + 1].looks = "more"
  <2>1. NextLine(t, lines[n + 1]) = Continue(t, lines[n + 1])
    BY <1>3 DEF NextLine
  <2> QED
    BY <1>1, <1>3, <2>1, ContinueReads
<1>4. lines[n + 1].looks \in {"start", "more"}
  BY DEF NextLine
<1> QED
  BY <1>2, <1>3, <1>4

(* So do all the lines. *)
LEMMA AllLinesRead ==
  ASSUME NEW lines, IsDFile(lines), NEW read, IsReadD(lines, read, Len(lines)),
         read[Len(lines)] # Refused
  PROVE  ReadUpTo(lines, read[Len(lines)], Len(lines))
<1> DEFINE S == {n \in Nat : n <= Len(lines) /\ read[n] # Refused =>
                               IsTableD(read[n]) /\ ReadUpTo(lines, read[n], n)}
<1>1. Len(lines) \in Nat
  BY DEF IsDFile, IsSequence
<1>2. 0 \in S
  <2>1. read[0] = Nothing
    BY <1>1 DEF IsReadD
  <2>2. IsTableD(Nothing)
    BY DEF IsTableD, Nothing
  <2>3. ReadUpTo(lines, Nothing, 0)
    BY DEF ReadUpTo, Nothing, IsSequence
  <2> QED
    BY <2>1, <2>2, <2>3
<1>3. ASSUME NEW n \in Nat, n \in S
      PROVE  n + 1 \in S
  <2> SUFFICES ASSUME n + 1 <= Len(lines), read[n + 1] # Refused
               PROVE  IsTableD(read[n + 1]) /\ ReadUpTo(lines, read[n + 1], n + 1)
    OBVIOUS
  <2>1. n + 1 \in 0..Len(lines) /\ n + 1 # 0 /\ (n + 1) - 1 = n
    BY <1>1
  <2>2. read[n + 1] = NextLine(read[n], lines[n + 1])
    BY <2>1 DEF IsReadD
  <2>3. read[n] # Refused
    BY <2>2 DEF NextLine
  <2>4. IsTableD(read[n]) /\ ReadUpTo(lines, read[n], n)
    BY <1>1, <1>3, <2>3
  <2>5. PICK t : t = read[n]
    OBVIOUS
  <2> QED
    BY <2>2, <2>3, <2>4, <2>5, LineReads
<1> HIDE DEF S
<1>4. Len(lines) \in S
  BY <1>1, <1>2, <1>3, NatSetInduction
<1> QED
  BY <1>1, <1>4 DEF S

(* The items of a sequence are those between its line and the next that begins one. *)
LEMMA ItemsAre ==
  ASSUME NEW lines, IsSequence(lines), NEW i \in 1..Len(lines), NEW end,
         Spans(lines, i, end, Len(lines)), NEW codes, IsSequence(codes),
         Len(codes) = Len(lines), \A k \in 1..Len(lines) : codes[k] = lines[k].item
  PROVE  SubSeq(codes, (i - 1) + 1, end) = ItemsFrom(lines, i)
<1> DEFINE IsLast(j) == /\ \A k \in (i + 1)..j : lines[k].looks = "more"
                        /\ j = Len(lines) \/ lines[j + 1].looks # "more"
           last == CHOOSE j \in i..Len(lines) : IsLast(j)
           m == end - i + 1
           items == {codes[k] : k \in 1..Len(codes)}
<1>1. Len(lines) \in Nat /\ end \in i..Len(lines) /\ i \in 1..Len(lines)
  BY DEF IsSequence, Spans
<1>2. IsLast(end)
  BY DEF Spans
<1>3. ASSUME NEW j \in i..Len(lines), IsLast(j)
      PROVE  j = end
  <2>1. ~(j < end)
    <3> SUFFICES ASSUME j < end PROVE FALSE
      OBVIOUS
    <3>1. j + 1 \in (i + 1)..end /\ j # Len(lines)
      BY <1>1
    <3> QED
      BY <1>2, <1>3, <3>1
  <2>2. ~(end < j)
    <3> SUFFICES ASSUME end < j PROVE FALSE
      OBVIOUS
    <3>1. end + 1 \in (i + 1)..j /\ end # Len(lines)
      BY <1>1
    <3> QED
      BY <1>2, <1>3, <3>1
  <2> QED
    BY <1>1, <2>1, <2>2
<1>4. last = end
  BY <1>1, <1>2, <1>3
<1>5. ItemsFrom(lines, i) = [k \in 1..(last - i + 1) |-> lines[i + k - 1].item]
  BY DEF ItemsFrom
<1> HIDE DEF last, IsLast
<1>6. (i - 1) + 1 = i /\ m \in Nat /\ m = end - i + 1 /\ i <= end
      /\ i \in Int /\ end \in Int
  BY <1>1
<1> DEFINE s == SubSeq(codes, i, end)
<1>7. s \in Seq(items) /\ Len(s) = m /\ \A k \in 1..m : s[k] = codes[i + k - 1]
  <2>1. \A k \in i..end : codes[k] \in items
    BY <1>1
  <2> HIDE DEF items
  <2> QED
    BY <1>6, <2>1, SubSeqProperties
<1> HIDE DEF s, m, items
<1>8. IsSequence(s)
  BY <1>7, SeqIsSequence
<1>9. s = [k \in 1..m |-> s[k]]
  BY <1>7, <1>8 DEF IsSequence
<1>10. \A k \in 1..m : s[k] = lines[i + k - 1].item
  <2> SUFFICES ASSUME NEW k \in 1..m PROVE s[k] = lines[i + k - 1].item
    OBVIOUS
  <2>1. i + k - 1 \in 1..Len(lines)
    BY <1>1, <1>6
  <2> QED
    BY <1>7, <2>1
<1>11. s = [k \in 1..m |-> lines[i + k - 1].item]
  BY <1>9, <1>10
<1> QED
  BY <1>4, <1>5, <1>6, <1>11 DEF s

----------------------------------------------------------------------------
(* A D table that could be read has the sequences of its file, and finds each when
   their codes grow (dtable.cc:59-180). *)
THEOREM ReadIsThere ==
  ASSUME NEW lines, IsDFile(lines), LoadD(lines) # Refused
  PROVE  HasWhatIsThere(LoadD(lines), lines)
<1> DEFINE m == Len(lines)
           Reads(f) == f = [n \in 0..Len(lines) |->
                              IF n = 0 THEN Nothing ELSE NextLine(f[n - 1], lines[n])]
           read == CHOOSE f : Reads(f)
           t == read[m]
           table == [varcodes |-> t.varcodes, entries |-> Filed(t)]
<1>1. m \in Nat
  BY DEF IsDFile, IsSequence
<1>2. LoadD(lines) = IF t = Refused THEN Refused
                     ELSE IF t.varcodes = <<>> \/ Found(t) # t.advertised THEN Refused
                     ELSE table
  BY DEF LoadD
<1>3. IsReadD(lines, read, m)
  <2>1. \A f : Reads(f) <=> IsReadD(lines, f, m)
    BY DEF IsReadD
  <2>2. \E f : IsReadD(lines, f, m)
    BY <1>1, ReadDExists
  <2> HIDE DEF Reads
  <2> QED
    BY <2>1, <2>2
<1> HIDE DEF read
<1>4. t # Refused /\ LoadD(lines) = table
  BY <1>2
<1>5. ReadUpTo(lines, t, m)
  BY <1>3, <1>4, AllLinesRead
<1> HIDE DEF t
<1> DEFINE entries == Filed(t)
<1>6. AllFiled(lines, entries, m)
  BY <1>1, <1>5, FiledAll
<1>7. /\ IsSequence(t.varcodes) /\ Len(t.varcodes) = m
      /\ \A k \in 1..m : t.varcodes[k] = lines[k].item
  BY <1>5 DEF ReadUpTo
<1>8. table.varcodes = t.varcodes /\ table.entries = entries
  OBVIOUS
<1> HIDE DEF entries, table
<1>9. /\ IsSequence(entries) /\ Len(entries) = Cardinality(Starts(lines))
      /\ \A k \in 1..Len(entries) : entries[k].code \in VarCode
  BY <1>6 DEF AllFiled, Starts
<1> DEFINE codes == DCodes(table)
<1>10. /\ Len(codes) = Len(entries) /\ Len(entries) \in Nat
       /\ \A k \in 1..Len(entries) : codes[k] = entries[k].code
  <2>1. DOMAIN entries = 1..Len(entries) /\ Len(entries) \in Nat
    BY <1>9 DEF IsSequence
  <2>2. codes = [k \in 1..Len(entries) |-> entries[k].code]
    BY <1>8, <2>1 DEF DCodes
  <2> HIDE DEF codes
  <2> QED
    BY <2>1, <2>2
<1>11. ASSUME NEW i \in Starts(lines)
       PROVE  LET c == Cardinality(StartsUpTo(lines, i))
              IN /\ entries[c].code = lines[i].code
                 /\ Growing(codes) => Expand(table, lines[i].code) = ItemsFrom(lines, i)
  <2> DEFINE c == Cardinality(StartsUpTo(lines, i))
             e == entries[c]
  <2>1. i \in StartsUpTo(lines, m) /\ i \in 1..m
    BY DEF Starts, StartsUpTo
  <2>2. c \in 1..Len(entries)
    BY <1>1, <1>9, <2>1, StartsGrow DEF Starts
  <2>3. e.code = lines[i].code /\ e.begin = i - 1 /\ Spans(lines, i, e.end, m)
    BY <1>6, <2>1 DEF AllFiled
  <2>4. ASSUME Growing(codes)
        PROVE  Expand(table, lines[i].code) = ItemsFrom(lines, i)
    <3>1. Search(codes, codes[c]) = c
      <4>1. /\ Len(codes) \in Nat /\ c \in 1..Len(codes)
            /\ \A k \in 1..Len(codes) : codes[k] \in VarCode
        BY <1>9, <1>10, <2>2
      <4> HIDE DEF codes, c
      <4> QED
        BY <2>4, <4>1, SearchFinds
    <3>2. codes[c] = lines[i].code
      BY <1>10, <2>2, <2>3
    <3>3. Search(DCodes(table), lines[i].code) = c
      BY <3>1, <3>2
    <3>4. c # 0
      BY <2>2
    <3> HIDE DEF c
    <3>5. Expand(table, lines[i].code) =
            SubSeq(t.varcodes, entries[c].begin + 1, entries[c].end)
      BY <1>8, <3>3, <3>4 DEF Expand
    <3>6. SubSeq(t.varcodes, (i - 1) + 1, e.end) = ItemsFrom(lines, i)
      <4>1. PICK varcodes, end : varcodes = t.varcodes /\ end = e.end
        OBVIOUS
      <4>2. Spans(lines, i, end, Len(lines))
        BY <2>3, <4>1
      <4>3. /\ IsSequence(lines) /\ IsSequence(varcodes) /\ Len(varcodes) = Len(lines)
            /\ \A k \in 1..Len(lines) : varcodes[k] = lines[k].item
        BY <1>7, <4>1 DEF IsDFile
      <4> QED
        BY <2>1, <4>1, <4>2, <4>3, ItemsAre
    <3> QED
      BY <2>3, <3>5, <3>6
  <2> QED
    BY <2>3, <2>4
<1> QED
  BY <1>4, <1>8, <1>9, <1>11 DEF HasWhatIsThere

(* The D tables that were loaded are what their files say. *)
DInv ==
  /\ disk = [p \in Path \cup DPath |-> disk[p]]
  /\ \A p \in DPath : disk[p] \in DContents
  /\ dtables = [t \in DTable |-> dtables[t]]
  /\ Expands

(* DTable keeps the sequences of its file as they were when it was read, and query
   finds each in a table whose codes grow (dtable.cc:158-213). *)
THEOREM SequencesAreKept == SpecLibrary => []Expands
<1>1. InitLibrary => DInv
  BY DEF InitLibrary, DInv, Expands
<1>2. DInv /\ [NextLibrary]_library => DInv'
  <2> SUFFICES ASSUME DInv, [NextLibrary]_library PROVE DInv'
    OBVIOUS
  <2>1. ASSUME UNCHANGED <<disk, dtables>>
        PROVE  DInv'
    BY <2>1 DEF DInv, Expands
  <2>2. ASSUME NEW t \in DTable, LoadSequences(t)
        PROVE  DInv'
    <3> DEFINE file == disk[t[2]]
               new == [file |-> file, read |-> LoadD(file)]
    <3>1. /\ file # NoFile /\ LoadD(file) # Refused
          /\ dtables' = [dtables EXCEPT ![t] = new] /\ UNCHANGED disk
      BY <2>2 DEF LoadSequences
    <3>2. file \in DContents \ {NoFile}
      BY <3>1 DEF DInv, DTable
    <3>3. IsDFile(file)
      BY <3>2, FilesAssumption DEF IsDFile, VarCode
    <3>4. HasWhatIsThere(new.read, new.file)
      BY <3>1, <3>3, ReadIsThere
    <3> HIDE DEF new
    <3>5. dtables' = [u \in DTable |-> IF u = t THEN new ELSE dtables[u]]
      BY <3>1 DEF DInv
    <3>6. Expands'
      BY <3>4, <3>5 DEF DInv, Expands
    <3>7. dtables' = [u \in DTable |-> dtables'[u]]
      BY <3>5
    <3> QED
      BY <3>1, <3>6, <3>7 DEF DInv
  <2>3. ASSUME NEW p, NEW file, Replace(p, file), p \in DPath => file \in DContents
        PROVE  DInv'
    <3>1. disk' = [disk EXCEPT ![p] = file] /\ UNCHANGED dtables
      BY <2>3 DEF Replace
    <3> QED
      BY <2>3, <3>1 DEF DInv, Expands
  <2>4. CASE \E t \in BTable : Load(t)
    BY <2>1, <2>4 DEF Load
  <2>5. CASE \E format \in Format, name \in Wanted : Get(format, name)
    BY <2>1, <2>5 DEF Get, HaveTable, Load, library
  <2>6. CASE \E t \in Loaded : \E code, a : QueryAltered(t, code, a)
    BY <2>1, <2>6 DEF QueryAltered
  <2>7. CASE \E p \in Path, file \in Contents : Replace(p, file)
    BY <2>3, <2>7, FilesAssumption
  <2> QED
    BY <2>1, <2>2, <2>3, <2>4, <2>5, <2>6, <2>7 DEF NextLibrary, library
<1>3. DInv => Expands
  BY DEF DInv
<1> QED
  BY <1>1, <1>2, <1>3, PTL DEF SpecLibrary

----------------------------------------------------------------------------
(* Objects of the Python module. *)

IsWorld(w) ==
  w = [objs |-> w.objs, names |-> w.names, leaked |-> w.leaked, crashed |-> w.crashed]

Kind == {"Vartable", "Varinfo", "Var", "list"}
IsObject(o) == o = [type |-> o.type, rc |-> o.rc, holds |-> o.holds] /\ o.type \in Kind

(* A variable is not constructed, or has finitely many attributes. *)
VarHeld(v) ==
  v = NullPointer \/ (v = Variable(v.info, v.val, v.attrs) /\ IsFiniteSet(DOMAIN v.attrs))

IsList(w, l) == l \in DOMAIN w.objs /\ w.objs[l].type = "list"

ListHeld(w, list) ==
  /\ IsSequence(list)
  /\ \A i \in 1..Len(list) :
       list[i] \in Slot /\ (list[i] \in DOMAIN w.objs => w.objs[list[i]].type = "Var")

ObjectsTyped(w) ==
  /\ DOMAIN w.objs \subseteq Slot /\ w.leaked \subseteq DOMAIN w.objs
  /\ w.names \in [PyName -> Slot \cup {Other}]
  /\ \A s \in DOMAIN w.objs :
       /\ IsObject(w.objs[s]) /\ w.objs[s].rc \in Nat
       /\ w.objs[s].type = "Var" => VarHeld(w.objs[s].holds)
       /\ w.objs[s].type = "list" => ListHeld(w, w.objs[s].holds)

(* Who refers to an object: names, lists, and what is on its way to a name or a list. *)
NamesOf(w, s) == {n \in PyName : w.names[n] = s}
PlacesOf(w, s) ==
  {p \in Slot \X Nat : /\ IsList(w, p[1]) /\ p[2] \in 1..Len(w.objs[p[1]].holds)
                       /\ w.objs[p[1]].holds[p[2]] = s}
At(w) == [s \in Slot |-> PlacesOf(w, s)]
Total(w, e, q, s) == Cardinality(NamesOf(w, s)) + Cardinality(q[s]) + e[s]

Counted(w, e, q) ==
  \A s \in Slot :
    /\ IsFiniteSet(q[s]) /\ PlacesOf(w, s) \subseteq q[s]
    /\ s \in DOMAIN w.objs \ w.leaked =>
         w.objs[s].rc = Total(w, e, q, s) /\ Total(w, e, q, s) # 0
    /\ s \notin DOMAIN w.objs \ w.leaked => Total(w, e, q, s) = 0

(* The objects count their names, the places q and the references e on their way. *)
Bal(w, e, q) == IsWorld(w) /\ (w.crashed \/ (ObjectsTyped(w) /\ Counted(w, e, q)))
Good(w, e) == Bal(w, e, At(w))

Pending == [Slot -> Nat]
Plus(e, s) == [e EXCEPT ![s] = @ + 1]
Zero == [s \in Slot |-> 0]

(* References on their way are so many. *)
LEMMA PlusPending ==
  ASSUME NEW e \in Pending, NEW s \in Slot
  PROVE  /\ Plus(e, s) \in Pending /\ Plus(e, s)[s] = e[s] + 1
         /\ \A r \in Slot : r # s => Plus(e, s)[r] = e[r]
BY DEF Pending, Plus

(* The names of an object are finitely many. *)
LEMMA NamesFinite ==
  ASSUME NEW w, NEW s
  PROVE  IsFiniteSet(NamesOf(w, s)) /\ Cardinality(NamesOf(w, s)) \in Nat
<1>1. NamesOf(w, s) \subseteq PyName /\ IsFiniteSet(PyName)
  BY ObjectsAssumption DEF NamesOf
<1> QED
  BY <1>1, FS_Subset, FS_CardinalityType

(* Totals are numbers. *)
LEMMA TotalNat ==
  ASSUME NEW w, NEW e \in Pending, NEW q, NEW s \in Slot, IsFiniteSet(q[s])
  PROVE  /\ Cardinality(NamesOf(w, s)) \in Nat /\ Cardinality(q[s]) \in Nat
         /\ e[s] \in Nat /\ Total(w, e, q, s) \in Nat
BY NamesFinite, FS_CardinalityType DEF Pending, Total

(* One more on its way is one more in all, of that object only. *)
LEMMA TotalPlus ==
  ASSUME NEW w, NEW e \in Pending, NEW q, NEW s \in Slot, NEW r \in Slot,
         IsFiniteSet(q[r])
  PROVE  Total(w, Plus(e, s), q, r) = IF r = s THEN Total(w, e, q, r) + 1
                                      ELSE Total(w, e, q, r)
<1>1. Plus(e, s)[r] = IF r = s THEN e[r] + 1 ELSE e[r]
  BY PlusPending
<1>2. Cardinality(NamesOf(w, r)) \in Nat /\ Cardinality(q[r]) \in Nat /\ e[r] \in Nat
  BY TotalNat
<1> QED
  BY <1>1, <1>2 DEF Total

(* There is a free address if any is. *)
LEMMA FirstFreeIsFree ==
  ASSUME NEW w, FreeSlots(w) # {}
  PROVE  FirstFree(w) \in Slot \ DOMAIN w.objs
<1>1. FreeSlots(w) \subseteq Nat
  BY ObjectsAssumption DEF FreeSlots, Slot
<1>2. PICK s \in FreeSlots(w) : \A r \in FreeSlots(w) : <<r, s>> \notin Less
  <2> DEFINE T == FreeSlots(w)
  <2>1. T \subseteq Nat /\ T # {}
    BY <1>1
  <2> HIDE DEF T
  <2>2. \E x \in T : \A y \in T : <<y, x>> \notin Less
    BY <2>1, LessIsWellFounded, WFMin
  <2> QED BY <2>2 DEF T
<1>3. \A r \in FreeSlots(w) : s <= r
  <2> SUFFICES ASSUME NEW r \in FreeSlots(w) PROVE s <= r
    OBVIOUS
  <2>1. r \in Nat /\ s \in Nat /\ <<r, s>> \notin Less
    BY <1>1, <1>2
  <2>2. ~(r < s)
    BY <2>1 DEF Less
  <2> QED BY <2>1, <2>2
<1>4. FirstFree(w) \in FreeSlots(w)
  BY <1>3 DEF FirstFree
<1> QED
  BY <1>4 DEF FreeSlots

(* Places are those of the lists. *)
LEMMA SameLists ==
  ASSUME NEW w, NEW z, NEW s,
         \A l \in Slot : /\ IsList(w, l) <=> IsList(z, l)
                         /\ IsList(w, l) => w.objs[l].holds = z.objs[l].holds
  PROVE  PlacesOf(z, s) = PlacesOf(w, s)
BY DEF PlacesOf

(* An object that lists hold is there. *)
LEMMA HeldIsThere ==
  ASSUME NEW w, NEW e \in Pending, NEW q, ObjectsTyped(w), Counted(w, e, q),
         NEW l \in Slot, IsList(w, l), NEW i \in 1..Len(w.objs[l].holds)
  PROVE  /\ w.objs[l].holds[i] \in DOMAIN w.objs \ w.leaked
         /\ w.objs[w.objs[l].holds[i]].type = "Var"
<1> DEFINE s == w.objs[l].holds[i]
<1>1. ListHeld(w, w.objs[l].holds)
  BY DEF ObjectsTyped, IsList
<1>2. s \in Slot /\ (s \in DOMAIN w.objs => w.objs[s].type = "Var")
  BY <1>1 DEF ListHeld
<1>3. <<l, i>> \in PlacesOf(w, s)
  <2>1. i \in Nat
    BY <1>1 DEF ListHeld, IsSequence
  <2> QED BY <2>1 DEF PlacesOf
<1>4. q[s] # {} /\ IsFiniteSet(q[s])
  BY <1>2, <1>3 DEF Counted
<1>5. Cardinality(q[s]) # 0
  BY <1>4, FS_EmptySet
<1>6. Total(w, e, q, s) # 0
  <2> HIDE DEF s
  <2>1. /\ Cardinality(NamesOf(w, s)) \in Nat /\ Cardinality(q[s]) \in Nat
        /\ e[s] \in Nat
    BY <1>2, <1>4, TotalNat
  <2> QED BY <1>5, <2>1 DEF Total
<1> QED
  BY <1>2, <1>6 DEF Counted

(* The object o is at s in z, and the others are where they were. *)
Made(w, s, o, z) ==
  /\ s \notin DOMAIN w.objs /\ DOMAIN z.objs = DOMAIN w.objs \cup {s} /\ z.objs[s] = o
  /\ z.names = w.names /\ z.leaked = w.leaked
  /\ \A r \in DOMAIN w.objs : z.objs[r] = w.objs[r]

(* Alloc makes an object that counts one reference, to whom it is given. *)
LEMMA AllocCounts ==
  ASSUME NEW w, NEW e \in Pending, NEW type \in Kind, NEW holds, FreeSlots(w) # {}, Good(w, e),
         type = "Var" => VarHeld(holds), type = "list" => holds = <<>>
  PROVE  LET s == FirstFree(w)
             z == Alloc(w, type, holds)
         IN /\ Good(z, Plus(e, s)) /\ s \in Slot /\ z.crashed = w.crashed
            /\ ~w.crashed => Made(w, s, [type |-> type, rc |-> 1, holds |-> holds], z)
<1> DEFINE s == FirstFree(w)
           o == [type |-> type, rc |-> 1, holds |-> holds]
           z == Alloc(w, type, holds)
<1>1. s \in Slot \ DOMAIN w.objs
  BY FirstFreeIsFree
<1>2. IsWorld(w)
  BY DEF Good, Bal
<1>3. /\ IsWorld(z) /\ z.objs = Put(w.objs, s, o) /\ z.names = w.names
      /\ z.leaked = w.leaked /\ z.crashed = w.crashed
  BY <1>2 DEF IsWorld, Alloc
<1>4. CASE w.crashed
  BY <1>1, <1>3, <1>4 DEF Good, Bal
<1>5. CASE ~w.crashed
  <2>1. ObjectsTyped(w) /\ Counted(w, e, At(w))
    BY <1>5 DEF Good, Bal
  <2>2. /\ DOMAIN z.objs = DOMAIN w.objs \cup {s} /\ z.objs[s] = o
        /\ \A r \in DOMAIN w.objs : z.objs[r] = w.objs[r]
    <3> HIDE DEF z, o, s
    <3>1. /\ DOMAIN Put(w.objs, s, o) = DOMAIN w.objs \cup {s} /\ Put(w.objs, s, o)[s] = o
          /\ \A r \in DOMAIN w.objs : r # s => Put(w.objs, s, o)[r] = w.objs[r]
      BY DEF Put
    <3> QED BY <1>1, <1>3, <3>1
  <2>3. ObjectsTyped(z)
    <3>1. ASSUME NEW list, ListHeld(w, list), NEW l \in Slot, IsList(w, l), w.objs[l].holds = list
          PROVE  ListHeld(z, list)
      <4> SUFFICES ASSUME NEW i \in 1..Len(list), list[i] \in DOMAIN z.objs
                   PROVE  z.objs[list[i]].type = "Var"
        BY <3>1 DEF ListHeld
      <4>1. list[i] \in DOMAIN w.objs /\ w.objs[list[i]].type = "Var"
        BY <2>1, <3>1, HeldIsThere
      <4> QED BY <2>2, <4>1
    <3>2. ListHeld(z, <<>>)
      BY DEF ListHeld, IsSequence
    <3>3. /\ DOMAIN z.objs \subseteq Slot /\ z.leaked \subseteq DOMAIN z.objs
          /\ z.names \in [PyName -> Slot \cup {Other}]
      <4> HIDE DEF z, o, s
      <4> QED BY <1>1, <1>3, <2>1, <2>2 DEF ObjectsTyped
    <3>4. ASSUME NEW r \in DOMAIN z.objs
          PROVE  /\ IsObject(z.objs[r]) /\ z.objs[r].rc \in Nat
                 /\ z.objs[r].type = "Var" => VarHeld(z.objs[r].holds)
                 /\ z.objs[r].type = "list" => ListHeld(z, z.objs[r].holds)
      <4>1. CASE r = s
        BY <2>2, <3>2, <4>1 DEF IsObject
      <4>2. CASE r # s
        <5>1. r \in DOMAIN w.objs /\ z.objs[r] = w.objs[r]
          <6> HIDE DEF z, o, s
          <6> QED BY <2>2, <4>2
        <5>2. /\ IsObject(w.objs[r]) /\ w.objs[r].rc \in Nat /\ r \in Slot
              /\ w.objs[r].type = "Var" => VarHeld(w.objs[r].holds)
              /\ w.objs[r].type = "list" => ListHeld(w, w.objs[r].holds)
          BY <2>1, <5>1 DEF ObjectsTyped
        <5>3. w.objs[r].type = "list" => ListHeld(z, w.objs[r].holds)
          <6> HIDE DEF z, o, s
          <6> QED BY <3>1, <5>1, <5>2 DEF IsList
        <5> HIDE DEF z, o, s
        <5> QED BY <5>1, <5>2, <5>3
      <4> QED BY <4>1, <4>2
    <3> HIDE DEF z, o, s
    <3> QED BY <3>3, <3>4 DEF ObjectsTyped
  <2>4. \A r \in Slot : PlacesOf(z, r) = PlacesOf(w, r)
    <3> SUFFICES ASSUME NEW r \in Slot PROVE PlacesOf(z, r) = PlacesOf(w, r)
      OBVIOUS
    <3>1. CASE type # "list"
      <4>1. \A l \in Slot : /\ IsList(w, l) <=> IsList(z, l)
                            /\ IsList(w, l) => w.objs[l].holds = z.objs[l].holds
        BY <1>1, <2>2, <3>1 DEF IsList
      <4> HIDE DEF z, o, s
      <4> QED BY <4>1, SameLists
    <3>2. CASE type = "list"
      <4>1. z.objs[s].holds = <<>> /\ 1..Len(z.objs[s].holds) = {}
        BY <2>2, <3>2
      <4>2. \A l \in Slot : l # s =>
                 /\ IsList(w, l) <=> IsList(z, l)
                 /\ IsList(w, l) => w.objs[l].holds = z.objs[l].holds
        <5> HIDE DEF z, o, s
        <5> QED BY <2>2 DEF IsList
      <4>3. ~IsList(w, s)
        BY <1>1 DEF IsList
      <4> HIDE DEF z, o, s
      <4> QED BY <4>1, <4>2, <4>3 DEF PlacesOf
    <3> QED BY <3>1, <3>2
  <2>5. At(z) = At(w)
    <3> HIDE DEF z
    <3> QED BY <2>4 DEF At
  <2>6. Counted(z, Plus(e, s), At(z))
    <3> SUFFICES ASSUME NEW r \in Slot
                 PROVE  /\ IsFiniteSet(At(w)[r]) /\ PlacesOf(z, r) \subseteq At(w)[r]
                        /\ r \in DOMAIN z.objs \ z.leaked =>
                             /\ z.objs[r].rc = Total(z, Plus(e, s), At(w), r)
                             /\ Total(z, Plus(e, s), At(w), r) # 0
                        /\ r \notin DOMAIN z.objs \ z.leaked =>
                             Total(z, Plus(e, s), At(w), r) = 0
      <4> HIDE DEF z, s
      <4> QED BY <2>5 DEF Counted
    <3>1. /\ IsFiniteSet(At(w)[r]) /\ PlacesOf(z, r) \subseteq At(w)[r]
          /\ r \in DOMAIN w.objs \ w.leaked =>
               w.objs[r].rc = Total(w, e, At(w), r) /\ Total(w, e, At(w), r) # 0
          /\ r \notin DOMAIN w.objs \ w.leaked => Total(w, e, At(w), r) = 0
      <4> HIDE DEF z
      <4> QED BY <2>1, <2>4 DEF Counted
    <3>2. Total(z, Plus(e, s), At(w), r) = Total(w, Plus(e, s), At(w), r)
      <4> HIDE DEF z, s
      <4> QED BY <1>3 DEF Total, NamesOf
    <3>3. Total(z, Plus(e, s), At(w), r) = IF r = s THEN Total(w, e, At(w), r) + 1
                                           ELSE Total(w, e, At(w), r)
      <4> HIDE DEF z, s
      <4> QED BY <1>1, <3>1, <3>2, TotalPlus
    <3>4. CASE r = s
      <4>1. r \notin DOMAIN w.objs \ w.leaked /\ r \in DOMAIN z.objs \ z.leaked
        <5> HIDE DEF z, s, o
        <5> QED BY <1>1, <1>3, <2>1, <2>2, <3>4 DEF ObjectsTyped
      <4>2. z.objs[r].rc = 1
        BY <2>2, <3>4
      <4> HIDE DEF z, s, o
      <4> QED BY <3>1, <3>3, <3>4, <4>1, <4>2
    <3>5. CASE r # s
      <4> HIDE DEF z, s, o
      <4> QED BY <1>3, <2>2, <3>1, <3>3, <3>5
    <3> QED BY <3>4, <3>5
  <2> HIDE DEF z, s, o
  <2>7. Good(z, Plus(e, s))
    BY <1>3, <2>3, <2>6 DEF Good, Bal
  <2>8. Made(w, s, o, z)
    BY <1>1, <1>3, <2>2 DEF Made
  <2> QED BY <1>1, <1>3, <2>7, <2>8 DEF z, s, o
<1> QED
  BY <1>4, <1>5

(* A reference more, to an object that there is. *)
LEMMA IncrefCounts ==
  ASSUME NEW w, NEW e \in Pending, NEW s \in Slot, Good(w, e),
         ~w.crashed => s \in DOMAIN w.objs \ w.leaked
  PROVE  Good(Incref(w, s), Plus(e, s))
<1> DEFINE z == Incref(w, s)
<1>2. IsWorld(w)
  BY DEF Good, Bal
<1>3. /\ IsWorld(z) /\ z.objs = [w.objs EXCEPT ![s].rc = @ + 1] /\ z.names = w.names
      /\ z.leaked = w.leaked /\ z.crashed = w.crashed
  BY <1>2 DEF IsWorld, Incref
<1>4. CASE w.crashed
  BY <1>3, <1>4 DEF Good, Bal
<1>5. CASE ~w.crashed
  <2>1. ObjectsTyped(w) /\ Counted(w, e, At(w)) /\ s \in DOMAIN w.objs \ w.leaked
    BY <1>5 DEF Good, Bal
  <2>2. IsObject(w.objs[s]) /\ w.objs[s].rc \in Nat
    BY <2>1 DEF ObjectsTyped
  <2>3. /\ DOMAIN z.objs = DOMAIN w.objs
        /\ \A r \in DOMAIN w.objs : r # s => z.objs[r] = w.objs[r]
    <3> HIDE DEF z
    <3> QED BY <1>3
  <2>4. /\ z.objs[s].type = w.objs[s].type /\ z.objs[s].holds = w.objs[s].holds
        /\ z.objs[s].rc = w.objs[s].rc + 1 /\ IsObject(z.objs[s])
    <3> HIDE DEF z
    <3>1. z.objs[s] = [w.objs[s] EXCEPT !.rc = @ + 1]
      BY <1>3, <2>1
    <3> QED BY <2>2, <3>1 DEF IsObject
  <2> HIDE DEF z
  <2>5. ObjectsTyped(z)
    <3>1. \A list : ListHeld(w, list) => ListHeld(z, list)
      BY <2>3, <2>4 DEF ListHeld
    <3>2. ASSUME NEW r \in DOMAIN z.objs
          PROVE  /\ IsObject(z.objs[r]) /\ z.objs[r].rc \in Nat
                 /\ z.objs[r].type = "Var" => VarHeld(z.objs[r].holds)
                 /\ z.objs[r].type = "list" => ListHeld(z, z.objs[r].holds)
      BY <2>1, <2>2, <2>3, <2>4, <3>1 DEF ObjectsTyped
    <3> QED BY <1>3, <2>1, <2>3, <3>2 DEF ObjectsTyped
  <2>6. At(z) = At(w) /\ \A r \in Slot : PlacesOf(z, r) = PlacesOf(w, r)
    <3>1. \A l \in Slot : /\ IsList(w, l) <=> IsList(z, l)
                          /\ IsList(w, l) => w.objs[l].holds = z.objs[l].holds
      BY <2>3, <2>4 DEF IsList
    <3>2. \A r \in Slot : PlacesOf(z, r) = PlacesOf(w, r)
      BY <3>1, SameLists
    <3> QED BY <3>2 DEF At
  <2>7. Counted(z, Plus(e, s), At(z))
    <3> SUFFICES ASSUME NEW r \in Slot
                 PROVE  /\ IsFiniteSet(At(w)[r]) /\ PlacesOf(z, r) \subseteq At(w)[r]
                        /\ r \in DOMAIN z.objs \ z.leaked =>
                             /\ z.objs[r].rc = Total(z, Plus(e, s), At(w), r)
                             /\ Total(z, Plus(e, s), At(w), r) # 0
                        /\ r \notin DOMAIN z.objs \ z.leaked =>
                             Total(z, Plus(e, s), At(w), r) = 0
      BY <2>6 DEF Counted
    <3>1. /\ IsFiniteSet(At(w)[r]) /\ PlacesOf(z, r) \subseteq At(w)[r]
          /\ r \in DOMAIN w.objs \ w.leaked =>
               w.objs[r].rc = Total(w, e, At(w), r) /\ Total(w, e, At(w), r) # 0
          /\ r \notin DOMAIN w.objs \ w.leaked => Total(w, e, At(w), r) = 0
      BY <2>1, <2>6 DEF Counted
    <3>2. Total(z, Plus(e, s), At(w), r) = Total(w, Plus(e, s), At(w), r)
      BY <1>3 DEF Total, NamesOf
    <3>3. Total(z, Plus(e, s), At(w), r) = IF r = s THEN Total(w, e, At(w), r) + 1
                                           ELSE Total(w, e, At(w), r)
      BY <3>1, <3>2, TotalPlus
    <3>4. Total(w, e, At(w), r) \in Nat
      BY <3>1, TotalNat
    <3> QED BY <1>3, <2>1, <2>3, <2>4, <3>1, <3>3, <3>4
  <2> QED BY <1>3, <2>5, <2>7 DEF Good, Bal, z
<1> QED
  BY <1>4, <1>5

(* The object at s goes with its last reference, and nothing else changes in z. *)
Lost(w, s, z) ==
  /\ s \in DOMAIN w.objs \ w.leaked /\ z.names = w.names
  /\ DOMAIN z.objs = IF w.objs[s].rc = 1 THEN DOMAIN w.objs \ {s} ELSE DOMAIN w.objs
  /\ \A r \in DOMAIN z.objs : /\ z.objs[r].type = w.objs[r].type
                              /\ z.objs[r].holds = w.objs[r].holds

(* An object loses a reference that was on its way, and goes with the last. *)
LEMMA DecrefCounts ==
  ASSUME NEW w, NEW e \in Pending, NEW q, NEW s \in Slot, Bal(w, Plus(e, s), q)
  PROVE  /\ Bal(DecrefOne(w, s), e, q) /\ (w.crashed => DecrefOne(w, s).crashed)
         /\ ~w.crashed => Lost(w, s, DecrefOne(w, s))
<1> DEFINE z == DecrefOne(w, s)
<1>2. IsWorld(w)
  BY DEF Bal
<1>3. CASE w.crashed
  <2>1. IsWorld(z) /\ z.crashed
    BY <1>2, <1>3 DEF IsWorld, DecrefOne, Dealloc
  <2> QED BY <1>3, <2>1 DEF Bal
<1>4. CASE ~w.crashed
  <2>1. ObjectsTyped(w) /\ Counted(w, Plus(e, s), q) /\ Plus(e, s) \in Pending
    BY <1>4, PlusPending DEF Bal
  <2>2. ASSUME NEW r \in Slot
        PROVE  /\ IsFiniteSet(q[r]) /\ PlacesOf(w, r) \subseteq q[r]
               /\ Total(w, e, q, r) \in Nat
               /\ r \in DOMAIN w.objs \ w.leaked =>
                    w.objs[r].rc = IF r = s THEN Total(w, e, q, r) + 1 ELSE Total(w, e, q, r)
               /\ r \in DOMAIN w.objs \ w.leaked /\ r # s => Total(w, e, q, r) # 0
               /\ r \notin DOMAIN w.objs \ w.leaked => r # s /\ Total(w, e, q, r) = 0
    <3>1. /\ IsFiniteSet(q[r]) /\ PlacesOf(w, r) \subseteq q[r]
          /\ r \in DOMAIN w.objs \ w.leaked =>
               w.objs[r].rc = Total(w, Plus(e, s), q, r) /\ Total(w, Plus(e, s), q, r) # 0
          /\ r \notin DOMAIN w.objs \ w.leaked => Total(w, Plus(e, s), q, r) = 0
      BY <2>1 DEF Counted
    <3>2. Total(w, Plus(e, s), q, r) = IF r = s THEN Total(w, e, q, r) + 1
                                       ELSE Total(w, e, q, r)
      BY <3>1, TotalPlus
    <3>3. Total(w, e, q, r) \in Nat
      BY <3>1, TotalNat
    <3> QED BY <3>1, <3>2, <3>3
  <2>3. s \in DOMAIN w.objs \ w.leaked
    BY <2>2
  <2>4. /\ IsObject(w.objs[s]) /\ w.objs[s].rc \in Nat /\ w.objs[s].rc # 0
        /\ w.objs[s].rc = Total(w, e, q, s) + 1
    BY <2>1, <2>2, <2>3 DEF ObjectsTyped
  <2>5. ASSUME NEW y, y.names = w.names
        PROVE  \A r \in Slot : Total(y, e, q, r) = Total(w, e, q, r)
    BY <2>5 DEF Total, NamesOf
  <2>6. CASE w.objs[s].rc > 1
    <3>1. z = [w EXCEPT !.objs[s].rc = @ - 1]
      BY <2>6 DEF DecrefOne
    <3>2. /\ IsWorld(z) /\ z.objs = [w.objs EXCEPT ![s].rc = @ - 1] /\ z.names = w.names
          /\ z.leaked = w.leaked /\ z.crashed = w.crashed
      BY <1>2, <3>1 DEF IsWorld
    <3> HIDE DEF z
    <3>3. /\ DOMAIN z.objs = DOMAIN w.objs
          /\ \A r \in DOMAIN w.objs : r # s => z.objs[r] = w.objs[r]
      BY <3>2
    <3>4. z.objs[s] = [w.objs[s] EXCEPT !.rc = @ - 1]
      BY <2>3, <3>2
    <3>5. /\ z.objs[s].type = w.objs[s].type /\ z.objs[s].holds = w.objs[s].holds
          /\ z.objs[s].rc = w.objs[s].rc - 1 /\ IsObject(z.objs[s])
      BY <2>4, <3>4 DEF IsObject
    <3>6. ObjectsTyped(z)
      <4>1. \A list : ListHeld(w, list) => ListHeld(z, list)
        BY <3>3, <3>5 DEF ListHeld
      <4>2. ASSUME NEW r \in DOMAIN z.objs
            PROVE  /\ IsObject(z.objs[r]) /\ z.objs[r].rc \in Nat
                   /\ z.objs[r].type = "Var" => VarHeld(z.objs[r].holds)
                   /\ z.objs[r].type = "list" => ListHeld(z, z.objs[r].holds)
        BY <2>1, <2>4, <2>6, <3>3, <3>5, <4>1 DEF ObjectsTyped
      <4> QED BY <2>1, <3>2, <3>3, <4>2 DEF ObjectsTyped
    <3>7. \A r \in Slot : PlacesOf(z, r) = PlacesOf(w, r)
      <4>1. \A l \in Slot : /\ IsList(w, l) <=> IsList(z, l)
                            /\ IsList(w, l) => w.objs[l].holds = z.objs[l].holds
        BY <3>3, <3>5 DEF IsList
      <4> QED BY <4>1, SameLists
    <3>8. Counted(z, e, q)
      <4> SUFFICES ASSUME NEW r \in Slot
                   PROVE  /\ IsFiniteSet(q[r]) /\ PlacesOf(z, r) \subseteq q[r]
                          /\ r \in DOMAIN z.objs \ z.leaked =>
                               z.objs[r].rc = Total(z, e, q, r) /\ Total(z, e, q, r) # 0
                          /\ r \notin DOMAIN z.objs \ z.leaked => Total(z, e, q, r) = 0
        BY DEF Counted
      <4>1. Total(z, e, q, r) = Total(w, e, q, r)
        BY <2>5, <3>2
      <4> QED BY <2>2, <2>4, <2>6, <3>2, <3>3, <3>5, <3>7, <4>1
    <3>9. Bal(z, e, q)
      BY <3>2, <3>6, <3>8 DEF Bal
    <3>10. Lost(w, s, z)
      BY <2>3, <2>6, <3>2, <3>3, <3>5 DEF Lost
    <3> QED BY <1>4, <3>9, <3>10 DEF z
  <2>7. CASE ~(w.objs[s].rc > 1)
    <3>1. z = Dealloc(w, s) /\ w.objs[s].rc = 1 /\ Total(w, e, q, s) = 0
      BY <2>2, <2>3, <2>4, <2>7 DEF DecrefOne
    <3>2. /\ IsWorld(z) /\ z.objs = Only(w.objs, DOMAIN w.objs \ {s}) /\ z.names = w.names
          /\ z.leaked = w.leaked
      BY <1>2, <3>1 DEF IsWorld, Dealloc
    <3> HIDE DEF z
    <3>3. /\ DOMAIN z.objs = DOMAIN w.objs \ {s}
          /\ \A r \in DOMAIN z.objs : z.objs[r] = w.objs[r]
      BY <3>2 DEF Only
    <3>4. ObjectsTyped(z)
      <4>1. \A list : ListHeld(w, list) => ListHeld(z, list)
        BY <3>3 DEF ListHeld
      <4>2. z.leaked \subseteq DOMAIN z.objs
        BY <2>1, <2>3, <3>2, <3>3 DEF ObjectsTyped
      <4>3. ASSUME NEW r \in DOMAIN z.objs
            PROVE  /\ IsObject(z.objs[r]) /\ z.objs[r].rc \in Nat
                   /\ z.objs[r].type = "Var" => VarHeld(z.objs[r].holds)
                   /\ z.objs[r].type = "list" => ListHeld(z, z.objs[r].holds)
        BY <2>1, <3>3, <4>1 DEF ObjectsTyped
      <4> QED BY <2>1, <3>2, <3>3, <4>2, <4>3 DEF ObjectsTyped
    <3>5. \A r \in Slot : PlacesOf(z, r) \subseteq PlacesOf(w, r)
      <4>1. \A l \in Slot : IsList(z, l) => IsList(w, l) /\ w.objs[l].holds = z.objs[l].holds
        BY <3>3 DEF IsList
      <4> QED BY <4>1 DEF PlacesOf
    <3>6. Counted(z, e, q)
      <4> SUFFICES ASSUME NEW r \in Slot
                   PROVE  /\ IsFiniteSet(q[r]) /\ PlacesOf(z, r) \subseteq q[r]
                          /\ r \in DOMAIN z.objs \ z.leaked =>
                               z.objs[r].rc = Total(z, e, q, r) /\ Total(z, e, q, r) # 0
                          /\ r \notin DOMAIN z.objs \ z.leaked => Total(z, e, q, r) = 0
        BY DEF Counted
      <4>1. Total(z, e, q, r) = Total(w, e, q, r)
        BY <2>5, <3>2
      <4>2. PlacesOf(z, r) \subseteq q[r] /\ IsFiniteSet(q[r])
        BY <2>2, <3>5
      <4> QED BY <2>2, <3>1, <3>2, <3>3, <4>1, <4>2
    <3>7. Bal(z, e, q)
      BY <3>2, <3>4, <3>6 DEF Bal
    <3>8. Lost(w, s, z)
      BY <2>3, <3>1, <3>2, <3>3 DEF Lost
    <3> QED BY <1>4, <3>7, <3>8 DEF z
  <2> QED BY <2>6, <2>7
<1> QED
  BY <1>3, <1>4

(* A reference that is in a place is on its way when the place goes. *)
LEMMA PlaceToPending ==
  ASSUME NEW w, NEW e \in Pending, NEW q, NEW s \in Slot, NEW p,
         Bal(w, e, q), p \in q[s], p \notin PlacesOf(w, s),
         DOMAIN q = Slot
  PROVE  Bal(w, Plus(e, s), [q EXCEPT ![s] = @ \ {p}])
<1> DEFINE t == [q EXCEPT ![s] = @ \ {p}]
<1>1. CASE w.crashed
  BY <1>1 DEF Bal
<1>2. CASE ~w.crashed
  <2>1. IsWorld(w) /\ ObjectsTyped(w) /\ Counted(w, e, q)
    BY <1>2 DEF Bal
  <2>2. t[s] = q[s] \ {p} /\ \A r \in Slot : r # s => t[r] = q[r]
    OBVIOUS
  <2> HIDE DEF t
  <2>3. ASSUME NEW r \in Slot
        PROVE  /\ IsFiniteSet(t[r]) /\ PlacesOf(w, r) \subseteq t[r]
               /\ Total(w, Plus(e, s), t, r) = Total(w, e, q, r)
    <3>1. IsFiniteSet(q[r]) /\ PlacesOf(w, r) \subseteq q[r]
      BY <2>1 DEF Counted
    <3>2. CASE r # s
      <4>1. t[r] = q[r] /\ Plus(e, s)[r] = e[r]
        BY <2>2, <3>2, PlusPending
      <4> QED BY <3>1, <4>1 DEF Total
    <3>3. CASE r = s
      <4>1. IsFiniteSet(t[r]) /\ Cardinality(t[r]) = Cardinality(q[r]) - 1
        BY <2>2, <3>1, <3>3, FS_RemoveElement
      <4>2. Plus(e, s)[r] = e[r] + 1
        BY <3>3, PlusPending
      <4>3. /\ Cardinality(NamesOf(w, r)) \in Nat /\ Cardinality(q[r]) \in Nat
            /\ e[r] \in Nat
        BY <3>1, TotalNat
      <4>4. PlacesOf(w, r) \subseteq t[r]
        BY <2>2, <3>1, <3>3
      <4> QED BY <4>1, <4>2, <4>3, <4>4 DEF Total
    <3> QED BY <3>2, <3>3
  <2>4. Counted(w, Plus(e, s), t)
    BY <2>1, <2>3 DEF Counted
  <2> QED BY <2>1, <2>4 DEF Bal, t
<1> QED
  BY <1>1, <1>2

(* A loop that drops items, as DropAll goes through it. *)
IsDrop(w, items, drop, n) ==
  drop = [i \in 0..n |-> IF i = 0 THEN w ELSE DecrefOne(drop[i - 1], items[i])]

(* It can be gone through any number of times. *)
LEMMA DropExists ==
  ASSUME NEW w, NEW items
  PROVE  \A n \in Nat : \E drop : IsDrop(w, items, drop, n)
<1> DEFINE S == {n \in Nat : \E drop : IsDrop(w, items, drop, n)}
<1>1. 0 \in S
  <2> DEFINE f == [i \in 0..0 |-> w]
  <2>1. IsDrop(w, items, f, 0)
    BY DEF IsDrop
  <2> QED BY <2>1
<1>2. ASSUME NEW n \in Nat, n \in S
      PROVE  n + 1 \in S
  <2>1. PICK f : IsDrop(w, items, f, n)
    BY <1>2
  <2> DEFINE g == [i \in 0..(n + 1) |->
                     IF i = n + 1 THEN DecrefOne(f[n], items[n + 1]) ELSE f[i]]
  <2>2. \A i \in 0..(n + 1) : g[i] = IF i = 0 THEN w ELSE DecrefOne(g[i - 1], items[i])
    <3> SUFFICES ASSUME NEW i \in 0..(n + 1)
                 PROVE  g[i] = IF i = 0 THEN w ELSE DecrefOne(g[i - 1], items[i])
      OBVIOUS
    <3>1. CASE i = n + 1
      <4>1. i - 1 = n /\ i # 0 /\ i - 1 \in 0..(n + 1) /\ g[i - 1] = f[n]
        BY <3>1
      <4> QED BY <3>1, <4>1
    <3>2. CASE i # n + 1
      <4>1. i \in 0..n /\ (i # 0 => i - 1 \in 0..n)
        BY <3>2
      <4>2. g[i] = f[i] /\ (i # 0 => g[i - 1] = f[i - 1])
        BY <4>1
      <4>3. f[i] = IF i = 0 THEN w ELSE DecrefOne(f[i - 1], items[i])
        BY <2>1, <4>1 DEF IsDrop
      <4> QED BY <4>1, <4>2, <4>3
    <3> QED BY <3>1, <3>2
  <2>3. IsDrop(w, items, g, n + 1)
    BY <2>2 DEF IsDrop
  <2> QED BY <2>3
<1> HIDE DEF S
<1>3. Nat \subseteq S
  BY <1>1, <1>2, NatSetInduction
<1> QED
  BY <1>3 DEF S

(* What is still to drop after i items of a list at l. *)
Still(l, items, i, s) == {p \in {l} \X Nat : p[2] \in (i + 1)..Len(items) /\ items[p[2]] = s}
WithStill(w, l, items, i) == [s \in Slot |-> PlacesOf(w, s) \cup Still(l, items, i, s)]

(* All items of a list that is gone are dropped, and the other lists stay. *)
LEMMA DropAllCounts ==
  ASSUME NEW w, NEW e \in Pending, NEW l \in Slot, NEW items, IsSequence(items),
         \A i \in 1..Len(items) : items[i] \in Slot,
         ~w.crashed => /\ l \notin DOMAIN w.objs
                       /\ \A i \in 1..Len(items) :
                            items[i] \in DOMAIN w.objs => w.objs[items[i]].type = "Var",
         Bal(w, e, WithStill(w, l, items, 0))
  PROVE  Good(DropAll(w, items), e)
<1> DEFINE drop == CHOOSE drop : IsDrop(w, items, drop, Len(items))
           m == Len(items)
<1>1. m \in Nat
  BY DEF IsSequence
<1>2. IsDrop(w, items, drop, m)
  BY <1>1, DropExists
<1>3. DropAll(w, items) = drop[m]
  BY DEF DropAll, IsDrop
<1> HIDE DEF drop, m
<1> DEFINE Kept(z, i) ==
             /\ Bal(z, e, WithStill(w, l, items, i))
             /\ w.crashed => z.crashed
             /\ ~z.crashed => /\ At(z) = At(w) /\ l \notin DOMAIN z.objs
                              /\ \A j \in 1..m : items[j] \in DOMAIN z.objs =>
                                                   z.objs[items[j]].type = "Var"
           S == {i \in Nat : i <= m => Kept(drop[i], i)}
<1>4. 0 \in S
  <2>1. drop[0] = w
    BY <1>1, <1>2 DEF IsDrop
  <2>2. Kept(w, 0)
    BY DEF m
  <2> HIDE DEF Kept
  <2> QED BY <2>1, <2>2
<1>5. ASSUME NEW i \in Nat, i \in S
      PROVE  i + 1 \in S
  <2> SUFFICES ASSUME i + 1 <= m PROVE Kept(drop[i + 1], i + 1)
    OBVIOUS
  <2>1. Kept(drop[i], i)
    <3> HIDE DEF Kept
    <3> QED BY <1>1, <1>5
  <2>2. i + 1 \in 1..m /\ i + 1 \in 0..m /\ (i + 1) - 1 = i
    BY <1>1
  <2> DEFINE y == drop[i]
             s == items[i + 1]
             z == DecrefOne(y, s)
             p == <<l, i + 1>>
             q == WithStill(w, l, items, i)
             t == WithStill(w, l, items, i + 1)
  <2>3. drop[i + 1] = z /\ s \in Slot
    BY <1>2, <2>2 DEF IsDrop, m
  <2>4. ~w.crashed => t = [q EXCEPT ![s] = @ \ {p}] /\ DOMAIN q = Slot /\ p \in q[s]
                       /\ p \notin PlacesOf(w, s)
    <3> SUFFICES ASSUME ~w.crashed
                 PROVE  t = [q EXCEPT ![s] = @ \ {p}] /\ DOMAIN q = Slot /\ p \in q[s]
                        /\ p \notin PlacesOf(w, s)
      OBVIOUS
    <3>1. DOMAIN q = Slot /\ \A r \in Slot : q[r] = PlacesOf(w, r) \cup Still(l, items, i, r)
      BY DEF WithStill
    <3>2. p \in Still(l, items, i, s)
      BY <1>1, <2>2 DEF Still, m
    <3>3. DOMAIN t = Slot /\ \A r \in Slot : t[r] = PlacesOf(w, r) \cup Still(l, items, i + 1, r)
      BY DEF WithStill
    <3>4. \A r \in Slot : Still(l, items, i + 1, r) =
                            IF r = s THEN Still(l, items, i, r) \ {p} ELSE Still(l, items, i, r)
      BY <1>1, <2>2 DEF Still, m
    <3>5. p \notin PlacesOf(w, s)
      BY DEF PlacesOf, IsList
    <3>6. \A r \in Slot : t[r] = [q EXCEPT ![s] = @ \ {p}][r]
      <4> HIDE DEF t, q, s, p
      <4> QED BY <2>3, <3>1, <3>3, <3>4, <3>5
    <3>7. t = [r \in Slot |-> t[r]]
      BY DEF WithStill
    <3> HIDE DEF t, q, s, p
    <3>8. t = [q EXCEPT ![s] = @ \ {p}]
      BY <3>1, <3>6, <3>7
    <3> QED BY <2>3, <3>1, <3>2, <3>5, <3>8
  <2> HIDE DEF z, p, q, t, s
  <2>5. Bal(y, Plus(e, s), t)
    <3>1. CASE y.crashed
      BY <2>1, <3>1 DEF Bal
    <3>2. CASE ~y.crashed
      <4>1. Bal(y, e, q) /\ At(y) = At(w) /\ ~w.crashed
        BY <2>1, <3>2 DEF q
      <4>2. p \notin PlacesOf(y, s)
        BY <2>3, <2>4, <4>1 DEF At
      <4> QED BY <2>3, <2>4, <4>1, <4>2, PlaceToPending
    <3> QED BY <3>1, <3>2
  <2>6. /\ Bal(z, e, t) /\ (y.crashed => z.crashed)
        /\ ~y.crashed => Lost(y, s, z)
    BY <2>3, <2>5, DecrefCounts DEF z
  <2>7. ASSUME ~z.crashed
        PROVE  /\ At(z) = At(w) /\ l \notin DOMAIN z.objs
               /\ \A j \in 1..m : items[j] \in DOMAIN z.objs => z.objs[items[j]].type = "Var"
    <3>1. /\ At(y) = At(w) /\ l \notin DOMAIN y.objs
          /\ \A j \in 1..m : items[j] \in DOMAIN y.objs => y.objs[items[j]].type = "Var"
      BY <2>1, <2>6, <2>7
    <3>2. /\ s \in DOMAIN y.objs /\ y.objs[s].type = "Var"
          /\ DOMAIN z.objs \subseteq DOMAIN y.objs
          /\ \A r \in DOMAIN y.objs : r # s => r \in DOMAIN z.objs
          /\ \A r \in DOMAIN z.objs : /\ z.objs[r].type = y.objs[r].type
                                      /\ z.objs[r].holds = y.objs[r].holds
      BY <2>2, <2>6, <2>7, <3>1 DEF s, Lost
    <3>3. \A k \in Slot : /\ IsList(y, k) <=> IsList(z, k)
                          /\ IsList(y, k) => y.objs[k].holds = z.objs[k].holds
      BY <3>2 DEF IsList
    <3>4. At(z) = At(y)
      BY <3>3, SameLists DEF At
    <3> QED BY <3>1, <3>2, <3>4
  <2> QED BY <2>1, <2>3, <2>6, <2>7 DEF t
<1> HIDE DEF S
<1>6. Nat \subseteq S
  BY <1>4, <1>5, NatSetInduction
<1>7. Kept(drop[m], m)
  <2> HIDE DEF Kept
  <2> QED BY <1>1, <1>6 DEF S
<1>8. CASE drop[m].crashed
  BY <1>3, <1>7, <1>8 DEF Good, Bal
<1>9. CASE ~drop[m].crashed
  <2>1. \A s \in Slot : Still(l, items, m, s) = {}
    BY <1>1 DEF Still, m
  <2>2. WithStill(w, l, items, m) = At(w)
    BY <2>1 DEF WithStill, At
  <2> QED BY <1>3, <1>7, <1>9, <2>2 DEF Good
<1> QED
  BY <1>8, <1>9

(* An object loses a reference that was on its way: a list takes its items along. *)
LEMMA DecrefIsGood ==
  ASSUME NEW w, NEW e \in Pending, NEW s \in Slot, Good(w, Plus(e, s)), ~w.crashed
  PROVE  Good(Decref(w, s), e)
<1> DEFINE y == DecrefOne(w, s)
           items == w.objs[s].holds
<1>1. /\ Bal(y, e, At(w)) /\ (w.crashed => y.crashed)
      /\ ~w.crashed => Lost(w, s, y)
  BY DecrefCounts DEF Good
<1>2. CASE ~(w.objs[s].type = "list" /\ w.objs[s].rc = 1)
  <2>1. Decref(w, s) = y
    BY <1>2 DEF Decref
  <2>2. CASE y.crashed
    BY <1>1, <2>1, <2>2 DEF Good, Bal
  <2>3. CASE ~y.crashed
    <3>1. Lost(w, s, y)
      BY <1>1, <2>3
    <3>2. \A k \in Slot : /\ IsList(w, k) <=> IsList(y, k)
                          /\ IsList(w, k) => w.objs[k].holds = y.objs[k].holds
      BY <1>2, <3>1 DEF IsList, Lost
    <3>3. At(y) = At(w)
      BY <3>2, SameLists DEF At
    <3> QED BY <1>1, <2>1, <3>3 DEF Good
  <2> QED BY <2>2, <2>3
<1>3. CASE w.objs[s].type = "list" /\ w.objs[s].rc = 1
  <2>1. Decref(w, s) = DropAll(y, items)
    BY <1>3 DEF Decref
  <2>2. ObjectsTyped(w) /\ Lost(w, s, y) /\ ListHeld(w, items)
    BY <1>1, <1>3 DEF Good, Bal, ObjectsTyped, Lost
  <2>3. IsSequence(items) /\ Len(items) \in Nat /\ \A i \in 1..Len(items) : items[i] \in Slot
    BY <2>2 DEF ListHeld, IsSequence
  <2>4. s \notin DOMAIN y.objs
    BY <1>3, <2>2 DEF Lost
  <2>5. \A i \in 1..Len(items) : items[i] \in DOMAIN y.objs => y.objs[items[i]].type = "Var"
    BY <1>3, <2>2 DEF ListHeld, Lost
  <2>6. Bal(y, e, WithStill(y, s, items, 0))
    <3>1. CASE y.crashed
      BY <1>1, <3>1 DEF Bal
    <3>2. CASE ~y.crashed
      <4>1. \A r \in Slot : PlacesOf(w, r) = PlacesOf(y, r) \cup Still(s, items, 0, r)
        <5>1. IsList(w, s) /\ ~IsList(y, s)
          BY <1>3, <2>2, <2>4 DEF IsList, Lost
        <5>2. \A k \in Slot : k # s => /\ IsList(w, k) <=> IsList(y, k)
                                       /\ IsList(w, k) => w.objs[k].holds = y.objs[k].holds
          BY <1>3, <2>2 DEF IsList, Lost
        <5>3. ASSUME NEW r \in Slot, NEW p
              PROVE  p \in PlacesOf(w, r) <=> p \in PlacesOf(y, r) \/ p \in Still(s, items, 0, r)
          <6>1. p \in Still(s, items, 0, r) <=> /\ p \in Slot \X Nat /\ p[1] = s
                                                /\ p[2] \in 1..Len(items) /\ items[p[2]] = r
            BY DEF Still
          <6>2. CASE p \in Slot \X Nat /\ p[1] = s
            BY <5>1, <6>1, <6>2 DEF PlacesOf
          <6>3. CASE p \in Slot \X Nat /\ p[1] # s
            <7> HIDE DEF items, y
            <7> QED BY <5>2, <6>1, <6>3 DEF PlacesOf
          <6>4. CASE p \notin Slot \X Nat
            BY <6>1, <6>4 DEF PlacesOf
          <6> QED BY <6>2, <6>3, <6>4
        <5> HIDE DEF items, y
        <5> QED BY <5>3
      <4>2. At(w) = WithStill(y, s, items, 0)
        <5> HIDE DEF items, y
        <5> QED BY <4>1 DEF At, WithStill
      <4> QED BY <1>1, <4>2
    <3> QED BY <3>1, <3>2
  <2> HIDE DEF items, y
  <2> QED BY <2>1, <2>3, <2>4, <2>5, <2>6, DropAllCounts
<1> QED
  BY <1>2, <1>3

(* A reference on its way to where x is, unless x is Other. *)
Extra(e, x) == IF x = Other THEN e ELSE Plus(e, x)

(* What it adds. *)
LEMMA ExtraPending ==
  ASSUME NEW e \in Pending, NEW x \in Slot \cup {Other}
  PROVE  /\ Extra(e, x) \in Pending
         /\ \A r \in Slot : Extra(e, x)[r] = IF x = r THEN e[r] + 1 ELSE e[r]
BY PlusPending, ObjectsAssumption DEF Extra

(* A name takes one object for another. *)
LEMMA RebindNames ==
  ASSUME NEW w, NEW z, NEW n \in PyName, NEW x \in Slot \cup {Other},
         w.names \in [PyName -> Slot \cup {Other}],
         z.names = [w.names EXCEPT ![n] = x], NEW r \in Slot
  PROVE  Cardinality(NamesOf(w, r)) + (IF x = r THEN 1 ELSE 0)
           = Cardinality(NamesOf(z, r)) + (IF w.names[n] = r THEN 1 ELSE 0)
<1> DEFINE old == w.names[n]
<1>1. /\ IsFiniteSet(NamesOf(w, r)) /\ Cardinality(NamesOf(w, r)) \in Nat
      /\ IsFiniteSet(NamesOf(z, r)) /\ Cardinality(NamesOf(z, r)) \in Nat
  BY NamesFinite
<1>2. CASE x = r /\ old # r
  <2>1. NamesOf(z, r) = NamesOf(w, r) \cup {n} /\ n \notin NamesOf(w, r)
    BY <1>2 DEF NamesOf
  <2>2. Cardinality(NamesOf(z, r)) = Cardinality(NamesOf(w, r)) + 1
    BY <1>1, <2>1, FS_AddElement
  <2> QED BY <1>1, <1>2, <2>2
<1>3. CASE x # r /\ old = r
  <2>1. NamesOf(z, r) = NamesOf(w, r) \ {n} /\ n \in NamesOf(w, r)
    BY <1>3 DEF NamesOf
  <2>2. Cardinality(NamesOf(z, r)) = Cardinality(NamesOf(w, r)) - 1
    BY <1>1, <2>1, FS_RemoveElement
  <2> QED BY <1>1, <1>3, <2>2
<1>4. CASE x = r /\ old = r
  <2>1. NamesOf(z, r) = NamesOf(w, r)
    BY <1>4 DEF NamesOf
  <2> QED BY <1>1, <1>4, <2>1
<1>5. CASE x # r /\ old # r
  <2>1. NamesOf(z, r) = NamesOf(w, r)
    BY <1>5 DEF NamesOf
  <2> QED BY <1>1, <1>5, <2>1
<1> QED
  BY <1>2, <1>3, <1>4, <1>5

(* A name takes the reference that was on its way to it, and what the name stood for
   loses one. *)
LEMMA BindIsGood ==
  ASSUME NEW w, NEW e \in Pending, NEW n \in PyName, NEW x \in Slot \cup {Other},
         Good(w, Extra(e, x)), ~w.crashed
  PROVE  Good(Bind(w, n, x), e)
<1> DEFINE old == w.names[n]
           z == [w EXCEPT !.names[n] = x]
<1>1. IsWorld(w) /\ ObjectsTyped(w) /\ Counted(w, Extra(e, x), At(w))
  BY DEF Good, Bal
<1>2. /\ IsWorld(z) /\ z.objs = w.objs /\ z.names = [w.names EXCEPT ![n] = x]
      /\ z.leaked = w.leaked /\ z.crashed = w.crashed
  BY <1>1 DEF IsWorld
<1>3. old \in Slot \cup {Other} /\ w.names \in [PyName -> Slot \cup {Other}]
  BY <1>1 DEF ObjectsTyped
<1> HIDE DEF z, old
<1>4. ObjectsTyped(z)
  <2>1. \A list : ListHeld(w, list) => ListHeld(z, list)
    BY <1>2 DEF ListHeld
  <2> QED BY <1>1, <1>2, <1>3, <2>1 DEF ObjectsTyped
<1>5. At(z) = At(w) /\ \A r \in Slot : PlacesOf(z, r) = PlacesOf(w, r)
  BY <1>2 DEF At, PlacesOf, IsList
<1>6. \A r \in Slot : /\ IsFiniteSet(At(w)[r])
                      /\ Total(z, Extra(e, old), At(w), r) = Total(w, Extra(e, x), At(w), r)
  <2> SUFFICES ASSUME NEW r \in Slot
               PROVE  /\ IsFiniteSet(At(w)[r])
                      /\ Total(z, Extra(e, old), At(w), r) = Total(w, Extra(e, x), At(w), r)
    OBVIOUS
  <2>1. IsFiniteSet(At(w)[r])
    BY <1>1 DEF Counted
  <2>2. /\ Cardinality(NamesOf(w, r)) \in Nat /\ Cardinality(NamesOf(z, r)) \in Nat
        /\ Cardinality(At(w)[r]) \in Nat /\ e[r] \in Nat
    BY <2>1, TotalNat
  <2>3. Cardinality(NamesOf(w, r)) + (IF x = r THEN 1 ELSE 0)
          = Cardinality(NamesOf(z, r)) + (IF old = r THEN 1 ELSE 0)
    BY <1>2, <1>3, RebindNames DEF old
  <2>4. /\ Extra(e, x)[r] = IF x = r THEN e[r] + 1 ELSE e[r]
        /\ Extra(e, old)[r] = IF old = r THEN e[r] + 1 ELSE e[r]
    BY <1>3, ExtraPending
  <2> QED BY <2>1, <2>2, <2>3, <2>4 DEF Total
<1>7. Counted(z, Extra(e, old), At(z))
  BY <1>1, <1>2, <1>5, <1>6 DEF Counted
<1>8. Good(z, Extra(e, old)) /\ ~z.crashed
  BY <1>2, <1>4, <1>7 DEF Good, Bal
<1>9. CASE old = Other
  <2>1. Bind(w, n, x) = z
    BY <1>9 DEF Bind, old, z
  <2> QED BY <1>8, <1>9, <2>1 DEF Extra
<1>10. CASE old # Other
  <2>1. Bind(w, n, x) = Decref(z, old) /\ old \in Slot /\ Good(z, Plus(e, old))
    BY <1>3, <1>8, <1>10 DEF Bind, old, z, Extra
  <2> QED BY <1>8, <2>1, DecrefIsGood
<1> QED
  BY <1>9, <1>10

(* A variable in a list: what AppendTo leaves, with its address s. *)
Appended(w, list, v, s, z) ==
  /\ IsWorld(z) /\ z.names = w.names /\ z.leaked = w.leaked /\ z.crashed = w.crashed
  /\ DOMAIN z.objs = DOMAIN w.objs \cup {s}
  /\ z.objs[s] = [type |-> "Var", rc |-> 1, holds |-> v]
  /\ z.objs[list] = [w.objs[list] EXCEPT !.holds = Append(@, s)]
  /\ \A r \in DOMAIN w.objs : r # list => z.objs[r] = w.objs[r]

(* What an object holds is changed, and nothing else. *)
LEMMA HoldsIs ==
  ASSUME NEW w, NEW k, NEW x, IsWorld(w)
  PROVE  /\ IsWorld([w EXCEPT !.objs[k].holds = x])
         /\ [w EXCEPT !.objs[k].holds = x].objs = [w.objs EXCEPT ![k].holds = x]
         /\ [w EXCEPT !.objs[k].holds = x].names = w.names
         /\ [w EXCEPT !.objs[k].holds = x].leaked = w.leaked
         /\ [w EXCEPT !.objs[k].holds = x].crashed = w.crashed
BY DEF IsWorld

(* Of the two references to a variable that is listed, one is taken back. *)
LEMMA AppendToIs ==
  ASSUME NEW w, NEW list, NEW v, IsWorld(w), list \in DOMAIN w.objs, FreeSlots(w) # {}
  PROVE  Appended(w, list, v, FirstFree(w), AppendTo(w, list, v))
<1> DEFINE s == FirstFree(w)
           o == [type |-> "Var", rc |-> 1, holds |-> v]
           a == Alloc(w, "Var", v)
           i == Incref(a, s)
           b == [i EXCEPT !.objs[list].holds = Append(@, s)]
           z == DecrefOne(b, s)
<1>1. s \notin DOMAIN w.objs /\ s # list
  BY FirstFreeIsFree
<1>2. /\ IsWorld(a) /\ a.objs = Put(w.objs, s, o) /\ a.names = w.names
      /\ a.leaked = w.leaked /\ a.crashed = w.crashed
  BY DEF IsWorld, Alloc
<1>3. /\ IsWorld(i) /\ i.objs = [a.objs EXCEPT ![s].rc = @ + 1] /\ i.names = a.names
      /\ i.leaked = a.leaked /\ i.crashed = a.crashed
  <2> HIDE DEF a, s
  <2> QED BY <1>2 DEF IsWorld, Incref
<1>4. /\ IsWorld(b) /\ b.objs = [i.objs EXCEPT ![list].holds = Append(@, s)]
      /\ b.names = i.names /\ b.leaked = i.leaked /\ b.crashed = i.crashed
  <2> HIDE DEF a, s, i
  <2>1. b = [i EXCEPT !.objs[list].holds = Append(i.objs[list].holds, s)]
    OBVIOUS
  <2>2. [i.objs EXCEPT ![list].holds = Append(@, s)]
          = [i.objs EXCEPT ![list].holds = Append(i.objs[list].holds, s)]
    OBVIOUS
  <2> DEFINE x == Append(i.objs[list].holds, s)
  <2>3. b = [i EXCEPT !.objs[list].holds = x]
    BY <2>1
  <2>4. [i.objs EXCEPT ![list].holds = Append(@, s)] = [i.objs EXCEPT ![list].holds = x]
    BY <2>2
  <2> HIDE DEF x, b
  <2>5. /\ IsWorld([i EXCEPT !.objs[list].holds = x])
        /\ [i EXCEPT !.objs[list].holds = x].objs = [i.objs EXCEPT ![list].holds = x]
        /\ [i EXCEPT !.objs[list].holds = x].names = i.names
        /\ [i EXCEPT !.objs[list].holds = x].leaked = i.leaked
        /\ [i EXCEPT !.objs[list].holds = x].crashed = i.crashed
    BY <1>3, HoldsIs
  <2> QED BY <2>3, <2>4, <2>5
<1>5. AppendTo(w, list, v) = z
  BY DEF AppendTo
<1> HIDE DEF s
<1>6. /\ DOMAIN a.objs = DOMAIN w.objs \cup {s} /\ a.objs[s] = o
      /\ \A r \in DOMAIN w.objs : a.objs[r] = w.objs[r]
  <2> HIDE DEF a, o
  <2> QED BY <1>1, <1>2 DEF Put
<1>7. /\ DOMAIN i.objs = DOMAIN w.objs \cup {s}
      /\ i.objs[s] = [type |-> "Var", rc |-> 2, holds |-> v]
      /\ \A r \in DOMAIN w.objs : i.objs[r] = w.objs[r]
  <2> HIDE DEF a, i
  <2>1. i.objs[s] = [a.objs[s] EXCEPT !.rc = @ + 1]
    BY <1>3, <1>6
  <2>2. i.objs[s] = [type |-> "Var", rc |-> 2, holds |-> v]
    BY <1>6, <2>1
  <2> QED BY <1>1, <1>3, <1>6, <2>2
<1>8. /\ DOMAIN b.objs = DOMAIN w.objs \cup {s}
      /\ b.objs[s] = [type |-> "Var", rc |-> 2, holds |-> v]
      /\ b.objs[list] = [w.objs[list] EXCEPT !.holds = Append(@, s)]
      /\ \A r \in DOMAIN w.objs : r # list => b.objs[r] = w.objs[r]
  <2> HIDE DEF i, b
  <2> QED BY <1>1, <1>4, <1>7
<1>9. z = [b EXCEPT !.objs[s].rc = @ - 1]
  <2> HIDE DEF b
  <2>1. b.objs[s].rc > 1
    BY <1>8
  <2> QED BY <2>1 DEF DecrefOne
<1>10. /\ IsWorld(z) /\ z.objs = [b.objs EXCEPT ![s].rc = @ - 1]
       /\ z.names = b.names /\ z.leaked = b.leaked /\ z.crashed = b.crashed
  <2> HIDE DEF b, z
  <2> QED BY <1>4, <1>9 DEF IsWorld
<1>11. /\ DOMAIN z.objs = DOMAIN w.objs \cup {s} /\ z.objs[s] = o
       /\ \A r \in DOMAIN w.objs : z.objs[r] = b.objs[r]
  <2> HIDE DEF b, z
  <2>1. z.objs[s] = [b.objs[s] EXCEPT !.rc = @ - 1]
    BY <1>8, <1>10
  <2>2. z.objs[s] = o
    BY <1>8, <2>1
  <2> QED BY <1>1, <1>8, <1>10, <2>2
<1>12. Appended(w, list, v, s, z)
  <2> HIDE DEF a, i, b, z
  <2>1. /\ IsWorld(z) /\ z.names = w.names /\ z.leaked = w.leaked
        /\ z.crashed = w.crashed
    BY <1>2, <1>3, <1>4, <1>10
  <2>2. /\ DOMAIN z.objs = DOMAIN w.objs \cup {s} /\ z.objs[s] = o
        /\ z.objs[list] = [w.objs[list] EXCEPT !.holds = Append(@, s)]
        /\ \A r \in DOMAIN w.objs : r # list => z.objs[r] = w.objs[r]
    BY <1>8, <1>11
  <2> QED BY <2>1, <2>2 DEF Appended
<1> QED
  BY <1>5, <1>12 DEF s

(* A list holds one variable more, and each counts. *)
LEMMA AppendIsGood ==
  ASSUME NEW w, NEW e \in Pending, NEW list, NEW v, NEW s \in Slot, NEW z,
         Good(w, e), ~w.crashed, IsList(w, list), VarHeld(v),
         s \notin DOMAIN w.objs, Appended(w, list, v, s, z)
  PROVE  Good(z, e) /\ IsList(z, list)
<1> DEFINE items == w.objs[list].holds
           m == Len(items)
<1>1. ObjectsTyped(w) /\ Counted(w, e, At(w))
  BY DEF Good, Bal
<1>2. /\ list \in DOMAIN w.objs /\ list \in Slot /\ IsObject(w.objs[list])
      /\ w.objs[list].type = "list" /\ ListHeld(w, items) /\ w.objs[list].rc \in Nat
  BY <1>1 DEF ObjectsTyped, IsList
<1>3. m \in Nat /\ IsSequence(items)
  BY <1>2 DEF ListHeld, IsSequence
<1>4. /\ DOMAIN z.objs = DOMAIN w.objs \cup {s}
      /\ z.objs[s] = [type |-> "Var", rc |-> 1, holds |-> v]
      /\ z.objs[list] = [w.objs[list] EXCEPT !.holds = Append(@, s)]
      /\ \A r \in DOMAIN w.objs : r # list => z.objs[r] = w.objs[r]
      /\ z.names = w.names /\ z.leaked = w.leaked
  BY DEF Appended
<1>5. /\ IsObject(z.objs[list]) /\ z.objs[list].type = "list"
      /\ z.objs[list].rc = w.objs[list].rc /\ z.objs[list].holds = Append(items, s)
  BY <1>2, <1>4 DEF IsObject
<1>6. /\ IsSequence(Append(items, s)) /\ Len(Append(items, s)) = m + 1
      /\ Append(items, s)[m + 1] = s
      /\ \A p \in 1..m : Append(items, s)[p] = items[p]
  BY <1>3, AppendGrows
<1> HIDE DEF items, m
<1>7. /\ \A k \in Slot : IsList(z, k) <=> IsList(w, k)
      /\ \A k \in Slot : IsList(w, k) /\ k # list => z.objs[k].holds = w.objs[k].holds
  <2>1. ASSUME NEW k \in Slot
        PROVE  /\ IsList(z, k) <=> IsList(w, k)
               /\ IsList(w, k) /\ k # list => z.objs[k].holds = w.objs[k].holds
    <3>1. CASE k = s
      <4>1. z.objs[k].type = "Var"
        BY <1>4, <3>1
      <4> QED BY <3>1, <4>1 DEF IsList
    <3>2. CASE k # s
      BY <1>2, <1>4, <1>5, <3>2 DEF IsList
    <3> QED BY <3>1, <3>2
  <2> QED BY <2>1
<1>8. ASSUME NEW k \in Slot, IsList(w, k)
      PROVE  ListHeld(z, w.objs[k].holds)
  <2>1. ListHeld(w, w.objs[k].holds)
    BY <1>1, <1>8 DEF ObjectsTyped, IsList
  <2> SUFFICES ASSUME NEW i \in 1..Len(w.objs[k].holds),
                      w.objs[k].holds[i] \in DOMAIN z.objs
               PROVE  z.objs[w.objs[k].holds[i]].type = "Var"
    BY <2>1 DEF ListHeld
  <2>2. /\ w.objs[k].holds[i] \in DOMAIN w.objs
        /\ w.objs[w.objs[k].holds[i]].type = "Var"
    BY <1>1, <1>8, HeldIsThere
  <2> QED BY <1>2, <1>4, <2>2
<1>9. ListHeld(z, Append(items, s))
  <2>1. ListHeld(z, items)
    BY <1>2, <1>8 DEF items, IsList
  <2> SUFFICES ASSUME NEW i \in 1..(m + 1)
               PROVE  /\ Append(items, s)[i] \in Slot
                      /\ Append(items, s)[i] \in DOMAIN z.objs =>
                           z.objs[Append(items, s)[i]].type = "Var"
    BY <1>6 DEF ListHeld
  <2>2. CASE i = m + 1
    BY <1>4, <1>6, <2>2
  <2>3. CASE i # m + 1
    <3>1. i \in 1..m
      BY <1>3, <2>3
    <3> QED BY <1>6, <2>1, <3>1 DEF ListHeld, m
  <2> QED BY <2>2, <2>3
<1>10. ObjectsTyped(z)
  <2>1. /\ DOMAIN z.objs \subseteq Slot /\ z.leaked \subseteq DOMAIN z.objs
        /\ z.names \in [PyName -> Slot \cup {Other}]
    BY <1>1, <1>4 DEF ObjectsTyped
  <2>2. ASSUME NEW r \in DOMAIN z.objs
        PROVE  /\ IsObject(z.objs[r]) /\ z.objs[r].rc \in Nat
               /\ z.objs[r].type = "Var" => VarHeld(z.objs[r].holds)
               /\ z.objs[r].type = "list" => ListHeld(z, z.objs[r].holds)
    <3>1. CASE r = s
      BY <1>4, <3>1 DEF IsObject, Kind
    <3>2. CASE r = list
      BY <1>2, <1>5, <1>9, <3>2
    <3>3. CASE r # s /\ r # list
      <4>1. z.objs[r] = w.objs[r] /\ r \in DOMAIN w.objs /\ r \in Slot
        BY <1>1, <1>4, <3>3 DEF ObjectsTyped
      <4>2. /\ IsObject(w.objs[r]) /\ w.objs[r].rc \in Nat
            /\ w.objs[r].type = "Var" => VarHeld(w.objs[r].holds)
        BY <1>1, <4>1 DEF ObjectsTyped
      <4>3. w.objs[r].type = "list" => ListHeld(z, w.objs[r].holds)
        BY <1>8, <4>1 DEF IsList
      <4> QED BY <4>1, <4>2, <4>3
    <3> QED BY <3>1, <3>2, <3>3
  <2> QED BY <2>1, <2>2 DEF ObjectsTyped
<1> DEFINE p == <<list, m + 1>>
<1>11. ASSUME NEW r \in Slot
       PROVE  /\ PlacesOf(z, r) = IF r = s THEN PlacesOf(w, r) \cup {p} ELSE PlacesOf(w, r)
              /\ p \notin PlacesOf(w, r)
  <2>1. p \notin PlacesOf(w, r)
    BY <1>3 DEF PlacesOf, m, items
  <2>2. p \in PlacesOf(z, r) <=> r = s
    BY <1>2, <1>3, <1>5, <1>6, <1>7 DEF PlacesOf, IsList
  <2>3. ASSUME NEW y, y # p
        PROVE  y \in PlacesOf(z, r) <=> y \in PlacesOf(w, r)
    <3>1. CASE y \in Slot \X Nat /\ y[1] = list
      <4>1. y[2] # m + 1
        BY <2>3, <3>1
      <4>2. y[2] \in 1..(m + 1) <=> y[2] \in 1..m
        BY <1>3, <3>1, <4>1
      <4>3. y \in PlacesOf(z, r) <=> /\ y[2] \in 1..(m + 1) /\ Append(items, s)[y[2]] = r
        BY <1>2, <1>5, <1>6, <1>7, <3>1 DEF PlacesOf, IsList
      <4>4. y \in PlacesOf(w, r) <=> y[2] \in 1..m /\ items[y[2]] = r
        BY <1>2, <3>1 DEF PlacesOf, IsList, items, m
      <4> QED BY <1>6, <4>2, <4>3, <4>4
    <3>2. CASE y \in Slot \X Nat /\ y[1] # list
      BY <1>7, <3>2 DEF PlacesOf
    <3>3. CASE y \notin Slot \X Nat
      BY <3>3 DEF PlacesOf
    <3> QED BY <3>1, <3>2, <3>3
  <2> HIDE DEF p
  <2> QED BY <2>1, <2>2, <2>3
<1> HIDE DEF p
<1>12. Counted(z, e, At(z))
  <2> SUFFICES ASSUME NEW r \in Slot
               PROVE  /\ IsFiniteSet(At(z)[r]) /\ PlacesOf(z, r) \subseteq At(z)[r]
                      /\ r \in DOMAIN z.objs \ z.leaked =>
                           z.objs[r].rc = Total(z, e, At(z), r) /\ Total(z, e, At(z), r) # 0
                      /\ r \notin DOMAIN z.objs \ z.leaked => Total(z, e, At(z), r) = 0
    BY DEF Counted
  <2>1. At(z)[r] = PlacesOf(z, r) /\ At(w)[r] = PlacesOf(w, r)
    BY DEF At
  <2>2. /\ IsFiniteSet(At(w)[r])
        /\ r \in DOMAIN w.objs \ w.leaked =>
             w.objs[r].rc = Total(w, e, At(w), r) /\ Total(w, e, At(w), r) # 0
        /\ r \notin DOMAIN w.objs \ w.leaked => Total(w, e, At(w), r) = 0
    BY <1>1 DEF Counted
  <2>3. /\ Cardinality(NamesOf(w, r)) \in Nat /\ Cardinality(At(w)[r]) \in Nat
        /\ e[r] \in Nat /\ NamesOf(z, r) = NamesOf(w, r)
    BY <1>4, <2>2, TotalNat DEF NamesOf
  <2>4. CASE r = s
    <3>1. IsFiniteSet(At(z)[r]) /\ Cardinality(At(z)[r]) = Cardinality(At(w)[r]) + 1
      BY <1>11, <2>1, <2>2, <2>4, FS_AddElement
    <3>2. Total(w, e, At(w), r) = 0 /\ s \in DOMAIN z.objs \ z.leaked
      BY <1>1, <1>4, <2>2, <2>4 DEF ObjectsTyped
    <3>3. Total(z, e, At(z), r) = 1
      BY <2>3, <3>1, <3>2 DEF Total
    <3> QED BY <1>4, <2>1, <2>4, <3>1, <3>2, <3>3
  <2>5. CASE r # s
    <3>1. At(z)[r] = At(w)[r]
      BY <1>11, <2>1, <2>5
    <3>2. Total(z, e, At(z), r) = Total(w, e, At(w), r)
      BY <2>3, <3>1 DEF Total
    <3> QED BY <1>2, <1>4, <1>5, <2>1, <2>2, <2>5, <3>1, <3>2
  <2> QED BY <2>4, <2>5
<1> QED
  BY <1>2, <1>7, <1>10, <1>12 DEF Good, Bal, Appended

(* A loop that lists attributes, as AppendAll goes through it. *)
IsListing(w, list, v, made, n) ==
  made = [i \in 0..n |->
            IF i = 0 THEN w
            ELSE AppendTo(made[i - 1], list, ListedAttr(v, Nth(DOMAIN v.attrs, i)))]

(* It can be gone through any number of times. *)
LEMMA ListingExists ==
  ASSUME NEW w, NEW list, NEW v
  PROVE  \A n \in Nat : \E made : IsListing(w, list, v, made, n)
<1> DEFINE S == {n \in Nat : \E made : IsListing(w, list, v, made, n)}
           A(z, i) == AppendTo(z, list, ListedAttr(v, Nth(DOMAIN v.attrs, i)))
<1>1. 0 \in S
  <2> DEFINE f == [i \in 0..0 |-> w]
  <2>1. IsListing(w, list, v, f, 0)
    BY DEF IsListing
  <2> QED BY <2>1
<1>2. ASSUME NEW n \in Nat, n \in S
      PROVE  n + 1 \in S
  <2>1. PICK f : IsListing(w, list, v, f, n)
    BY <1>2
  <2> DEFINE g == [i \in 0..(n + 1) |-> IF i = n + 1 THEN A(f[n], n + 1) ELSE f[i]]
  <2>2. \A i \in 0..(n + 1) : g[i] = IF i = 0 THEN w ELSE A(g[i - 1], i)
    <3> SUFFICES ASSUME NEW i \in 0..(n + 1)
                 PROVE  g[i] = IF i = 0 THEN w ELSE A(g[i - 1], i)
      OBVIOUS
    <3>1. CASE i = n + 1
      <4>1. i - 1 = n /\ i # 0 /\ i - 1 \in 0..(n + 1) /\ g[i - 1] = f[n]
        BY <3>1
      <4> QED BY <3>1, <4>1
    <3>2. CASE i # n + 1
      <4>1. i \in 0..n /\ (i # 0 => i - 1 \in 0..n)
        BY <3>2
      <4>2. g[i] = f[i] /\ (i # 0 => g[i - 1] = f[i - 1])
        BY <4>1
      <4>3. f[i] = IF i = 0 THEN w ELSE A(f[i - 1], i)
        BY <2>1, <4>1 DEF IsListing
      <4> QED BY <4>1, <4>2, <4>3
    <3> QED BY <3>1, <3>2
  <2>3. IsListing(w, list, v, g, n + 1)
    BY <2>2 DEF IsListing
  <2> QED BY <2>3
<1> HIDE DEF S
<1>3. Nat \subseteq S
  BY <1>1, <1>2, NatSetInduction
<1> QED
  BY <1>3 DEF S

(* Addresses are finitely many. *)
LEMMA FreeSlotsFinite ==
  ASSUME NEW w
  PROVE  IsFiniteSet(FreeSlots(w)) /\ Cardinality(FreeSlots(w)) \in Nat
<1>1. IsFiniteSet(Slot) /\ FreeSlots(w) \subseteq Slot
  <2>1. 1 \in Int /\ MaxObjects \in Int
    BY ObjectsAssumption
  <2>2. IsFiniteSet(1..MaxObjects)
    BY <2>1, FS_Interval
  <2> QED BY <2>2 DEF Slot, FreeSlots
<1> QED
  BY <1>1, FS_Subset, FS_CardinalityType

(* A list of all attributes keeps the count, while there are addresses for them. *)
LEMMA AppendAllIsGood ==
  ASSUME NEW w, NEW e \in Pending, NEW list, NEW v, Good(w, e), ~w.crashed,
         IsList(w, list), IsFiniteSet(DOMAIN v.attrs),
         Cardinality(DOMAIN v.attrs) <= Cardinality(FreeSlots(w))
  PROVE  Good(AppendAll(w, list, v), e) /\ ~AppendAll(w, list, v).crashed
<1> DEFINE m == Cardinality(DOMAIN v.attrs)
           made == CHOOSE made : IsListing(w, list, v, made, m)
           room == Cardinality(FreeSlots(w))
<1>1. m \in Nat /\ room \in Nat /\ m <= room
  BY FreeSlotsFinite, FS_CardinalityType
<1>2. IsListing(w, list, v, made, m)
  <2> HIDE DEF m
  <2> QED BY <1>1, ListingExists
<1>3. AppendAll(w, list, v) = made[m]
  BY DEF AppendAll, IsListing
<1> HIDE DEF made, m, room
<1> DEFINE Kept(z, i) == /\ Good(z, e) /\ ~z.crashed /\ IsList(z, list)
                         /\ Cardinality(FreeSlots(z)) = room - i
           S == {i \in Nat : i <= m => Kept(made[i], i)}
<1>4. 0 \in S
  <2>1. made[0] = w
    BY <1>1, <1>2 DEF IsListing
  <2>2. Kept(w, 0)
    BY <1>1 DEF room
  <2> HIDE DEF Kept
  <2> QED BY <2>1, <2>2
<1>5. ASSUME NEW i \in Nat, i \in S
      PROVE  i + 1 \in S
  <2> SUFFICES ASSUME i + 1 <= m PROVE Kept(made[i + 1], i + 1)
    OBVIOUS
  <2>1. Kept(made[i], i)
    <3> HIDE DEF Kept
    <3> QED BY <1>1, <1>5
  <2>2. i + 1 \in 0..m /\ i + 1 # 0 /\ (i + 1) - 1 = i
    BY <1>1
  <2> DEFINE y == made[i]
             a == ListedAttr(v, Nth(DOMAIN v.attrs, i + 1))
             z == AppendTo(y, list, a)
             s == FirstFree(y)
  <2>3. made[i + 1] = z
    BY <1>2, <2>2 DEF IsListing
  <2>4. VarHeld(a)
    <3>1. IsFiniteSet(DOMAIN NoAttrs)
      BY FS_EmptySet DEF NoAttrs
    <3> QED BY <3>1 DEF VarHeld, ListedAttr, Variable
  <2> HIDE DEF a, y
  <2>5. Good(y, e) /\ ~y.crashed /\ IsList(y, list) /\ Cardinality(FreeSlots(y)) = room - i
    BY <2>1 DEF y
  <2>6. FreeSlots(y) # {}
    <3>1. Cardinality(FreeSlots(y)) # 0
      BY <1>1, <2>5
    <3> QED BY <3>1, FS_EmptySet
  <2>7. s \in Slot \ DOMAIN y.objs
    BY <2>6, FirstFreeIsFree
  <2>8. Appended(y, list, a, s, z)
    BY <2>5, <2>6, AppendToIs DEF Good, Bal, IsList
  <2> HIDE DEF s, z
  <2>9. Good(z, e) /\ IsList(z, list)
    BY <2>4, <2>5, <2>7, <2>8, AppendIsGood
  <2>10. ~z.crashed /\ FreeSlots(z) = FreeSlots(y) \ {s} /\ s \in FreeSlots(y)
    BY <2>5, <2>7, <2>8 DEF Appended, FreeSlots
  <2>11. Cardinality(FreeSlots(z)) = room - (i + 1)
    <3>1. Cardinality(FreeSlots(z)) = Cardinality(FreeSlots(y)) - 1
      BY <2>10, FreeSlotsFinite, FS_RemoveElement
    <3> QED BY <1>1, <2>5, <3>1
  <2> QED BY <2>3, <2>9, <2>10, <2>11
<1> HIDE DEF S
<1>6. Nat \subseteq S
  BY <1>4, <1>5, NatSetInduction
<1>7. Kept(made[m], m)
  <2> HIDE DEF Kept
  <2> QED BY <1>1, <1>6 DEF S
<1> QED
  BY <1>3, <1>7

(* What is constructed in a variable, or given to it, counts no reference. *)
LEMMA ConstructIsGood ==
  ASSUME NEW w, NEW e \in Pending, NEW s, NEW v, Good(w, e), ~w.crashed,
         s \in DOMAIN w.objs, w.objs[s].type = "Var", VarHeld(v)
  PROVE  Good(Construct(w, s, v), e) /\ ~Construct(w, s, v).crashed
<1> DEFINE z == Construct(w, s, v)
<1>1. IsWorld(w) /\ ObjectsTyped(w) /\ Counted(w, e, At(w))
  BY DEF Good, Bal
<1>2. /\ IsWorld(z) /\ z.objs = [w.objs EXCEPT ![s].holds = v] /\ z.names = w.names
      /\ z.leaked = w.leaked /\ z.crashed = w.crashed
  BY <1>1 DEF IsWorld, Construct
<1> HIDE DEF z
<1>3. IsObject(w.objs[s]) /\ w.objs[s].rc \in Nat
  BY <1>1 DEF ObjectsTyped
<1>4. z.objs[s] = [w.objs[s] EXCEPT !.holds = v]
  BY <1>2
<1>5. /\ DOMAIN z.objs = DOMAIN w.objs
      /\ \A r \in DOMAIN w.objs : r # s => z.objs[r] = w.objs[r]
      /\ IsObject(z.objs[s]) /\ z.objs[s].type = "Var" /\ z.objs[s].holds = v
      /\ z.objs[s].rc = w.objs[s].rc
  BY <1>2, <1>3, <1>4 DEF IsObject
<1>6. ObjectsTyped(z)
  <2>1. \A list : ListHeld(w, list) => ListHeld(z, list)
    BY <1>5 DEF ListHeld
  <2>2. ASSUME NEW r \in DOMAIN z.objs
        PROVE  /\ IsObject(z.objs[r]) /\ z.objs[r].rc \in Nat
               /\ z.objs[r].type = "Var" => VarHeld(z.objs[r].holds)
               /\ z.objs[r].type = "list" => ListHeld(z, z.objs[r].holds)
    BY <1>1, <1>3, <1>5, <2>1 DEF ObjectsTyped
  <2> QED BY <1>1, <1>2, <1>5, <2>2 DEF ObjectsTyped
<1>7. At(z) = At(w) /\ \A r \in Slot : PlacesOf(z, r) = PlacesOf(w, r)
  <2>1. \A l \in Slot : /\ IsList(w, l) <=> IsList(z, l)
                        /\ IsList(w, l) => w.objs[l].holds = z.objs[l].holds
    BY <1>5 DEF IsList
  <2>2. \A r \in Slot : PlacesOf(z, r) = PlacesOf(w, r)
    BY <2>1, SameLists
  <2> QED BY <2>2 DEF At
<1>8. \A r \in Slot : Total(z, e, At(z), r) = Total(w, e, At(w), r)
  BY <1>2, <1>7 DEF Total, NamesOf
<1>9. Counted(z, e, At(z))
  <2>1. ASSUME NEW r \in DOMAIN w.objs PROVE z.objs[r].rc = w.objs[r].rc
    BY <1>5
  <2> QED BY <1>1, <1>2, <1>5, <1>7, <1>8, <2>1 DEF Counted
<1> QED
  BY <1>2, <1>6, <1>9 DEF Good, Bal, z

(* What a name stands for after BindNew counts that name. *)
LEMMA BindNewIsGood ==
  ASSUME NEW w, NEW n \in PyName, NEW type \in Kind, NEW holds, FreeSlots(w) # {},
         Good(w, Zero), ~w.crashed, type = "Var" => VarHeld(holds), type # "list"
  PROVE  Good(BindNew(w, n, type, holds), Zero)
<1> DEFINE s == FirstFree(w)
           a == Alloc(w, type, holds)
<1>1. Zero \in Pending
  BY DEF Zero, Pending
<1>2. Good(a, Plus(Zero, s)) /\ s \in Slot /\ ~a.crashed
  BY <1>1, AllocCounts
<1>3. BindNew(w, n, type, holds) = Bind(a, n, s)
  BY DEF BindNew
<1> HIDE DEF a, s
<1>4. Good(a, Extra(Zero, s))
  BY <1>2, ObjectsAssumption DEF Extra
<1> QED
  BY <1>1, <1>2, <1>3, <1>4, BindIsGood

(* The inductive invariant: no reference is on its way between statements. *)
ObjectsInv == Good(World, Zero)

(* The world is made of its variables. *)
LEMMA WorldIs ==
  /\ IsWorld(World) /\ World.objs = objs /\ World.names = names
  /\ World.leaked = leaked /\ World.crashed = crashed
BY DEF World, IsWorld

(* A good world that comes about keeps the invariant. *)
LEMMA BecomesGood ==
  ASSUME NEW w, Good(w, Zero), Becomes(w)
  PROVE  ObjectsInv'
<1>1. World' = w
  BY DEF Becomes, World, Good, Bal, IsWorld
<1>2. Good(World', Zero)
  BY <1>1
<1> QED
  BY <1>2 DEF ObjectsInv

(* So does one where nothing of the module changed. *)
LEMMA SameWorldGood ==
  ASSUME ObjectsInv, UNCHANGED <<objs, names, leaked, crashed>>
  PROVE  ObjectsInv'
<1>1. World' = World
  BY DEF World
<1>2. Good(World', Zero)
  BY <1>1 DEF ObjectsInv
<1> QED
  BY <1>2 DEF ObjectsInv

(* Whether one was is changed, and nothing else. *)
LEMMA CrashedIs ==
  ASSUME NEW w, NEW x, IsWorld(w)
  PROVE  IsWorld([w EXCEPT !.crashed = x]) /\ [w EXCEPT !.crashed = x].crashed = x
BY DEF IsWorld

(* After a null pointer was followed nothing is said. *)
LEMMA CrashIsGood ==
  ASSUME NEW w, IsWorld(w)
  PROVE  Good([w EXCEPT !.crashed = TRUE], Zero)
<1> DEFINE z == [w EXCEPT !.crashed = TRUE]
<1>1. IsWorld(z) /\ z.crashed = TRUE
  BY CrashedIs, Zenon
<1> HIDE DEF z
<1> QED
  BY <1>1 DEF Good, Bal, z

(* What the invariant says between statements. *)
LEMMA InvIs ==
  ASSUME ObjectsInv, ~crashed
  PROVE  /\ Zero \in Pending /\ Good(World, Zero) /\ ~World.crashed
         /\ ObjectsTyped(World) /\ Counted(World, Zero, At(World))
         /\ World.objs = objs /\ World.names = names /\ IsWorld(World)
BY WorldIs DEF ObjectsInv, Good, Bal, Zero, Pending

(* What a name stands for is there, and a variable among it has finitely many
   attributes. *)
LEMMA BoundIsThere ==
  ASSUME ObjectsInv, ~crashed, NEW m \in Bound
  PROVE  /\ names[m] \in Slot /\ names[m] \in DOMAIN objs \ leaked
         /\ IsObject(objs[names[m]]) /\ Here(m) = objs[names[m]]
         /\ Here(m).type = "Var" => VarHeld(Here(m).holds)
<1> DEFINE s == names[m]
<1>1. /\ Zero \in Pending /\ ObjectsTyped(World) /\ Counted(World, Zero, At(World))
      /\ World.objs = objs /\ World.names = names /\ World.leaked = leaked
  BY InvIs, WorldIs
<1>2. s \in Slot /\ m \in PyName
  BY <1>1 DEF Bound, ObjectsTyped
<1>3. m \in NamesOf(World, s) /\ IsFiniteSet(NamesOf(World, s))
  BY <1>1, <1>2, NamesFinite DEF NamesOf
<1>4. Cardinality(NamesOf(World, s)) # 0
  BY <1>3, FS_EmptySet
<1>5. IsFiniteSet(At(World)[s])
  BY <1>1, <1>2 DEF Counted
<1> HIDE DEF s
<1>6. Total(World, Zero, At(World), s) # 0
  <2>1. /\ Cardinality(NamesOf(World, s)) \in Nat /\ Cardinality(At(World)[s]) \in Nat
        /\ Zero[s] \in Nat
    BY <1>1, <1>2, <1>5, TotalNat
  <2> QED BY <1>4, <2>1 DEF Total
<1>7. s \in DOMAIN objs \ leaked
  BY <1>1, <1>2, <1>6 DEF Counted
<1>8. IsObject(objs[s]) /\ (objs[s].type = "Var" => VarHeld(objs[s].holds))
  BY <1>1, <1>7 DEF ObjectsTyped
<1> QED
  BY <1>2, <1>7, <1>8 DEF s, Here

(* A name is bound to what is new. *)
LEMMA BindNewStep ==
  ASSUME ObjectsInv, ~crashed, FreeSlots(World) # {}, NEW n \in PyName, NEW type \in Kind,
         NEW holds, type = "Var" => VarHeld(holds), type # "list",
         Becomes(BindNew(World, n, type, holds))
  PROVE  ObjectsInv'
<1>1. Good(BindNew(World, n, type, holds), Zero)
  BY InvIs, BindNewIsGood
<1> QED
  BY <1>1, BecomesGood

(* Or to an object that a name or a list has already. *)
LEMMA BindOldStep ==
  ASSUME ObjectsInv, ~crashed, NEW n \in PyName, NEW s \in Slot,
         s \in DOMAIN objs \ leaked, Becomes(Bind(Incref(World, s), n, s))
  PROVE  ObjectsInv'
<1>1. Good(Incref(World, s), Plus(Zero, s))
  BY InvIs, WorldIs, IncrefCounts
<1>2. ~Incref(World, s).crashed
  BY WorldIs DEF Incref, IsWorld
<1>3. Good(Incref(World, s), Extra(Zero, s))
  BY <1>1, ObjectsAssumption DEF Extra
<1>4. Good(Bind(Incref(World, s), n, s), Zero)
  BY <1>2, <1>3, InvIs, BindIsGood
<1> QED
  BY <1>4, BecomesGood

(* Or to something that is not of the module. *)
LEMMA BindOtherStep ==
  ASSUME ObjectsInv, ~crashed, NEW n \in PyName, Becomes(Bind(World, n, Other))
  PROVE  ObjectsInv'
<1>1. Good(World, Extra(Zero, Other))
  BY InvIs DEF Extra
<1>2. Good(Bind(World, n, Other), Zero)
  BY <1>1, InvIs, BindIsGood
<1> QED
  BY <1>2, BecomesGood

(* A null pointer is followed. *)
LEMMA CrashStep ==
  ASSUME ObjectsInv, Becomes([World EXCEPT !.crashed = TRUE])
  PROVE  ObjectsInv'
BY WorldIs, CrashIsGood, BecomesGood

(* Loading a table and asking it keep the count. *)
LEMMA TableSteps ==
  ASSUME ObjectsInv, ~crashed, FreeSlots(World) # {}, NEW n \in PyName
  PROVE  /\ \A t : LoadTable(n, t) => ObjectsInv'
         /\ \A format, name : GetTable(n, format, name) => ObjectsInv'
         /\ \A m, code : Subscript(n, m, code) => ObjectsInv'
         /\ \A type : MakeBare(n, type) => ObjectsInv'
         /\ \A m : GetInfo(n, m) => ObjectsInv'
<1>1. \A t : LoadTable(n, t) => ObjectsInv'
  BY BindNewStep DEF LoadTable, Kind
<1>2. \A format, name : GetTable(n, format, name) => ObjectsInv'
  BY BindNewStep DEF GetTable, Kind
<1>3. \A m, code : Subscript(n, m, code) => ObjectsInv'
  BY BindNewStep, CrashStep DEF Subscript, Kind
<1>4. \A type : MakeBare(n, type) => ObjectsInv'
  <2> SUFFICES ASSUME NEW type, MakeBare(n, type) PROVE ObjectsInv'
    OBVIOUS
  <2>1. type \in Kind /\ type # "list" /\ VarHeld(NullPointer)
    BY DEF MakeBare, Kind, VarHeld
  <2> QED BY <2>1, BindNewStep DEF MakeBare
<1>5. \A m : GetInfo(n, m) => ObjectsInv'
  BY BindNewStep, CrashStep DEF GetInfo, Kind
<1> QED
  BY <1>1, <1>2, <1>3, <1>4, <1>5

(* So do names, items of lists, defaults and del. *)
LEMMA NameSteps ==
  ASSUME ObjectsInv, ~crashed, NEW n \in PyName
  PROVE  /\ \A m : Name(n, m) => ObjectsInv'
         /\ \A m, k : GetOr(n, m, k) => ObjectsInv'
         /\ \A m, i : Item(n, m, i) => ObjectsInv'
         /\ Read(n) => ObjectsInv'
         /\ Del(n) => ObjectsInv'
<1>1. \A m : Name(n, m) => ObjectsInv'
  BY BoundIsThere, BindOldStep DEF Name
<1>2. \A m, k : GetOr(n, m, k) => ObjectsInv'
  BY BoundIsThere, BindOldStep, BindOtherStep DEF GetOr
<1>3. \A m, i : Item(n, m, i) => ObjectsInv'
  <2> SUFFICES ASSUME NEW m, NEW i, Item(n, m, i) PROVE ObjectsInv'
    OBVIOUS
  <2> DEFINE l == names[m]
             s == objs[l].holds[i]
  <2>1. m \in Bound /\ Here(m).type = "list" /\ i \in DOMAIN Here(m).holds
        /\ Becomes(Bind(Incref(World, Here(m).holds[i]), n, Here(m).holds[i]))
    BY DEF Item, Of, Here
  <2>2. l \in Slot /\ Here(m) = objs[l] /\ l \in DOMAIN objs
    BY <2>1, BoundIsThere
  <2>3. /\ Zero \in Pending /\ ObjectsTyped(World) /\ Counted(World, Zero, At(World))
        /\ World.objs = objs /\ World.leaked = leaked
    BY InvIs, WorldIs
  <2>4. IsList(World, l) /\ ListHeld(World, objs[l].holds)
    BY <2>1, <2>2, <2>3 DEF IsList, ObjectsTyped
  <2>5. i \in 1..Len(objs[l].holds)
    BY <2>1, <2>2, <2>4 DEF ListHeld, IsSequence
  <2>6. s \in DOMAIN objs \ leaked
    BY <2>2, <2>3, <2>4, <2>5, HeldIsThere
  <2>7. s \in Slot
    BY <2>4, <2>5 DEF ListHeld
  <2> QED BY <2>1, <2>2, <2>6, <2>7, BindOldStep
<1>4. Read(n) => ObjectsInv'
  BY CrashStep DEF Read
<1>5. Del(n) => ObjectsInv'
  BY BindOtherStep DEF Del
<1> QED
  BY <1>1, <1>2, <1>3, <1>4, <1>5

(* Fewer attributes are finitely many too. *)
LEMMA OnlyHeld ==
  ASSUME NEW f, NEW keys, IsFiniteSet(DOMAIN f)
  PROVE  IsFiniteSet(DOMAIN Only(f, keys))
<1>1. DOMAIN Only(f, keys) \subseteq DOMAIN f
  BY DEF Only
<1> QED
  BY <1>1, FS_Subset

(* What Variable makes may be held, when its attributes are finitely many. *)
LEMMA VariableHeld ==
  ASSUME NEW p, NEW val, NEW attrs, IsFiniteSet(DOMAIN attrs)
  PROVE  VarHeld(Variable(p, val, attrs))
BY DEF VarHeld, Variable

(* A variable with no attributes has finitely many. *)
LEMMA BareHeld ==
  ASSUME NEW p, NEW val
  PROVE  VarHeld(Variable(p, val, NoAttrs))
<1>1. IsFiniteSet(DOMAIN NoAttrs)
  BY FS_EmptySet DEF NoAttrs
<1> QED
  BY <1>1, VariableHeld

(* Copying an attribute keeps the count. *)
LEMMA EnqaStep ==
  ASSUME ObjectsInv, ~crashed, FreeSlots(World) # {}, NEW n \in PyName, NEW m, NEW code,
         Enqa(n, m, code)
  PROVE  ObjectsInv'
<1> DEFINE v == Here(m).holds
<1>1. m \in Bound /\ Here(m).type = "Var" /\ v # NullPointer
  BY DEF Enqa, Usable, Of, Here
<1>2. VarHeld(v)
  BY <1>1, BoundIsThere
<1>3. CASE code \in DOMAIN v.attrs
  <2>1. VarHeld(CopyOfAttr(v, code))
    <3>1. IsFiniteSet(DOMAIN v.attrs)
      BY <1>1, <1>2 DEF VarHeld
    <3> HIDE DEF v
    <3> QED BY <3>1, OnlyHeld, VariableHeld DEF CopyOfAttr
  <2>2. Becomes(BindNew(World, n, "Var", CopyOfAttr(v, code)))
    BY <1>3 DEF Enqa
  <2> QED BY <2>1, <2>2, BindNewStep DEF Kind
<1>4. CASE code \notin DOMAIN v.attrs
  BY <1>4, BindOtherStep DEF Enqa
<1> QED
  BY <1>3, <1>4

(* What is changed in a variable that a name stands for keeps the count. *)
LEMMA ChangeStep ==
  ASSUME ObjectsInv, ~crashed, NEW m, NEW attrs, Usable(m), IsFiniteSet(DOMAIN attrs),
         Becomes([World EXCEPT !.objs[names[m]].holds.attrs = attrs])
  PROVE  ObjectsInv'
<1> DEFINE s == names[m]
           v == Here(m).holds
           u == [v EXCEPT !.attrs = attrs]
           z == [World EXCEPT !.objs[s].holds.attrs = attrs]
<1>1. m \in Bound /\ Here(m).type = "Var" /\ v # NullPointer
  BY DEF Usable, Of, Here
<1>2. VarHeld(v) /\ s \in DOMAIN objs /\ Here(m) = objs[s]
  BY <1>1, BoundIsThere
<1>3. v = Variable(v.info, v.val, v.attrs)
  BY <1>1, <1>2 DEF VarHeld
<1>4. u = Variable(v.info, v.val, attrs)
  <2> HIDE DEF v
  <2> QED BY <1>3 DEF Variable
<1>5. VarHeld(u)
  BY <1>4, VariableHeld
<1>6. /\ Good(World, Zero) /\ Zero \in Pending /\ ~World.crashed /\ World.objs = objs
      /\ IsWorld(World)
  BY InvIs
<1>7. z = Construct(World, s, u)
  <2>1. v = World.objs[s].holds
    BY <1>2, <1>6
  <2>2. z = [World EXCEPT !.objs[s].holds = [World.objs[s].holds EXCEPT !.attrs = attrs]]
    OBVIOUS
  <2> QED BY <2>1, <2>2 DEF Construct
<1> HIDE DEF u, v, z
<1>8. Good(z, Zero)
  BY <1>1, <1>2, <1>5, <1>6, <1>7, ConstructIsGood
<1> QED
  BY <1>8, BecomesGood DEF z

(* So setting and unsetting an attribute. *)
LEMMA AttrSteps ==
  ASSUME ObjectsInv, ~crashed, NEW m
  PROVE  /\ \A k : Seta(m, k) => ObjectsInv'
         /\ \A code : Unseta(m, code) => ObjectsInv'
<1> DEFINE s == names[m]
           old == World.objs[s].holds.attrs
<1>1. ASSUME Usable(m) PROVE IsFiniteSet(DOMAIN old)
  <2>1. m \in Bound /\ Here(m).type = "Var" /\ Here(m).holds # NullPointer
    BY <1>1 DEF Usable, Of, Here
  <2>2. VarHeld(Here(m).holds) /\ Here(m) = objs[s] /\ World.objs = objs
    BY <2>1, BoundIsThere, InvIs
  <2> QED BY <2>1, <2>2 DEF VarHeld
<1>2. ASSUME NEW k, Seta(m, k) PROVE ObjectsInv'
  <2> DEFINE code == CodeAt(Here(k).holds.info)
             attrs == Put(old, code, Bare(Here(k).holds))
  <2>1. Usable(m) /\ Becomes([World EXCEPT !.objs[s].holds.attrs = attrs])
    BY <1>2 DEF Seta
  <2>2. IsFiniteSet(DOMAIN old \cup {code})
    BY <1>1, <2>1, FS_AddElement
  <2>3. IsFiniteSet(DOMAIN attrs)
    BY <2>2 DEF Put
  <2> HIDE DEF attrs
  <2> QED BY <2>1, <2>3, ChangeStep
<1>3. ASSUME NEW code, Unseta(m, code) PROVE ObjectsInv'
  <2> DEFINE attrs == Only(old, DOMAIN old \ {code})
  <2>1. Usable(m) /\ Becomes([World EXCEPT !.objs[s].holds.attrs = attrs])
    BY <1>3 DEF Unseta
  <2>2. IsFiniteSet(DOMAIN attrs)
    BY <1>1, <2>1, OnlyHeld
  <2> HIDE DEF attrs
  <2> QED BY <2>1, <2>2, ChangeStep
<1> QED
  BY <1>2, <1>3

(* What _init may do with a variable at s keeps the count, or crashes. *)
LEMMA InitialisedIsGood ==
  ASSUME NEW w, NEW e \in Pending, NEW s, NEW from, NEW value,
         NEW r \in Initialised(w, s, from, value),
         Good(w, e), ~w.crashed, s \in DOMAIN w.objs, w.objs[s].type = "Var",
         from.type \in Kind, from.type = "Var" => VarHeld(from.holds)
  PROVE  IF r.w.crashed THEN IsWorld(r.w) ELSE Good(r.w, e)
<1>1. IsWorld(w)
  BY DEF Good, Bal
<1>2. CASE from.type \in {"Varinfo", "Var"} /\ from.holds = NullPointer
  <2>1. r \in {[w |-> [w EXCEPT !.crashed = TRUE], raised |-> FALSE]}
    BY <1>2 DEF Initialised
  <2>2. r.w = [w EXCEPT !.crashed = TRUE]
    BY <2>1
  <2>3. IsWorld(r.w) /\ r.w.crashed = TRUE
    BY <1>1, <2>2, CrashedIs, Zenon
  <2> QED BY <2>3
<1>3. CASE from.type = "Varinfo" /\ from.holds # NullPointer
  <2>1. r \in FromInfo(w, s, from.holds, value)
    BY <1>3 DEF Initialised
  <2>2. PICK val : r.w = Construct(w, s, Variable(from.holds, val, NoAttrs))
    BY <2>1 DEF FromInfo
  <2> QED BY <2>2, BareHeld, ConstructIsGood
<1>4. CASE from.type = "Var" /\ from.holds # NullPointer
  <2>1. r \in FromVar(w, s, from.holds)
    BY <1>4 DEF Initialised
  <2>2. r.w = Construct(w, s, from.holds)
    BY <2>1 DEF FromVar
  <2> QED BY <1>4, <2>2, ConstructIsGood
<1>5. CASE from.type \in {"Vartable", "list"}
  <2>1. r \in FromOther(w, s)
    BY <1>5 DEF Initialised
  <2>2. r.w = Construct(w, s, Variable(dummy, Unset, NoAttrs))
    BY <2>1 DEF FromOther
  <2> QED BY <2>2, BareHeld, ConstructIsGood
<1> QED
  BY <1>2, <1>3, <1>4, <1>5 DEF Kind

(* A world that crashed is good. *)
LEMMA CrashedIsGood ==
  ASSUME NEW w, IsWorld(w), w.crashed
  PROVE  Good(w, Zero)
BY DEF Good, Bal

(* What there is after Var is allocated in the world. *)
LEMMA AllocVar ==
  ASSUME ObjectsInv, ~crashed, FreeSlots(World) # {}, NEW v, VarHeld(v)
  PROVE  LET s == FirstFree(World)
             w == Alloc(World, "Var", v)
         IN /\ s \in Slot /\ Good(w, Plus(Zero, s)) /\ ~w.crashed /\ s \notin leaked
            /\ s \in DOMAIN w.objs /\ w.objs[s].type = "Var"
<1> DEFINE s == FirstFree(World)
           w == Alloc(World, "Var", v)
<1>1. Zero \in Pending /\ Good(World, Zero) /\ ~World.crashed /\ ObjectsTyped(World)
  BY InvIs
<1>2. /\ Good(w, Plus(Zero, s)) /\ s \in Slot /\ w.crashed = World.crashed
      /\ Made(World, s, [type |-> "Var", rc |-> 1, holds |-> v], w)
  BY <1>1, AllocCounts DEF Kind
<1> HIDE DEF w, s
<1>3. s \in DOMAIN w.objs /\ w.objs[s].type = "Var" /\ s \notin DOMAIN World.objs
  BY <1>2 DEF Made
<1>4. s \notin leaked
  BY <1>1, <1>3, WorldIs DEF ObjectsTyped
<1> QED
  BY <1>1, <1>2, <1>3, <1>4 DEF w, s

(* Making a variable keeps the count, when _init throws too. *)
LEMMA NewVarStep ==
  ASSUME ObjectsInv, ~crashed, FreeSlots(World) # {}, NEW n \in PyName, NEW m, NEW value,
         NewVar(n, m, value)
  PROVE  ObjectsInv'
<1> DEFINE s == FirstFree(World)
           w == Alloc(World, "Var", NullPointer)
<1>1. /\ s \in Slot /\ Good(w, Plus(Zero, s)) /\ ~w.crashed
      /\ s \in DOMAIN w.objs /\ w.objs[s].type = "Var"
  BY AllocVar DEF VarHeld
<1>2. PICK r \in Initialised(w, s, Here(m), value) :
        Becomes(IF r.w.crashed THEN r.w
                ELSE IF r.raised THEN Decref(r.w, s) ELSE Bind(r.w, n, s))
  BY DEF NewVar
<1>3. m \in Bound
  BY DEF NewVar
<1>4. Here(m).type \in Kind /\ (Here(m).type = "Var" => VarHeld(Here(m).holds))
  BY <1>3, BoundIsThere DEF IsObject
<1>5. Zero \in Pending /\ Plus(Zero, s) \in Pending
  BY <1>1, InvIs, PlusPending
<1> HIDE DEF w, s
<1>6. IF r.w.crashed THEN IsWorld(r.w) ELSE Good(r.w, Plus(Zero, s))
  BY <1>1, <1>2, <1>4, <1>5, InitialisedIsGood
<1>7. CASE r.w.crashed
  BY <1>2, <1>6, <1>7, CrashedIsGood, BecomesGood
<1>8. CASE ~r.w.crashed /\ r.raised
  <2>1. Good(Decref(r.w, s), Zero)
    BY <1>1, <1>5, <1>6, <1>8, DecrefIsGood
  <2> QED BY <1>2, <1>8, <2>1, BecomesGood
<1>9. CASE ~r.w.crashed /\ ~r.raised
  <2>1. Good(r.w, Extra(Zero, s))
    BY <1>1, <1>6, <1>9, ObjectsAssumption DEF Extra
  <2>2. Good(Bind(r.w, n, s), Zero)
    BY <1>1, <1>5, <1>9, <2>1, BindIsGood
  <2> QED BY <1>2, <1>9, <2>2, BecomesGood
<1> QED
  BY <1>7, <1>8, <1>9

(* A variable that is not constructed crashes as it goes. *)
LEMMA NewVarOfNothingStep ==
  ASSUME ObjectsInv, ~crashed, FreeSlots(World) # {}, NewVarOfNothing
  PROVE  ObjectsInv'
<1> DEFINE s == FirstFree(World)
           w == Alloc(World, "Var", NullPointer)
<1>1. s \in Slot /\ Good(w, Plus(Zero, s)) /\ ~w.crashed
  BY AllocVar DEF VarHeld
<1>2. Good(Decref(w, s), Zero)
  BY <1>1, InvIs, DecrefIsGood
<1> QED
  BY <1>2, BecomesGood DEF NewVarOfNothing

(* Constructing a variable again changes no count. *)
LEMMA InitAgainStep ==
  ASSUME ObjectsInv, ~crashed, NEW k, NEW m, NEW value, InitAgain(k, m, value)
  PROVE  ObjectsInv'
<1>1. k \in Bound /\ Here(k).type = "Var" /\ m \in Bound
  BY DEF InitAgain, Of, Here
<1>2. PICK r \in Initialised(World, names[k], Here(m), value) : Becomes(r.w)
  BY DEF InitAgain
<1>3. names[k] \in DOMAIN objs /\ objs[names[k]].type = "Var"
  BY <1>1, BoundIsThere
<1>4. Here(m).type \in Kind /\ (Here(m).type = "Var" => VarHeld(Here(m).holds))
  BY <1>1, BoundIsThere DEF IsObject
<1>5. IF r.w.crashed THEN IsWorld(r.w) ELSE Good(r.w, Zero)
  BY <1>2, <1>3, <1>4, InvIs, InitialisedIsGood
<1>6. Good(r.w, Zero)
  BY <1>5, CrashedIsGood
<1> QED
  BY <1>2, <1>6, BecomesGood

(* A lost object has nobody who refers to it. *)
LEMMA LeakIsGood ==
  ASSUME NEW w, NEW e \in Pending, NEW s \in Slot, Good(w, Plus(e, s)), ~w.crashed,
         s \in DOMAIN w.objs, w.objs[s].rc = 1
  PROVE  Good([w EXCEPT !.leaked = @ \cup {s}], e)
<1> DEFINE z == [w EXCEPT !.leaked = @ \cup {s}]
<1>1. IsWorld(w) /\ ObjectsTyped(w) /\ Counted(w, Plus(e, s), At(w))
  BY DEF Good, Bal
<1>2. /\ IsWorld(z) /\ z.objs = w.objs /\ z.names = w.names
      /\ z.leaked = w.leaked \cup {s} /\ z.crashed = w.crashed
  BY <1>1 DEF IsWorld
<1> HIDE DEF z
<1>3. ObjectsTyped(z)
  <2>1. \A list : ListHeld(w, list) => ListHeld(z, list)
    BY <1>2 DEF ListHeld
  <2> QED BY <1>1, <1>2, <2>1 DEF ObjectsTyped
<1>4. At(z) = At(w) /\ \A r \in Slot : PlacesOf(z, r) = PlacesOf(w, r)
  BY <1>2 DEF At, PlacesOf, IsList
<1>5. ASSUME NEW r \in Slot
      PROVE  /\ IsFiniteSet(At(z)[r]) /\ PlacesOf(z, r) \subseteq At(z)[r]
             /\ r \in DOMAIN z.objs \ z.leaked =>
                  z.objs[r].rc = Total(z, e, At(z), r) /\ Total(z, e, At(z), r) # 0
             /\ r \notin DOMAIN z.objs \ z.leaked => Total(z, e, At(z), r) = 0
  <2>1. /\ IsFiniteSet(At(w)[r]) /\ PlacesOf(w, r) \subseteq At(w)[r]
        /\ r \in DOMAIN w.objs \ w.leaked =>
             w.objs[r].rc = Total(w, Plus(e, s), At(w), r)
               /\ Total(w, Plus(e, s), At(w), r) # 0
        /\ r \notin DOMAIN w.objs \ w.leaked => Total(w, Plus(e, s), At(w), r) = 0
    BY <1>1 DEF Counted
  <2>2. Total(w, Plus(e, s), At(w), r) = IF r = s THEN Total(w, e, At(w), r) + 1
                                         ELSE Total(w, e, At(w), r)
    BY <2>1, TotalPlus
  <2>3. Total(z, e, At(z), r) = Total(w, e, At(w), r) /\ Total(w, e, At(w), r) \in Nat
    BY <1>2, <1>4, <2>1, TotalNat DEF Total, NamesOf
  <2> QED BY <1>2, <1>4, <2>1, <2>2, <2>3
<1>6. Counted(z, e, At(z))
  BY <1>5 DEF Counted
<1> QED
  BY <1>2, <1>3, <1>6 DEF Good, Bal, z

(* A variable that a C function makes is bound, or lost when a constructor throws. *)
LEMMA CreateFromCStep ==
  ASSUME ObjectsInv, ~crashed, FreeSlots(World) # {}, NEW n \in PyName, NEW p, NEW value,
         CreateFromC(n, p, value)
  PROVE  ObjectsInv'
<1> DEFINE s == FirstFree(World)
           Of2(r) == Alloc(World, "Var", Variable(p, r.val, NoAttrs))
<1>1. PICK r \in ValueFromPython(InfoAt(p), Unset, value) :
        Becomes(IF r.raised THEN [Of2(r) EXCEPT !.leaked = @ \cup {s}]
                ELSE Bind(Of2(r), n, s))
  BY DEF CreateFromC
<1> DEFINE v == Variable(p, r.val, NoAttrs)
           w == Alloc(World, "Var", v)
<1>2. VarHeld(v)
  BY BareHeld
<1>3. /\ s \in Slot /\ Good(w, Plus(Zero, s)) /\ ~w.crashed /\ s \in DOMAIN w.objs
  BY <1>2, AllocVar
<1>4. w.objs[s].rc = 1
  BY InvIs, FirstFreeIsFree DEF Alloc, Put, IsWorld
<1>5. Zero \in Pending
  BY InvIs
<1>6. CASE r.raised
  <2>1. Good([w EXCEPT !.leaked = @ \cup {s}], Zero)
    <3> HIDE DEF w, s
    <3> QED BY <1>3, <1>4, <1>5, LeakIsGood
  <2> QED BY <1>1, <1>6, <2>1, BecomesGood
<1>7. CASE ~r.raised
  <2>1. Good(Bind(w, n, s), Zero)
    <3> HIDE DEF w, s
    <3>1. Good(w, Extra(Zero, s))
      BY <1>3, ObjectsAssumption DEF Extra
    <3> QED BY <1>3, <1>5, <3>1, BindIsGood
  <2> QED BY <1>1, <1>7, <2>1, BecomesGood
<1> QED
  BY <1>6, <1>7

(* Listing attributes makes a list and its variables, which count one each. *)
LEMMA GetAttrsStep ==
  ASSUME ObjectsInv, ~crashed, FreeSlots(World) # {}, NEW n \in PyName, NEW m,
         GetAttrs(n, m)
  PROVE  ObjectsInv'
<1> DEFINE v == Here(m).holds
           list == FirstFree(World)
           w == Alloc(World, "list", <<>>)
           z == AppendAll(w, list, v)
<1>1. m \in Bound /\ Here(m).type = "Var" /\ v # NullPointer
  BY DEF GetAttrs, Usable, Of, Here
<1>2. IsFiniteSet(DOMAIN v.attrs)
  BY <1>1, BoundIsThere DEF VarHeld
<1>3. /\ Cardinality(FreeSlots(World)) > Cardinality(DOMAIN v.attrs)
      /\ Becomes(Bind(z, n, list))
  BY DEF GetAttrs
<1>4. Zero \in Pending /\ Good(World, Zero) /\ ~World.crashed
  BY InvIs
<1>5. /\ Good(w, Plus(Zero, list)) /\ list \in Slot /\ ~w.crashed
      /\ Made(World, list, [type |-> "list", rc |-> 1, holds |-> <<>>], w)
  BY <1>4, AllocCounts DEF Kind
<1> HIDE DEF w, list, v
<1>6. IsList(w, list) /\ FreeSlots(w) = FreeSlots(World) \ {list}
      /\ list \in FreeSlots(World)
  BY <1>5 DEF Made, IsList, FreeSlots
<1>7. Cardinality(DOMAIN v.attrs) <= Cardinality(FreeSlots(w))
  <2>1. Cardinality(FreeSlots(w)) = Cardinality(FreeSlots(World)) - 1
    BY <1>6, FreeSlotsFinite, FS_RemoveElement
  <2>2. Cardinality(DOMAIN v.attrs) \in Nat /\ Cardinality(FreeSlots(World)) \in Nat
    BY <1>2, FreeSlotsFinite, FS_CardinalityType
  <2> QED BY <1>3, <2>1, <2>2
<1>8. Good(z, Plus(Zero, list)) /\ ~z.crashed
  BY <1>2, <1>4, <1>5, <1>6, <1>7, PlusPending, AppendAllIsGood
<1> HIDE DEF z
<1>9. Good(z, Extra(Zero, list))
  BY <1>5, <1>8, ObjectsAssumption DEF Extra
<1>10. Good(Bind(z, n, list), Zero)
  BY <1>4, <1>5, <1>8, <1>9, BindIsGood
<1> QED
  BY <1>3, <1>10, BecomesGood

(* There is no object before the module is imported. *)
LEMMA ObjectsBegin == Init => ObjectsInv
<1> SUFFICES ASSUME Init PROVE ObjectsInv
  OBVIOUS
<1>1. /\ IsWorld(World) /\ World.objs = <<>> /\ World.names = [n \in PyName |-> Other]
      /\ World.leaked = {} /\ World.crashed = FALSE
  BY WorldIs DEF Init
<1>2. ObjectsTyped(World)
  BY <1>1 DEF ObjectsTyped
<1>3. ASSUME NEW s \in Slot
      PROVE  At(World)[s] = {} /\ NamesOf(World, s) = {} /\ PlacesOf(World, s) = {}
             /\ Zero[s] = 0
  BY <1>1, ObjectsAssumption DEF At, PlacesOf, IsList, NamesOf, Zero
<1>4. IsFiniteSet({}) /\ Cardinality({}) = 0
  BY FS_EmptySet
<1>5. \A s \in Slot : Total(World, Zero, At(World), s) = 0
  BY <1>3, <1>4 DEF Total
<1>6. Counted(World, Zero, At(World))
  <2>1. DOMAIN World.objs = {}
    BY <1>1
  <2>2. \A s \in Slot : IsFiniteSet(At(World)[s]) /\ PlacesOf(World, s) \subseteq At(World)[s]
    BY <1>3, <1>4
  <2> QED BY <1>5, <2>1, <2>2 DEF Counted
<1> QED
  BY <1>1, <1>2, <1>6 DEF ObjectsInv, Good, Bal

(* Every statement keeps the count. *)
LEMMA ObjectsStep == ObjectsInv /\ [Next]_vars => ObjectsInv'
<1> SUFFICES ASSUME ObjectsInv, [Next]_vars PROVE ObjectsInv'
  OBVIOUS
<1>1. CASE NextLibrary /\ UNCHANGED python
  BY <1>1, SameWorldGood DEF python
<1>2. CASE Import
  BY <1>2, SameWorldGood DEF Import
<1>3. ASSUME ~crashed, FreeSlots(World) # {}, NEW n \in PyName, Making(n)
      PROVE  ObjectsInv'
  BY <1>3, TableSteps, EnqaStep, GetAttrsStep, NewVarStep, CreateFromCStep DEF Making
<1>4. ASSUME ~crashed, FreeSlots(World) # {}, NewVarOfNothing
      PROVE  ObjectsInv'
  BY <1>4, NewVarOfNothingStep
<1>5. ASSUME ~crashed, NEW n \in PyName, Using(n)
      PROVE  ObjectsInv'
  BY <1>5, NameSteps, AttrSteps, InitAgainStep DEF Using
<1>6. CASE UNCHANGED vars
  BY <1>6, SameWorldGood DEF vars, python
<1> QED
  BY <1>1, <1>2, <1>3, <1>4, <1>5, <1>6 DEF Next

(* Objects of a program that has not crashed count their names and their places. *)
LEMMA InvIsBalanced == ObjectsInv => Balanced
<1> SUFFICES ASSUME ObjectsInv, ~crashed, NEW s \in Slot
             PROVE  IF s \in There \ leaked
                    THEN objs[s].rc = Referring(s) /\ objs[s].rc > 0
                    ELSE Referring(s) = 0
  BY DEF Balanced
<1>1. /\ Zero \in Pending /\ ObjectsTyped(World) /\ Counted(World, Zero, At(World))
      /\ World.objs = objs /\ World.names = names /\ World.leaked = leaked
  BY InvIs, WorldIs
<1>2. {p \in Held : objs[p[1]].holds[p[2]] = s} = PlacesOf(World, s)
  <2>1. ASSUME NEW l \in DOMAIN objs, objs[l].type = "list"
        PROVE  DOMAIN objs[l].holds = 1..Len(objs[l].holds) /\ Len(objs[l].holds) \in Nat
               /\ l \in Slot
    BY <1>1, <2>1 DEF ObjectsTyped, ListHeld, IsSequence
  <2>2. Held = UNION {{<<l, i>> : i \in 1..Len(objs[l].holds)} : l \in Lists}
    BY <2>1 DEF Held, Lists, There
  <2>3. \A l \in Lists : l \in Slot /\ 1..Len(objs[l].holds) \subseteq Nat /\ IsList(World, l)
    BY <1>1, <2>1 DEF Lists, There, IsList
  <2>4. \A l : IsList(World, l) => l \in Lists
    BY <1>1 DEF Lists, There, IsList
  <2>5. ASSUME NEW p, p \in Held, objs[p[1]].holds[p[2]] = s
        PROVE  p \in PlacesOf(World, s)
    <3>1. PICK l \in Lists : \E i \in 1..Len(objs[l].holds) : p = <<l, i>>
      BY <2>2, <2>5
    <3>2. PICK i \in 1..Len(objs[l].holds) : p = <<l, i>>
      BY <3>1
    <3> QED BY <1>1, <2>3, <2>5, <3>2 DEF PlacesOf
  <2>6. ASSUME NEW p, p \in PlacesOf(World, s)
        PROVE  p \in Held /\ objs[p[1]].holds[p[2]] = s
    <3>1. /\ p \in Slot \X Nat /\ IsList(World, p[1]) /\ p[2] \in 1..Len(objs[p[1]].holds)
          /\ objs[p[1]].holds[p[2]] = s
      BY <1>1, <2>6 DEF PlacesOf
    <3>2. p = <<p[1], p[2]>> /\ p[1] \in Lists
      BY <2>4, <3>1
    <3> QED BY <2>2, <3>1, <3>2
  <2> QED BY <2>5, <2>6
<1>3. Referring(s) = Total(World, Zero, At(World), s)
  <2>1. At(World)[s] = PlacesOf(World, s) /\ Zero[s] = 0 /\ IsFiniteSet(At(World)[s])
    BY <1>1 DEF At, Zero, Counted
  <2>2. /\ Cardinality(NamesOf(World, s)) \in Nat
        /\ Cardinality(PlacesOf(World, s)) \in Nat
    BY <1>1, <2>1, TotalNat
  <2>3. {n \in PyName : names[n] = s} = NamesOf(World, s)
    BY <1>1 DEF NamesOf
  <2>4. Referring(s) = Cardinality(NamesOf(World, s)) + Cardinality(PlacesOf(World, s))
    BY <1>2, <2>3, Zenon DEF Referring
  <2> QED BY <2>1, <2>2, <2>4 DEF Total
<1>4. Total(World, Zero, At(World), s) \in Nat
  BY <1>1, TotalNat DEF Counted
<1> QED
  BY <1>1, <1>3, <1>4 DEF Counted, There

(* An object of the Python module counts those who refer to it, as long as no null
   pointer was followed: whatever is bound, listed, returned or thrown
   (src/python/var.cc, vartable.cc, utils/core.h), for any program, tables and
   number of objects. *)
THEOREM ObjectsBalanced == Spec => []Balanced
<1>1. Spec => []ObjectsInv
  BY ObjectsBegin, ObjectsStep, PTL DEF Spec
<1> QED
  BY <1>1, InvIsBalanced, PTL

----------------------------------------------------------------------------
(* What variables of Python may be of, and hold. *)

(* The entries that set_bufr and set_crex make of columns. *)
WellMade(info) ==
  /\ info.code \in Varcode
  /\ info.type \in {"String", "Integer", "Decimal"}
  /\ info.type = "String" => info.len \in Nat
  /\ info.type # "String" => info.imin \in Int /\ info.imax \in Int
  /\ info.type = "Integer" => info.scale = 0 /\ IntMin <= info.imin /\ info.imax <= IntMax
  /\ info.type = "Decimal" => Step(info) \in Nat \ {0}

(* A quotient and a rest are those that there are. *)
LEMMA DivIs ==
  ASSUME NEW unit \in Nat \ {0}, NEW q \in Int, NEW r \in 0..(unit - 1)
  PROVE  (q * unit + r) \div unit = q /\ (q * unit + r) % unit = r
<1>1. PICK d \in Int : d = q * unit + r
  OBVIOUS
<1>2. PICK below \in Int, rest \in 0..(unit - 1) : below = d \div unit /\ rest = d % unit
  OBVIOUS
<1>3. d = below * unit + rest
  BY <1>2
<1>4. below = q
  <2>1. ASSUME below + 1 <= q PROVE FALSE
    <3>1. (below + 1) * unit <= q * unit
      BY <2>1
    <3>2. (below + 1) * unit = below * unit + unit
      OBVIOUS
    <3> QED BY <3>1, <3>2, <1>1, <1>3
  <2>2. ASSUME q + 1 <= below PROVE FALSE
    <3>1. (q + 1) * unit <= below * unit
      BY <2>2
    <3>2. (q + 1) * unit = q * unit + unit
      OBVIOUS
    <3> QED BY <3>1, <3>2, <1>1, <1>3
  <2> QED BY <2>1, <2>2
<1>5. rest = r
  BY <1>1, <1>3, <1>4
<1> QED
  BY <1>1, <1>2, <1>4, <1>5

(* A word has two halves: half is one more than the largest int. *)
LEMMA WordIs ==
  \E half \in Nat \ {0} : 2^WordBits = 2 * half /\ IntMax = half - 1 /\ IntMin = -half
<1>1. 2^(WordBits - 1) \in Int
  BY WidthsAssumption
<1>2. PICK half \in Int : half = 2^(WordBits - 1)
  BY <1>1
<1>3. half > 0 /\ 2^WordBits = 2 * half
  BY <1>2, WidthsAssumption
<1> QED
  BY <1>2, <1>3 DEF IntMax, IntMin

(* What is cast to an int is an int, and an int stays what it is. *)
LEMMA SignedIs ==
  ASSUME NEW n \in Int
  PROVE  /\ Signed(n) \in IntMin..IntMax
         /\ n \in IntMin..IntMax => Signed(n) = n
<1>1. PICK half \in Nat \ {0} : 2^WordBits = 2 * half /\ IntMax = half - 1 /\ IntMin = -half
  BY WordIs
<1>2. PICK word \in Nat \ {0} : word = 2 * half /\ word = 2^WordBits
  BY <1>1
<1>3. PICK u \in 0..(word - 1) : u = n % word
  BY <1>2
<1>4. Unsigned(n) = u
  BY <1>2, <1>3 DEF Unsigned
<1>5. Signed(n) = IF u > half - 1 THEN u - word ELSE u
  BY <1>1, <1>2, <1>4 DEF Signed
<1>6. Signed(n) \in IntMin..IntMax
  BY <1>1, <1>2, <1>5
<1>7. ASSUME n \in IntMin..IntMax PROVE Signed(n) = n
  <2>1. CASE n >= 0
    <3>1. n \in 0..(word - 1)
      BY <1>1, <1>2, <1>7, <2>1
    <3>2. u = n
      <4>1. PICK rest \in 0..(word - 1) : rest = n
        BY <3>1
      <4>2. (0 * word + rest) % word = rest
        BY DivIs
      <4> QED BY <1>3, <4>1, <4>2
    <3> QED BY <1>1, <1>5, <1>7, <3>2
  <2>2. CASE n < 0
    <3>1. n + word \in 0..(word - 1) /\ n + word >= half
      BY <1>1, <1>2, <1>7, <2>2
    <3>2. PICK rest \in 0..(word - 1) : rest = n + word
      BY <3>1
    <3>3. (-1 * word + rest) % word = rest
      BY DivIs
    <3>4. u = n + word
      BY <1>3, <3>2, <3>3
    <3> QED BY <1>1, <1>2, <1>5, <3>1, <3>4
  <2> QED BY <1>7, <2>1, <2>2, <1>1
<1> QED
  BY <1>6, <1>7

(* Fewer digits than the largest int has make an int. *)
LEMMA FewDigits ==
  ASSUME NEW len \in Nat, ~(len >= CountDigits(IntMax))
  PROVE  10^len - 1 \in 0..IntMax
<1>1. CountDigits(IntMax) \in Nat
  <2> DEFINE T == {d \in 1..(WordBits - 1) : IntMax >= 10^d}
  <2>1. IsFiniteSet(1..(WordBits - 1))
    BY WidthsAssumption, FS_Interval
  <2>2. IsFiniteSet(T)
    BY <2>1, FS_Subset
  <2>3. Cardinality(T) \in Nat
    BY <2>2, FS_CardinalityType
  <2> QED BY <2>3 DEF CountDigits
<1>2. len \in 0..(CountDigits(IntMax) - 1)
  BY <1>1
<1> QED
  BY <1>2, ColumnsAssumption

(* Decimals of doubles are more than none. *)
LEMMA HasNoScale == HasPlaces(0)
BY WidthsAssumption DEF HasPlaces

(* set_bufr makes a good entry of the columns of a line. *)
LEMMA BufrMade ==
  ASSUME NEW code \in Varcode, NEW unit, NEW bit_len \in Nat, NEW bit_ref \in IntMin..IntMax,
         NEW scale, HasPlaces(scale),
         NEW info \in SetBufr(code, unit, bit_len, bit_ref, scale)
  PROVE  WellMade(info)
<1> DEFINE type == TypeFor(unit, scale)
<1>1. type \in {"String", "Integer", "Decimal"} /\ (type = "Integer" => scale = 0)
  BY DEF TypeFor
<1> HIDE DEF type
<1>2. CASE type = "String"
  <2>1. info = TextInfo(code, unit, type, scale, bit_len)
    BY <1>2 DEF SetBufr, type, IsText
  <2>2. (bit_len + 7) \div 8 \in Nat
    OBVIOUS
  <2>3. info.code = code /\ info.type = type /\ info.len = (bit_len + 7) \div 8
    BY <2>1 DEF TextInfo, Info
  <2> QED BY <1>2, <2>2, <2>3 DEF WellMade
<1>3. CASE type # "String"
  <2>1. ~IsText(type)
    BY <1>1, <1>3 DEF IsText
  <2>2. PICK maxval \in Maxval(code, bit_len) :
          LET imax == Signed(maxval + bit_ref)
          IN info = Info(code, unit, type, scale,
                         StorageDigits(bit_len, bit_ref, maxval, imax), bit_len,
                         <<bit_ref, imax>>)
    BY <2>1 DEF SetBufr, type
  <2>3. maxval \in Int
    <3>1. PICK m \in Int : maxval = Unsigned(m)
      <4>1. 2^bit_len \in Int /\ 2^WordBits \in Int
        BY WidthsAssumption
      <4>2. PICK ones \in Int : maxval = Unsigned(IF IsFactor(code) THEN ones ELSE ones - 1)
        BY <4>1 DEF Maxval
      <4> QED BY <4>2
    <3>2. PICK half \in Nat \ {0} : 2^WordBits = 2 * half
      BY WordIs
    <3> QED BY <3>1, <3>2 DEF Unsigned
  <2>4. PICK half \in Nat \ {0} : IntMax = half - 1 /\ IntMin = -half
    BY WordIs
  <2>5. bit_ref \in Int /\ IntMin <= bit_ref
    BY <2>4
  <2>6. Signed(maxval + bit_ref) \in IntMin..IntMax
    BY <2>3, <2>5, SignedIs
  <2>7. /\ info.code = code /\ info.type = type /\ info.scale = scale
        /\ info.imin = bit_ref /\ info.imax = Signed(maxval + bit_ref)
    BY <2>2 DEF Info
  <2>8. Step(info) = 10^(Places - scale)
    BY <2>7 DEF Step
  <2> QED BY <1>1, <1>3, <2>4, <2>5, <2>6, <2>7, <2>8 DEF WellMade, HasPlaces
<1> QED
  BY <1>2, <1>3

(* So does set_crex. *)
LEMMA CrexMade ==
  ASSUME NEW code \in Varcode, NEW unit, NEW len \in Nat, NEW scale, HasPlaces(scale)
  PROVE  WellMade(SetCrex(code, unit, len, scale))
<1> DEFINE type == TypeFor(unit, scale)
           info == SetCrex(code, unit, len, scale)
<1> SUFFICES WellMade(info)
  OBVIOUS
<1>1. type \in {"String", "Integer", "Decimal"} /\ (type = "Integer" => scale = 0)
  BY DEF TypeFor
<1>2. info.code = code /\ info.type = type /\ info.scale = scale /\ info.len = len
  BY DEF SetCrex, Info
<1>3. type # "String" => ~IsText(type)
  BY <1>1 DEF IsText
<1>4. PICK half \in Nat \ {0} : IntMax = half - 1 /\ IntMin = -half
  BY WordIs
<1>5. CASE type # "String" /\ len >= CountDigits(IntMax)
  <2>1. info.imin = IntMin /\ info.imax = IntMax
    BY <1>3, <1>5 DEF SetCrex, Info
  <2>2. Step(info) = 10^(Places - scale)
    BY <1>2 DEF Step
  <2> HIDE DEF info, type
  <2> QED BY <1>1, <1>2, <1>4, <1>5, <2>1, <2>2 DEF WellMade, HasPlaces
<1>6. CASE type # "String" /\ ~(len >= CountDigits(IntMax))
  <2>1. info.imin = -(10^len - 1) /\ info.imax = 10^len - 2
    BY <1>3, <1>6 DEF SetCrex, Info
  <2>2. Step(info) = 10^(Places - scale)
    BY <1>2 DEF Step
  <2>3. PICK n \in 0..IntMax : n = 10^len - 1
    BY <1>6, FewDigits
  <2>4. 10^len \in Int
    OBVIOUS
  <2>5. info.imin = -n /\ info.imax = n - 1
    BY <2>1, <2>3, <2>4
  <2> HIDE DEF info, type
  <2> QED BY <1>1, <1>2, <1>4, <1>6, <2>2, <2>3, <2>5 DEF WellMade, HasPlaces
<1>7. CASE type = "String"
  <2> HIDE DEF info, type
  <2> QED BY <1>2, <1>7 DEF WellMade
<1> QED
  BY <1>5, <1>6, <1>7

(* Entries of a table, all good. *)
MadeEntries(entries) ==
  IsSequence(entries) /\ \A i \in 1..Len(entries) : WellMade(entries[i].info)

(* What a line says of an entry, as ColumnsAssumption has it. *)
GoodLine(line) ==
  /\ line.code \in Varcode
  /\ line.bit_len \in Nat /\ line.bit_ref \in IntMin..IntMax /\ HasPlaces(line.scale)
  /\ line.crex_len \in Nat /\ HasPlaces(line.crex_scale)

(* One good entry more. *)
LEMMA AppendMade ==
  ASSUME NEW entries, MadeEntries(entries), NEW e, WellMade(e.info)
  PROVE  MadeEntries(Append(entries, e))
<1>1. /\ IsSequence(Append(entries, e)) /\ Len(Append(entries, e)) = Len(entries) + 1
      /\ Append(entries, e)[Len(entries) + 1] = e
      /\ \A p \in 1..Len(entries) : Append(entries, e)[p] = entries[p]
  BY AppendGrows DEF MadeEntries
<1>2. Len(entries) \in Nat
  BY DEF MadeEntries, IsSequence
<1>3. ASSUME NEW i \in 1..(Len(entries) + 1)
      PROVE  WellMade(Append(entries, e)[i].info)
  <2>1. CASE i = Len(entries) + 1
    BY <1>1, <2>1
  <2>2. CASE i # Len(entries) + 1
    <3>1. i \in 1..Len(entries)
      BY <1>2, <2>2
    <3> QED BY <1>1, <3>1 DEF MadeEntries
  <2> QED BY <2>1, <2>2
<1> QED
  BY <1>1, <1>3 DEF MadeEntries

(* obtain adds an entry that is made of a line. *)
LEMMA ObtainMade ==
  ASSUME NEW entries, MadeEntries(entries), NEW made, \A e \in made : WellMade(e.info)
  PROVE  Obtain(entries, made) = Refused \/ MadeEntries(Obtain(entries, made))
<1> SUFFICES ASSUME Obtain(entries, made) # Refused
             PROVE  MadeEntries(Obtain(entries, made))
  OBVIOUS
<1> DEFINE e == CHOOSE e \in made : TRUE
<1>1. made # {} /\ e \in made
  BY DEF Obtain
<1>2. Obtain(entries, made) = Append(entries, e)
  BY <1>1 DEF Obtain
<1>3. WellMade(e.info)
  BY <1>1
<1> HIDE DEF e
<1> QED
  BY <1>2, <1>3, AppendMade

(* Each line leaves good entries, or a file that is refused. *)
LEMMA LineMade ==
  ASSUME NEW format, NEW entries, NEW line, GoodLine(line),
         entries = Refused \/ MadeEntries(entries), NEW next,
         next = FileLine(format, entries, line)
  PROVE  next = Refused \/ MadeEntries(next)
<1>1. \A e \in BufrEntries(line) : WellMade(e.info)
  BY BufrMade DEF BufrEntries, Entry, GoodLine
<1>2. \A e \in CrexEntries(line) : WellMade(e.info)
  BY CrexMade DEF CrexEntries, Entry, GoodLine
<1>3. CASE entries = Refused
  BY <1>3 DEF FileLine, BufrLine, CrexLine
<1>4. CASE entries # Refused
  <2>1. MadeEntries(entries)
    BY <1>4
  <2> DEFINE b == Obtain(entries, BufrEntries(line))
             c == Obtain(entries, CrexEntries(line))
  <2>2. b = Refused \/ MadeEntries(b)
    BY <1>1, <2>1, ObtainMade
  <2>3. c = Refused \/ MadeEntries(c)
    BY <1>2, <2>1, ObtainMade
  <2> HIDE DEF b, c
  <2>4. next \in {Refused, entries, b, c}
    BY DEF FileLine, BufrLine, CrexLine, b, c
  <2> QED BY <2>1, <2>2, <2>3, <2>4
<1> QED
  BY <1>3, <1>4

(* So does a whole file. *)
LEMMA ReadMade ==
  ASSUME NEW format, NEW lines, IsSequence(lines), \A i \in 1..Len(lines) : GoodLine(lines[i]),
         NEW read, IsRead(format, lines, read, Len(lines))
  PROVE  read[Len(lines)] = Refused \/ MadeEntries(read[Len(lines)])
<1> DEFINE S == {n \in Nat : n <= Len(lines) => read[n] = Refused \/ MadeEntries(read[n])}
<1>1. Len(lines) \in Nat
  BY DEF IsSequence
<1>2. 0 \in S
  <2>1. read[0] = <<>>
    BY <1>1 DEF IsRead
  <2>2. MadeEntries(<<>>)
    BY DEF MadeEntries, IsSequence
  <2> QED BY <2>1, <2>2
<1>3. ASSUME NEW n \in Nat, n \in S
      PROVE  n + 1 \in S
  <2> SUFFICES ASSUME n + 1 <= Len(lines)
               PROVE  read[n + 1] = Refused \/ MadeEntries(read[n + 1])
    OBVIOUS
  <2>1. n + 1 \in 0..Len(lines) /\ n + 1 # 0 /\ (n + 1) - 1 = n /\ n + 1 \in 1..Len(lines)
    BY <1>1
  <2>2. read[n + 1] = FileLine(format, read[n], lines[n + 1])
    BY <2>1 DEF IsRead
  <2>3. read[n] = Refused \/ MadeEntries(read[n])
    BY <1>1, <1>3
  <2>4. GoodLine(lines[n + 1])
    BY <2>1
  <2> QED
    BY <2>2, <2>3, <2>4, LineMade
<1> HIDE DEF S
<1>4. Len(lines) \in S
  BY <1>1, <1>2, <1>3, NatSetInduction
<1> QED
  BY <1>1, <1>4 DEF S

(* A file that is not refused makes good entries. *)
LEMMA ParsedMade ==
  ASSUME NEW format, NEW file \in Contents, Parsed(format, file) # Refused
  PROVE  MadeEntries(Parsed(format, file))
<1>1. file # NoFile
  BY DEF Parsed
<1>2. /\ IsSequence(file) /\ Len(file) \in Nat
      /\ \A i \in 1..Len(file) : GoodLine(file[i])
  BY <1>1, FilesAssumption, ColumnsAssumption DEF IsSequence, GoodLine
<1>3. CASE format = "bufr"
  <2> DEFINE Reads(f) == f = [n \in 0..Len(file) |->
                             IF n = 0 THEN <<>> ELSE BufrLine(f[n - 1], file[n])]
             read == CHOOSE f : Reads(f)
  <2>1. \A f : IsRead(format, file, f, Len(file)) => Reads(f)
    BY <1>3 DEF IsRead, FileLine
  <2>2. \A f : Reads(f) => IsRead(format, file, f, Len(file))
    BY <1>3 DEF IsRead, FileLine
  <2>3. Parsed(format, file) = read[Len(file)]
    BY <1>1, <1>3 DEF Parsed, LoadBufr, BufrLine
  <2>4. \E f : Reads(f)
    BY <1>2, <2>1, ReadExists
  <2> HIDE DEF Reads
  <2>5. Reads(read)
    BY <2>4
  <2> HIDE DEF read
  <2> QED
    BY <1>2, <2>2, <2>3, <2>5, ReadMade
<1>4. CASE format # "bufr"
  <2> DEFINE Reads(f) == f = [n \in 0..Len(file) |->
                             IF n = 0 THEN <<>> ELSE CrexLine(f[n - 1], file[n])]
             read == CHOOSE f : Reads(f)
  <2>1. \A f : IsRead(format, file, f, Len(file)) => Reads(f)
    BY <1>4 DEF IsRead, FileLine
  <2>2. \A f : Reads(f) => IsRead(format, file, f, Len(file))
    BY <1>4 DEF IsRead, FileLine
  <2>3. Parsed(format, file) = IF read[Len(file)] = <<>> THEN Refused ELSE read[Len(file)]
    BY <1>1, <1>4 DEF Parsed, LoadCrex, CrexLine
  <2>4. \E f : Reads(f)
    BY <1>2, <2>1, ReadExists
  <2> HIDE DEF Reads
  <2>5. Reads(read)
    BY <2>4
  <2> HIDE DEF read
  <2> QED
    BY <1>2, <2>2, <2>3, <2>5, ReadMade
<1> QED
  BY <1>3, <1>4

----------------------------------------------------------------------------
(* The entries in memory, whoever asks for them. *)

EntriesInv == IInv /\ ChainInv /\ MadeEntries(memory)

(* Chains stay good when memory grows and no table changes. *)
LEMMA GrownChains ==
  ASSUME IInv, ChainInv, UNCHANGED tables, Grows
  PROVE  ChainInv'
<1>1. Loaded' = Loaded
  BY DEF Loaded
<1>2. ASSUME NEW t \in Loaded
      PROVE  FromFile(t)' /\ \A i \in DOMAIN tables'[t].chains :
                               GoodChain(tables'[t].chains[i], memory')
  <2> DEFINE chains == tables[t].chains
  <2>1. FromFile(t) /\ tables'[t] = tables[t]
    BY DEF ChainInv
  <2>2. ASSUME NEW i \in DOMAIN chains
        PROVE  GoodChain(chains[i], memory') /\ memory'[chains[i][1]] = memory[chains[i][1]]
    <3>1. IsChain(chains[i], Len(memory)) /\ GoodChain(chains[i], memory)
      BY DEF IInv, IsTable, ChainInv
    <3>2. \A q \in 1..Len(memory) : memory'[q] = memory[q]
      BY DEF Grows
    <3> QED BY <3>1, <3>2, GoodStays
  <2>3. FromFile(t)'
    BY <2>1, <2>2 DEF FromFile
  <2> QED BY <2>1, <2>2, <2>3
<1>3. Apart'
  BY <1>1 DEF ChainInv, Apart
<1> QED
  BY <1>1, <1>2, <1>3 DEF ChainInv

(* Memory has good entries after a file is loaded. *)
LEMMA ConcatMade ==
  ASSUME NEW s, NEW t, MadeEntries(s), MadeEntries(t)
  PROVE  MadeEntries(s \o t)
<1>1. /\ IsSequence(s \o t) /\ Len(s \o t) = Len(s) + Len(t)
      /\ \A p \in 1..Len(s) : (s \o t)[p] = s[p]
      /\ \A p \in 1..Len(t) : (s \o t)[Len(s) + p] = t[p]
  BY ConcatGrows DEF MadeEntries
<1>2. Len(s) \in Nat /\ Len(t) \in Nat
  BY DEF MadeEntries, IsSequence
<1>3. ASSUME NEW i \in 1..(Len(s) + Len(t))
      PROVE  WellMade((s \o t)[i].info)
  <2>1. CASE i <= Len(s)
    <3>1. i \in 1..Len(s)
      BY <1>2, <2>1
    <3> QED BY <1>1, <3>1 DEF MadeEntries
  <2>2. CASE ~(i <= Len(s))
    <3>1. i - Len(s) \in 1..Len(t) /\ Len(s) + (i - Len(s)) = i
      BY <1>2, <2>2
    <3> QED BY <1>1, <3>1 DEF MadeEntries
  <2> QED BY <2>1, <2>2
<1> QED
  BY <1>1, <1>3 DEF MadeEntries

(* A chain begins with a pointer. *)
LEMMA FirstOfChain ==
  ASSUME NEW n, NEW chain, IsChain(chain, n)
  PROVE  chain[1] \in 1..n
<1> DEFINE S == 1..n
<1>1. chain \in Seq(S) /\ chain # <<>>
  BY DEF IsChain
<1> HIDE DEF S
<1>2. 1 \in DOMAIN chain
  BY <1>1, EmptySeq
<1>3. chain[1] \in S
  BY <1>1, <1>2
<1> QED
  BY <1>3 DEF S

(* Each step of the library keeps the entries good, and what was there. *)
LEMMA LibraryMade ==
  ASSUME EntriesInv, [NextLibrary]_library
  PROVE  EntriesInv' /\ Grows
<1>1. IInv' /\ ChainInv' /\ Grows
  BY StepKeeps, StepChains DEF EntriesInv, Stays
<1>2. ASSUME NEW t \in BTable, Load(t)
      PROVE  MadeEntries(memory')
  <2> DEFINE entries == Parsed(t[1], disk[t[2]])
  <2>1. t[2] \in Path
    BY DEF BTable
  <2>2. entries # Refused /\ disk[t[2]] \in Contents /\ memory' = memory \o entries
    BY <1>2, <2>1 DEF Load, EntriesInv, IInv
  <2>3. MadeEntries(entries)
    BY <2>2, ParsedMade
  <2> QED BY <2>2, <2>3, ConcatMade DEF EntriesInv
<1>3. ASSUME NEW t \in Loaded, NEW a \in Alterations, NEW i \in DOMAIN HeadCodes(t),
             QueryAltered(t, HeadCodes(t)[i], a)
      PROVE  MadeEntries(memory')
  <2> DEFINE code == HeadCodes(t)[i]
             chain == tables[t].chains[QueryEntry(t, code)]
             start == memory[chain[1]]
  <2>1. PICK entry \in Altered(start, a) : memory' = Append(memory, entry)
    BY <1>3 DEF QueryAltered
  <2>2. start.info.code \in Varcode
    <3>1. i \in DOMAIN tables[t].chains
      BY DEF HeadCodes
    <3>2. QueryEntry(t, code) \in DOMAIN tables[t].chains
      BY <3>1, EachFound DEF EntriesInv
    <3>3. IsChain(chain, Len(memory))
      BY <3>2 DEF EntriesInv, IInv, IsTable
    <3>4. chain[1] \in 1..Len(memory)
      BY <3>3, FirstOfChain
    <3> QED BY <3>4 DEF EntriesInv, MadeEntries, WellMade
  <2>3. a.bit_len \in Nat /\ a.bit_ref \in IntMin..IntMax /\ HasPlaces(a.scale)
    BY ColumnsAssumption
  <2>4. PICK info \in SetBufr(start.info.code, start.info.unit, a.bit_len, a.bit_ref, a.scale) :
          entry = Entry(info, a.bit_ref)
    BY <2>1 DEF Altered
  <2>5. WellMade(entry.info)
    BY <2>2, <2>3, <2>4, BufrMade DEF Entry
  <2> QED BY <2>1, <2>5, AppendMade DEF EntriesInv
<1>4. UNCHANGED memory => MadeEntries(memory')
  BY DEF EntriesInv
<1>5. ASSUME NEW format \in Format, NEW name \in Wanted, Get(format, name)
      PROVE  MadeEntries(memory')
  <2> DEFINE t == <<format, Named[name]>>
  <2>1. t \in BTable /\ HaveTable(t)
    BY <1>5, FilesAssumption DEF Get, BTable
  <2> HIDE DEF t
  <2> QED
    BY <1>2, <1>4, <2>1 DEF HaveTable, library
<1>6. MadeEntries(memory')
  BY <1>2, <1>3, <1>4, <1>5 DEF NextLibrary, LoadSequences, Replace, library
<1> QED
  BY <1>1, <1>6 DEF EntriesInv

(* Nothing else changes the tables, but for the entry that the module makes. *)
LEMMA ImportMade ==
  ASSUME EntriesInv, Import
  PROVE  EntriesInv' /\ Grows
<1>1. PICK info \in SetBufr(<<0, 0, 0>>, "?", 1, 0, 0) : memory' = Append(memory, Entry(info, 0))
  BY DEF Import
<1>2. UNCHANGED <<disk, tables>> /\ IInv /\ ChainInv /\ MadeEntries(memory)
  BY DEF Import, EntriesInv
<1>3. WellMade(info)
  <2>1. <<0, 0, 0>> \in Varcode
    BY DEF Varcode
  <2>2. 0 \in IntMin..IntMax
    BY WordIs
  <2> QED BY <1>1, <2>1, <2>2, HasNoScale, BufrMade
<1>4. MadeEntries(memory')
  BY <1>1, <1>2, <1>3, AppendMade DEF Entry
<1>5. /\ IsSequence(memory') /\ Len(memory') = Len(memory) + 1
      /\ \A p \in 1..Len(memory) : memory'[p] = memory[p]
  BY <1>1, <1>2, AppendGrows DEF IInv
<1>6. Grows
  BY <1>2, <1>5 DEF Grows, IInv, IsSequence
<1> QED
  BY <1>2, <1>4, <1>5, <1>6, UntouchedStays, GrownChains DEF EntriesInv

(* Nothing is in memory at first. *)
LEMMA EntriesBegin == Init => EntriesInv
<1> SUFFICES ASSUME Init PROVE EntriesInv
  OBVIOUS
<1>1. IInv /\ memory = <<>> /\ Loaded = {}
  BY InitHolds DEF Init, InitLibrary, Loaded
<1> QED
  BY <1>1 DEF EntriesInv, ChainInv, Apart, MadeEntries, IsSequence

(* The rest of the module does with the tables what the library does. *)
LEMMA LibraryOrImport ==
  ASSUME [Next]_vars
  PROVE  Import \/ [NextLibrary]_library
<1>1. ASSUME NEW n \in PyName, Making(n) \/ Using(n)
      PROVE  [NextLibrary]_library
  <2>1. ASSUME NEW t \in BTable, LoadTable(n, t)
        PROVE  [NextLibrary]_library
    BY <2>1 DEF LoadTable, HaveTable, NextLibrary
  <2>2. ASSUME NEW format \in Format, NEW name \in Wanted, GetTable(n, format, name)
        PROVE  [NextLibrary]_library
    BY <2>2 DEF GetTable, NextLibrary
  <2>3. ASSUME NEW m \in PyName, NEW code, Subscript(n, m, code) \/ Enqa(n, m, code)
        PROVE  UNCHANGED library
    BY <2>3 DEF Subscript, Enqa
  <2>4. ASSUME NEW m \in PyName, NEW value,
               GetInfo(n, m) \/ GetAttrs(n, m) \/ NewVar(n, m, value) \/ InitAgain(n, m, value)
        PROVE  UNCHANGED library
    BY <2>4 DEF GetInfo, GetAttrs, NewVar, InitAgain
  <2>5. ASSUME NEW type, NEW p, NEW value, MakeBare(n, type) \/ CreateFromC(n, p, value)
        PROVE  UNCHANGED library
    BY <2>5 DEF MakeBare, CreateFromC
  <2>6. CASE Making(n)
    BY <2>1, <2>2, <2>3, <2>4, <2>5, <2>6 DEF Making
  <2>7. CASE Using(n)
    BY <2>4, <2>7 DEF Using, Name, GetOr, Item, Seta, Unseta, Read, Del
  <2> QED BY <1>1, <2>6, <2>7
<1>2. NewVarOfNothing => UNCHANGED library
  BY DEF NewVarOfNothing
<1>3. UNCHANGED vars => UNCHANGED library
  BY DEF vars
<1> QED
  BY <1>1, <1>2, <1>3 DEF Next

(* No step of the module makes other entries. *)
LEMMA EntriesStep ==
  ASSUME EntriesInv, [Next]_vars
  PROVE  EntriesInv' /\ Grows
BY LibraryOrImport, ImportMade, LibraryMade

----------------------------------------------------------------------------
(* What comes back of a value. *)

(* Nothing is cut off a text that has no NUL. *)
LEMMA NothingCut ==
  ASSUME NEW text \in Seq(Nat), 0 \notin Range(text), NEW len \in Nat
  PROVE  /\ UpToNul(Cut(text, len)) = Cut(text, len)
         /\ Cut(text, len) \in Seq(Nat) /\ Len(Cut(text, len)) <= len
<1> DEFINE k == IF Len(text) < len THEN Len(text) ELSE len
           cut == Cut(text, len)
<1>1. k \in 0..Len(text) /\ k <= len
  OBVIOUS
<1>2. /\ cut = SubSeq(text, 1, k) /\ cut \in Seq(Nat) /\ Len(cut) = k
      /\ \A i \in 1..k : cut[i] = text[i]
  BY <1>1 DEF Cut
<1>3. \A i \in 1..k : cut[i] # 0
  BY <1>1, <1>2 DEF Range
<1> HIDE DEF cut
<1>4. {i \in 1..Len(cut) : \A j \in 1..i : cut[j] # 0} = 1..k
  BY <1>1, <1>2, <1>3
<1>5. Cardinality(1..k) = k
  <2>1. PICK m \in Nat : m = k
    BY <1>1
  <2> HIDE DEF k
  <2>2. Cardinality(1..m) = IF 1 > m THEN 0 ELSE m - 1 + 1
    BY FS_Interval
  <2> QED BY <2>1, <2>2
<1>6. UpToNul(cut) = SubSeq(cut, 1, k)
  BY <1>1, <1>2, <1>4, <1>5 DEF UpToNul, Cut
<1>7. SubSeq(cut, 1, k) = cut
  BY <1>1, <1>2
<1> QED
  BY <1>1, <1>2, <1>6, <1>7 DEF cut

(* The nearest of the measures is no further than half of a step. *)
LEMMA RintIsNear ==
  ASSUME NEW d \in Int, NEW unit \in Nat \ {0}
  PROVE  Rint(d, unit) \in Int /\ 2 * Abs(Rint(d, unit) * unit - d) <= unit
<1>1. PICK below \in Int, rest \in 0..(unit - 1) : below = d \div unit /\ rest = d % unit
  OBVIOUS
<1>2. d = below * unit + rest
  BY <1>1
<1>3. Rint(d, unit) = IF 2 * rest > unit \/ (2 * rest = unit /\ below % 2 = 1)
                      THEN below + 1 ELSE below
  BY <1>1 DEF Rint
<1>4. CASE Rint(d, unit) = below
  <2>1. Rint(d, unit) * unit - d = -rest /\ 2 * rest <= unit
    BY <1>2, <1>3, <1>4
  <2> QED BY <1>4, <2>1 DEF Abs
<1>5. CASE Rint(d, unit) = below + 1
  <2>1. (below + 1) * unit = below * unit + unit
    OBVIOUS
  <2>2. Rint(d, unit) * unit - d = unit - rest /\ 2 * rest >= unit
    BY <1>2, <1>3, <1>5, <2>1
  <2> QED BY <1>5, <2>2 DEF Abs
<1> QED
  BY <1>3, <1>4, <1>5

(* As ValuesComeBack has it of one value. *)
ComesBack(info, v, r) ==
  LET back == ValueToPython(info, r.val)
  IN ~r.raised /\ r.val # Unset =>
       /\ v.py = "int" /\ v.is \in IntMin..IntMax => r.val = v.is
       /\ v.py = "float" /\ back.py = "float" => 2 * Abs(back.is - v.is) <= Step(info)
       /\ v.py = "str" /\ back.py = "str" /\ 0 \notin Range(v.is)
            => back.is = Cut(v.is, info.len)

(* What throws has no other result. *)
LEMMA Thrown ==
  ASSUME NEW results, NEW r \in OrThrow(results, Unset), ~r.raised
  PROVE  r \in results
BY DEF OrThrow, Error

(* An int is stored as it is, or not at all. *)
LEMMA SetIGives ==
  ASSUME NEW info, NEW k, NEW x \in SetI(info, Unset, k, NoOptions)
  PROVE  (~x.raised => x.val = k) /\ Raise(x).raised
<1>1. /\ ~NoOptions.silent /\ ~NoOptions.clamp /\ ~NoOptions.hook
  BY DEF NoOptions
<1>2. \A nearest : OutOfDomain(info, Unset, nearest, NoOptions) = {Error(Unset)}
  BY <1>1 DEF OutOfDomain
<1>3. x \in {Result(k), Error(Unset)}
  BY <1>2 DEF SetI, AssignI
<1>4. x = [val |-> k, raised |-> FALSE] \/ x = [val |-> Unset, raised |-> TRUE]
  BY <1>3 DEF Result, Error
<1>5. x.raised = TRUE \/ x.val = k
  BY <1>4
<1>6. Raise(x).raised = TRUE
  BY <1>4 DEF Raise
<1> QED
  BY <1>5, <1>6

(* What comes back of an int. *)
LEMMA IntComesBack ==
  ASSUME NEW info, NEW v, v.py = "int", v.is \in IntMin..IntMax, v.is \in Int,
         NEW r \in ValueFromPython(info, Unset, v), ~r.raised
  PROVE  r.val = v.is
<1>1. Abs(v.is) \in Int
  BY DEF Abs
<1>2. CASE Abs(v.is) <= LongMax
  <2>1. r \in SetI(info, Unset, Signed(v.is), NoOptions)
    BY <1>1, <1>2, ObjectsAssumption, Thrown DEF ValueFromPython
  <2> QED BY <2>1, SignedIs, SetIGives
<1>3. CASE Abs(v.is) > LongMax
  <2>1. ~(Abs(v.is) <= LongMax)
    BY <1>1, <1>3, ObjectsAssumption
  <2>2. r \in {Raise(x) : x \in SetI(info, Unset, -1, NoOptions)}
    BY <1>3, <2>1, Thrown DEF ValueFromPython
  <2> QED BY <2>2, SetIGives
<1> QED
  BY <1>1, <1>2, <1>3, ObjectsAssumption

(* Of a float, which is rounded to the step of the info. *)
LEMMA FloatComesBack ==
  ASSUME NEW info, WellMade(info), info.type = "Decimal",
         NEW v, v.py = "float", v.is \in Int \cup {NaN},
         NEW r \in ValueFromPython(info, Unset, v), ~r.raised
  PROVE  2 * Abs(Measure(info, r.val) - v.is) <= Step(info)
<1>1. r \in AssignD(info, Unset, v.is, NoOptions)
  <2>1. r \in SetD(info, Unset, v.is, NoOptions)
    BY Thrown DEF ValueFromPython
  <2>2. ~IsText(info.type)
    BY DEF IsText
  <2> QED BY <2>1, <2>2 DEF SetD
<1>2. \A nearest : OutOfDomain(info, Unset, nearest, NoOptions) = {Error(Unset)}
  BY DEF OutOfDomain, NoOptions
<1>3. r # Error(Unset)
  BY DEF Error
<1>4. v.is # NaN /\ r = Result(EncodeDecimal(info, v.is))
  BY <1>1, <1>2, <1>3 DEF AssignD
<1>5. PICK unit \in Nat \ {0} : unit = Step(info)
  BY DEF WellMade
<1>6. r.val = Rint(v.is, unit) /\ Measure(info, r.val) = r.val * unit
  BY <1>4, <1>5 DEF Result, EncodeDecimal, Measure
<1> QED
  BY <1>4, <1>5, <1>6, RintIsNear

(* Of a string, which is cut to the length. *)
LEMMA StrComesBack ==
  ASSUME NEW info, WellMade(info), info.type = "String",
         NEW v, v.py = "str", v.is \in Seq(Nat), 0 \notin Range(v.is),
         NEW r \in ValueFromPython(info, Unset, v), ~r.raised
  PROVE  r.val = Cut(v.is, info.len)
<1>1. r \in SetS(info, Unset, v.is, NoOptions)
  BY Thrown DEF ValueFromPython
<1>2. r = Result(UpToNul(Cut(v.is, info.len)))
  BY <1>1 DEF SetS, AssignC, IsText
<1>3. info.len \in Nat
  BY DEF WellMade
<1> QED
  BY <1>2, <1>3, NothingCut DEF Result

(* Of all of them. *)
LEMMA EachComesBack ==
  ASSUME NEW info, WellMade(info), NEW v \in Given,
         NEW r \in ValueFromPython(info, Unset, v)
  PROVE  ComesBack(info, v, r)
<1> DEFINE back == ValueToPython(info, r.val)
<1> SUFFICES ASSUME ~r.raised
             PROVE  /\ v.py = "int" /\ v.is \in IntMin..IntMax => r.val = v.is
                    /\ v.py = "float" /\ back.py = "float" =>
                         2 * Abs(back.is - v.is) <= Step(info)
                    /\ v.py = "str" /\ back.py = "str" /\ 0 \notin Range(v.is)
                         => back.is = Cut(v.is, info.len)
  BY DEF ComesBack
<1>1. \/ v.py = "int" /\ v.is \in Int
      \/ v.py = "float" /\ v.is \in Int \cup {NaN}
      \/ v.py \in {"bytes", "str"} /\ v.is \in Seq(Nat)
      \/ v.py = "other"
  BY GivenAssumption
<1>2. /\ info.type = "String" => back = [py |-> "str", is |-> r.val]
      /\ info.type = "Integer" => back = [py |-> "int", is |-> r.val]
      /\ info.type = "Decimal" => back = [py |-> "float", is |-> Measure(info, r.val)]
  BY DEF ValueToPython
<1>3. info.type \in {"String", "Integer", "Decimal"}
  BY DEF WellMade
<1> HIDE DEF back
<1>4. ASSUME v.py = "int", v.is \in IntMin..IntMax
      PROVE  r.val = v.is
  BY <1>1, <1>4, IntComesBack
<1>5. ASSUME v.py = "float", back.py = "float"
      PROVE  2 * Abs(back.is - v.is) <= Step(info)
  <2>1. info.type = "Decimal" /\ back.is = Measure(info, r.val)
    BY <1>2, <1>3, <1>5
  <2> QED BY <1>1, <1>5, <2>1, FloatComesBack
<1>6. ASSUME v.py = "str", back.py = "str", 0 \notin Range(v.is)
      PROVE  back.is = Cut(v.is, info.len)
  <2>1. info.type = "String" /\ back.is = r.val
    BY <1>2, <1>3, <1>6
  <2> QED BY <1>1, <1>6, <2>1, StrComesBack
<1> QED
  BY <1>4, <1>5, <1>6

(* So it is for each entry in memory. *)
LEMMA EntriesGiveBack == EntriesInv => ValuesComeBack
<1> SUFFICES ASSUME EntriesInv, NEW p \in Pointer, NEW v \in Given,
                    NEW r \in ValueFromPython(InfoAt(p), Unset, v)
             PROVE  ComesBack(InfoAt(p), v, r)
  BY DEF ValuesComeBack, ComesBack
<1>1. WellMade(InfoAt(p))
  <2>1. p \in 1..Len(memory)
    BY DEF EntriesInv, MadeEntries, IsSequence, Pointer
  <2> QED BY <2>1 DEF EntriesInv, MadeEntries, InfoAt
<1> QED
  BY <1>1, EachComesBack

(* What a program gives to a variable of an entry of any table, or of an alteration,
   comes back from it or is refused (src/python/var.cc, src/wreport/var.cc, and the
   ranges of varinfo.cc). *)
THEOREM ValuesAreBack == Spec => []ValuesComeBack
<1>1. Spec => []EntriesInv
  BY EntriesBegin, EntriesStep, PTL DEF Spec
<1> QED
  BY <1>1, EntriesGiveBack, PTL

----------------------------------------------------------------------------
(* What a variable holds is of its info. *)

FitValue(info, val) ==
  \/ val = Unset
  \/ info.type = "String" /\ val \in Seq(Nat) /\ 0 \notin Range(val) /\ Len(val) <= info.len
  \/ info.type # "String" /\ val \in info.imin..info.imax

(* What is left of a text has no NUL. *)
LEMMA NoNulLeft ==
  ASSUME NEW text \in Seq(Nat)
  PROVE  /\ UpToNul(text) \in Seq(Nat) /\ 0 \notin Range(UpToNul(text))
         /\ Len(UpToNul(text)) <= Len(text)
<1> DEFINE m == Len(text)
           good == {i \in 1..m : \A j \in 1..i : text[j] # 0}
           zeros == {i \in 1..m : text[i] = 0}
<1>1. m \in Nat
  OBVIOUS
<1>2. PICK k \in 0..m : good = 1..k
  <2>1. CASE zeros = {}
    <3>1. good = 1..m
      BY <2>1
    <3> QED BY <1>1, <3>1
  <2>2. CASE zeros # {}
    <3>1. zeros \subseteq Nat
      OBVIOUS
    <3> HIDE DEF zeros
    <3>2. PICK z \in zeros : \A y \in zeros : <<y, z>> \notin Less
      BY <2>2, <3>1, LessIsWellFounded, WFMin
    <3>3. z \in 1..m /\ text[z] = 0 /\ \A y \in 1..m : text[y] = 0 => z <= y
      <4>1. z \in 1..m /\ text[z] = 0
        BY <3>2 DEF zeros
      <4>2. \A y \in 1..m : text[y] = 0 => y \in zeros /\ <<y, z>> \notin Less
        BY <3>2 DEF zeros
      <4>3. ASSUME NEW y \in 1..m, text[y] = 0 PROVE z <= y
        <5>1. y \in Nat /\ z \in Nat /\ <<y, z>> \notin Less
          BY <4>1, <4>2, <4>3
        <5>2. ~(y < z)
          BY <5>1 DEF Less
        <5> QED BY <5>1, <5>2
      <4> QED BY <4>1, <4>3
    <3>4. ASSUME NEW i \in 1..m, i \in good PROVE i \in 1..(z - 1)
      <4>1. z \in 1..i => text[z] # 0
        BY <3>4
      <4> QED BY <3>3, <4>1
    <3>5. ASSUME NEW i \in 1..(z - 1) PROVE i \in good
      <4>1. i \in 1..m /\ \A j \in 1..i : j \in 1..m /\ ~(z <= j)
        BY <3>3
      <4> QED BY <3>3, <4>1
    <3>6. good \subseteq 1..m
      OBVIOUS
    <3> HIDE DEF good
    <3>7. good = 1..(z - 1)
      BY <3>4, <3>5, <3>6
    <3> QED BY <3>3, <3>7
  <2> QED BY <2>1, <2>2
<1>3. Cardinality(good) = k
  <2>1. k \in Nat
    BY <1>1, <1>2
  <2>2. Cardinality(1..k) = IF 1 > k THEN 0 ELSE k - 1 + 1
    BY <2>1, FS_Interval
  <2> HIDE DEF good
  <2> QED BY <1>2, <2>1, <2>2
<1>4. \A i \in 1..k : text[i] # 0
  <2> SUFFICES ASSUME NEW i \in 1..k PROVE text[i] # 0
    OBVIOUS
  <2>1. i \in good /\ i \in 1..i
    BY <1>2
  <2> QED BY <2>1
<1>5. UpToNul(text) = SubSeq(text, 1, k)
  <2>1. UpToNul(text) = SubSeq(text, 1, IF m < k THEN m ELSE k)
    BY <1>3 DEF UpToNul, Cut
  <2> QED BY <1>2, <2>1
<1> HIDE DEF m, good, zeros
<1> DEFINE cut == SubSeq(text, 1, k)
<1>6. cut \in Seq(Nat) /\ Len(cut) = k /\ \A i \in 1..k : cut[i] = text[i]
  BY <1>1, <1>2 DEF m
<1> HIDE DEF cut
<1>7. 0 \notin Range(cut)
  BY <1>4, <1>6 DEF Range
<1> QED
  BY <1>2, <1>5, <1>6, <1>7 DEF m, cut

(* A text that is cut to the length of its info, and to its first NUL, fits. *)
LEMMA AssignCFits ==
  ASSUME NEW info, WellMade(info), info.type = "String", NEW text \in Seq(Nat),
         NEW r \in AssignC(info, text)
  PROVE  FitValue(info, r.val)
<1> DEFINE len == info.len
           k == IF Len(text) < len THEN Len(text) ELSE len
           cut == Cut(text, len)
<1>1. len \in Nat
  BY DEF WellMade
<1>2. cut \in Seq(Nat) /\ Len(cut) <= len
  BY <1>1 DEF Cut
<1>3. r.val = UpToNul(cut)
  BY DEF AssignC, Result
<1> HIDE DEF cut
<1>4. /\ r.val \in Seq(Nat) /\ 0 \notin Range(r.val) /\ Len(r.val) <= Len(cut)
  BY <1>2, <1>3, NoNulLeft
<1>5. Len(r.val) \in Nat /\ Len(cut) \in Nat
  BY <1>2, <1>4
<1> QED
  BY <1>1, <1>2, <1>4, <1>5 DEF FitValue

(* What is not in the domain is refused when there are no options. *)
LEMMA OutIsRefused ==
  ASSUME NEW info, NEW nearest
  PROVE  OutOfDomain(info, Unset, nearest, NoOptions) = {Error(Unset)}
BY DEF OutOfDomain, NoOptions

(* A number in the domain fits. *)
LEMMA AssignIFits ==
  ASSUME NEW info, WellMade(info), info.type # "String", NEW n,
         NEW r \in AssignI(info, Unset, n, NoOptions)
  PROVE  FitValue(info, r.val)
<1>1. CASE n \in info.imin..info.imax
  <2>1. r = Result(n)
    BY <1>1 DEF AssignI, WellMade
  <2>2. r.val = n
    BY <2>1 DEF Result
  <2> QED BY <1>1, <2>2 DEF FitValue
<1>2. CASE n \notin info.imin..info.imax
  <2>1. r = Error(Unset)
    BY <1>2, OutIsRefused DEF AssignI
  <2>2. r.val = Unset
    BY <2>1 DEF Error
  <2> QED BY <2>2 DEF FitValue
<1> QED
  BY <1>1, <1>2

(* Rounding does not leave whole bounds. *)
LEMMA RintStays ==
  ASSUME NEW d \in Int, NEW unit \in Nat \ {0}, NEW a \in Int, NEW b \in Int,
         a * unit <= d, d <= b * unit
  PROVE  Rint(d, unit) \in a..b
<1>1. PICK below \in Int, rest \in 0..(unit - 1) : below = d \div unit /\ rest = d % unit
  OBVIOUS
<1>2. d = below * unit + rest
  BY <1>1
<1>3. Rint(d, unit) = IF 2 * rest > unit \/ (2 * rest = unit /\ below % 2 = 1)
                      THEN below + 1 ELSE below
  BY <1>1 DEF Rint
<1>4. a <= below
  <2> SUFFICES ASSUME below + 1 <= a PROVE FALSE
    OBVIOUS
  <2>1. (below + 1) * unit <= a * unit
    OBVIOUS
  <2>2. (below + 1) * unit = below * unit + unit
    OBVIOUS
  <2> QED BY <2>1, <2>2, <1>2
<1>5. below <= b /\ (below = b => rest = 0)
  <2>1. ASSUME b + 1 <= below PROVE FALSE
    <3>1. (b + 1) * unit <= below * unit
      BY <2>1
    <3>2. (b + 1) * unit = b * unit + unit
      OBVIOUS
    <3> QED BY <3>1, <3>2, <1>2
  <2> QED BY <2>1, <1>2
<1> QED
  BY <1>3, <1>4, <1>5

(* So does a measure that is rounded to the step, as the bounds are whole steps. *)
LEMMA AssignDFits ==
  ASSUME NEW info, WellMade(info), info.type = "Decimal", NEW d \in Int \cup {NaN},
         NEW r \in AssignD(info, Unset, d, NoOptions)
  PROVE  FitValue(info, r.val)
<1>1. PICK unit \in Nat \ {0} : unit = Step(info)
  BY DEF WellMade
<1>2. info.imin \in Int /\ info.imax \in Int
  BY DEF WellMade
<1>3. /\ Measure(info, info.imin) = info.imin * unit
      /\ Measure(info, info.imax) = info.imax * unit
  BY <1>1 DEF Measure
<1>4. CASE r = Error(Unset)
  BY <1>4 DEF FitValue, Error
<1>5. CASE r # Error(Unset)
  <2>1. /\ d # NaN /\ r = Result(Rint(d, unit))
        /\ ~(d < info.imin * unit) /\ ~(d > info.imax * unit)
    BY <1>1, <1>3, <1>5, OutIsRefused DEF AssignD, EncodeDecimal
  <2>2. d \in Int
    BY <2>1
  <2>3. Rint(d, unit) \in info.imin..info.imax
    BY <1>2, <2>1, <2>2, RintStays
  <2>4. r.val = Rint(d, unit)
    BY <2>1 DEF Result
  <2> QED BY <2>3, <2>4 DEF FitValue
<1> QED
  BY <1>4, <1>5

(* What Python gives fits, or is refused. *)
LEMMA GivenFits ==
  ASSUME NEW info, WellMade(info), NEW v \in PyValues,
         NEW r \in ValueFromPython(info, Unset, v)
  PROVE  FitValue(info, r.val)
<1>1. \/ v.py = "int" /\ v.is \in Int
      \/ v.py = "float" /\ v.is \in Int \cup {NaN}
      \/ v.py \in {"bytes", "str"} /\ v.is \in Seq(Nat)
      \/ v.py = "other"
  BY GivenAssumption
<1>2. info.type \in {"String", "Integer", "Decimal"}
  BY DEF WellMade
<1>3. FitValue(info, Error(Unset).val)
  BY DEF Error, FitValue
<1>4. ASSUME NEW n, NEW x \in SetI(info, Unset, n, NoOptions)
      PROVE  FitValue(info, x.val) /\ Raise(x).val = x.val
  <2>1. info.type # "String" /\ x \in AssignI(info, Unset, n, NoOptions)
    BY <1>4 DEF SetI, IsText
  <2>2. x = Result(n) \/ x = Error(Unset)
    BY <2>1, OutIsRefused DEF AssignI
  <2>3. x = [val |-> n, raised |-> FALSE] \/ x = [val |-> Unset, raised |-> TRUE]
    BY <2>2 DEF Result, Error
  <2> QED BY <2>1, <2>3, AssignIFits DEF Raise
<1>5. CASE v.py = "int"
  <2>1. Abs(v.is) \in Int
    BY <1>1, <1>5 DEF Abs
  <2>2. CASE Abs(v.is) <= LongMax
    <3>1. r \in OrThrow(SetI(info, Unset, Signed(v.is), NoOptions), Unset)
      BY <1>5, <2>1, <2>2, ObjectsAssumption DEF ValueFromPython
    <3>2. r \in SetI(info, Unset, Signed(v.is), NoOptions) \/ r = Error(Unset)
      BY <3>1 DEF OrThrow
    <3> QED BY <1>3, <1>4, <3>2
  <2>3. CASE Abs(v.is) > LongMax
    <3>1. ~(Abs(v.is) <= LongMax)
      BY <2>1, <2>3, ObjectsAssumption
    <3>2. r \in OrThrow({Raise(x) : x \in SetI(info, Unset, -1, NoOptions)}, Unset)
      BY <1>5, <2>3, <3>1 DEF ValueFromPython
    <3>3. r \in {Raise(x) : x \in SetI(info, Unset, -1, NoOptions)} \/ r = Error(Unset)
      BY <3>2 DEF OrThrow
    <3> QED BY <1>3, <1>4, <3>3
  <2> QED BY <2>1, <2>2, <2>3, ObjectsAssumption
<1>6. ASSUME NEW d \in Int \cup {NaN}, NEW x \in SetD(info, Unset, d, NoOptions)
      PROVE  FitValue(info, x.val)
  <2>1. CASE info.type = "Integer"
    <3>1. \E n : x \in AssignI(info, Unset, n, NoOptions)
      BY <1>6, <2>1 DEF SetD, IsText
    <3> QED BY <2>1, <3>1, AssignIFits
  <2>2. CASE info.type = "Decimal"
    <3>1. x \in AssignD(info, Unset, d, NoOptions)
      BY <1>6, <2>2 DEF SetD, IsText
    <3> QED BY <2>2, <3>1, AssignDFits
  <2>3. CASE info.type = "String"
    BY <1>6, <2>3 DEF SetD, IsText
  <2> QED BY <1>2, <2>1, <2>2, <2>3
<1>7. CASE v.py = "float"
  <2>1. r \in SetD(info, Unset, v.is, NoOptions) \/ r = Error(Unset)
    BY <1>7 DEF ValueFromPython, OrThrow
  <2>2. v.is \in Int \cup {NaN}
    BY <1>1, <1>7
  <2> QED BY <1>3, <1>6, <2>1, <2>2
<1>8. ASSUME NEW text \in Seq(Nat),
             NEW x, \/ x \in SetC(info, Unset, text, NoOptions)
                    \/ x \in SetS(info, Unset, text, NoOptions)
      PROVE  FitValue(info, x.val)
  <2>1. CASE info.type = "String"
    <3>1. x \in AssignC(info, text)
      BY <1>8, <2>1 DEF SetC, SetS, IsText
    <3> QED BY <2>1, <3>1, AssignCFits
  <2>2. CASE info.type # "String"
    <3>1. x \in SetNumberText(info, Unset, text, NoOptions)
      BY <1>2, <1>8, <2>2 DEF SetC, SetS, IsText
    <3>2. x \in AssignI(info, Unset, NumberIn(text), NoOptions) \/ x = Result(Unset)
      BY <3>1 DEF SetNumberText
    <3>3. FitValue(info, Result(Unset).val)
      BY DEF FitValue, Result
    <3> QED BY <2>2, <3>2, <3>3, AssignIFits
  <2> QED BY <2>1, <2>2
<1>9. CASE v.py = "bytes"
  <2>1. r \in SetC(info, Unset, UpToNul(v.is), NoOptions) \/ r = Error(Unset)
    BY <1>9 DEF ValueFromPython, OrThrow
  <2>2. UpToNul(v.is) \in Seq(Nat)
    BY <1>1, <1>9, NoNulLeft
  <2> QED BY <1>3, <1>8, <2>1, <2>2
<1>10. CASE v.py = "str"
  <2>1. r \in SetS(info, Unset, v.is, NoOptions) \/ r = Error(Unset)
    BY <1>10 DEF ValueFromPython, OrThrow
  <2> QED BY <1>1, <1>3, <1>8, <1>10, <2>1
<1>11. CASE v.py = "other"
  <2>1. r = Error(Unset)
    BY <1>11 DEF ValueFromPython, OrThrow
  <2> QED BY <1>3, <2>1
<1> QED
  BY <1>1, <1>5, <1>7, <1>9, <1>10, <1>11

(* setval gives back what fits its own info. *)
LEMMA SetValGivesBack ==
  ASSUME NEW info, WellMade(info), NEW val, FitValue(info, val)
  PROVE  SetVal(info, Unset, info, val, NoOptions) = {Result(val)}
<1>1. CASE val = Unset
  BY <1>1 DEF SetVal
<1>2. CASE val # Unset /\ info.type = "String"
  <2>1. val \in Seq(Nat) /\ 0 \notin Range(val) /\ Len(val) <= info.len
    BY <1>2 DEF FitValue
  <2>2. info.len \in Nat
    BY <1>2 DEF WellMade
  <2>3. Cut(val, info.len) = val
    BY <2>1, <2>2 DEF Cut
  <2>4. UpToNul(val) = val
    BY <2>1, <2>2, <2>3, NothingCut
  <2>5. SetVal(info, Unset, info, val, NoOptions) = SetC(info, Unset, val, NoOptions)
    BY <1>2 DEF SetVal, IsText, Text
  <2>6. SetC(info, Unset, val, NoOptions) = AssignC(info, val)
    BY <1>2 DEF SetC, IsText
  <2> QED BY <2>3, <2>4, <2>5, <2>6 DEF AssignC
<1>3. CASE val # Unset /\ info.type # "String"
  <2> DEFINE d == Measure(info, val)
  <2>1. /\ info.imin \in Int /\ info.imax \in Int /\ info.type \in {"Integer", "Decimal"}
        /\ val \in info.imin..info.imax /\ val \in Int
    BY <1>3 DEF WellMade, FitValue
  <2>2. SetVal(info, Unset, info, val, NoOptions) = SetD(info, Unset, d, NoOptions)
    <3>1. ConvertUnits(info.unit, info.unit, d) = {d}
      BY DEF ConvertUnits
    <3>2. ~IsText(info.type)
      BY <2>1 DEF IsText
    <3> QED BY <1>3, <3>1, <3>2 DEF SetVal
  <2>3. CASE info.type = "Integer"
    <3>1. PICK p \in Nat \ {0} : p = 10^Places
      <4>1. 10^Places \in Int
        BY WidthsAssumption
      <4> QED BY <4>1, WidthsAssumption
    <3>2. d = val * p
      <4>1. info.scale = 0 /\ Places - 0 = Places
        BY <2>3, WidthsAssumption DEF WellMade
      <4> QED BY <3>1, <4>1 DEF Measure, Step
    <3>3. d \in Int /\ d # NaN
      BY <2>1, <3>1, <3>2, WidthsAssumption
    <3> HIDE DEF d
    <3>4. PICK a \in Nat : a = Abs(val)
      BY <2>1 DEF Abs
    <3>5. Abs(d) = a * p
      <4>1. CASE val < 0
        <5>1. -val \in Nat /\ -val * p \in Nat /\ a = -val
          BY <2>1, <3>1, <3>4, <4>1 DEF Abs
        <5>2. a * p = -d
          BY <2>1, <3>1, <3>2, <5>1
        <5>3. a \in Nat \ {0}
          BY <2>1, <3>4, <4>1 DEF Abs
        <5>4. a * p > 0
          BY <3>1, <5>3
        <5>5. d < 0
          BY <3>3, <5>2, <5>4
        <5> QED BY <5>2, <5>5 DEF Abs
      <4>2. CASE ~(val < 0)
        <5>1. a = val
          BY <3>4, <4>2 DEF Abs
        <5>2. d = a * p /\ d >= 0
          BY <2>1, <3>1, <3>2, <5>1, <4>2
        <5> QED BY <3>3, <5>2 DEF Abs
      <4> QED BY <4>1, <4>2
    <3>6. (2 * Abs(d) + p) \div (2 * p) = a
      <4>1. PICK unit \in Nat \ {0} : unit = 2 * p /\ p \in 0..(unit - 1)
        BY <3>1
      <4>2. 2 * Abs(d) + p = a * unit + p
        BY <3>1, <3>4, <3>5, <4>1
      <4>3. (a * unit + p) \div unit = a
        BY <3>4, <4>1, DivIs
      <4> QED BY <4>1, <4>2, <4>3
    <3>7. Lround(d) = val
      <4>1. Lround(d) = IF d < 0 THEN -a ELSE a
        BY <3>1, <3>6 DEF Lround
      <4>2. CASE val < 0
        <5>1. a = -val /\ a * p > 0
          BY <2>1, <3>1, <3>4, <4>2 DEF Abs
        <5>2. a * p = -d
          BY <2>1, <3>1, <3>2, <5>1
        <5> QED BY <2>1, <3>3, <4>1, <5>1, <5>2
      <4>3. CASE ~(val < 0)
        <5>1. a = val /\ d >= 0
          BY <2>1, <3>1, <3>2, <3>4, <4>3 DEF Abs
        <5> QED BY <3>3, <4>1, <5>1
      <4> QED BY <4>2, <4>3
    <3>8. Signed(val) = val
      <4>1. val \in IntMin..IntMax
        BY <2>1, <2>3, WordIs DEF WellMade
      <4> QED BY <2>1, <4>1, SignedIs
    <3>9. SetD(info, Unset, d, NoOptions) = AssignI(info, Unset, val, NoOptions)
      BY <2>3, <3>3, <3>7, <3>8 DEF SetD, IsText
    <3>10. AssignI(info, Unset, val, NoOptions) = {Result(val)}
      BY <2>1 DEF AssignI
    <3> QED BY <2>2, <3>9, <3>10 DEF d
  <2>4. CASE info.type = "Decimal"
    <3>1. PICK unit \in Nat \ {0} : unit = Step(info)
      BY <2>4 DEF WellMade
    <3>2. d = val * unit
      BY <3>1 DEF Measure
    <3>3. d \in Int /\ d # NaN
      BY <2>1, <3>1, <3>2, WidthsAssumption
    <3>4. info.imin * unit <= d /\ d <= info.imax * unit
      BY <2>1, <3>1, <3>2
    <3>5. /\ Measure(info, info.imin) = info.imin * unit
          /\ Measure(info, info.imax) = info.imax * unit
      BY <3>1 DEF Measure
    <3> HIDE DEF d
    <3>6. Rint(d, unit) = val
      <4>1. 0 \in 0..(unit - 1) /\ d = val * unit + 0
        BY <2>1, <3>1, <3>2
      <4>2. d \div unit = val /\ d % unit = 0
        BY <2>1, <4>1, DivIs
      <4> QED BY <3>1, <4>2 DEF Rint
    <3>7. ~(d < Measure(info, info.imin)) /\ ~(d > Measure(info, info.imax))
      BY <2>1, <3>1, <3>3, <3>4, <3>5
    <3>8. AssignD(info, Unset, d, NoOptions) = {Result(val)}
      BY <3>1, <3>3, <3>6, <3>7 DEF AssignD, EncodeDecimal
    <3>9. SetD(info, Unset, d, NoOptions) = AssignD(info, Unset, d, NoOptions)
      BY <2>4 DEF SetD, IsText
    <3> QED BY <2>2, <3>8, <3>9 DEF d
  <2> QED BY <2>1, <2>3, <2>4
<1> QED
  BY <1>1, <1>2, <1>3

(* A value fits the entry at p of a memory. *)
FitAt(mem, p, val) == p \in 1..Len(mem) /\ FitValue(mem[p].info, val)

(* So do the value of a variable and those of its attributes, which go by codes. *)
FitVar(mem, v) ==
  /\ FitAt(mem, v.info, v.val)
  /\ DOMAIN v.attrs \subseteq Varcode
  /\ \A c \in DOMAIN v.attrs : FitAt(mem, v.attrs[c].info, v.attrs[c].val)

(* What get_attrs makes of an attribute is its value alone. *)
LEMMA ListedIs ==
  ASSUME MadeEntries(memory), NEW v, FitVar(memory, v), NEW c \in DOMAIN v.attrs
  PROVE  ListedAttr(v, c) = Variable(v.attrs[c].info, v.attrs[c].val, NoAttrs)
<1> DEFINE a == v.attrs[c]
           info == InfoAt(a.info)
<1>1. WellMade(info) /\ FitValue(info, a.val)
  BY DEF FitVar, FitAt, MadeEntries, InfoAt
<1> HIDE DEF info
<1>2. SetVal(info, Unset, info, a.val, NoOptions) = {Result(a.val)}
  BY <1>1, SetValGivesBack
<1>3. (CHOOSE r \in {Result(a.val)} : TRUE) = Result(a.val)
  OBVIOUS
<1>4. ListedAttr(v, c) = Variable(a.info, Result(a.val).val, NoAttrs)
  BY <1>2, <1>3 DEF ListedAttr, info
<1> QED
  BY <1>4 DEF Result

(* The codes of attributes are ranked apart. *)
LEMMA RanksDiffer ==
  ASSUME NEW c \in Varcode, NEW d \in Varcode
  PROVE  /\ Rank(c) \in Int
         /\ Rank(c) = Rank(d) => c = d
<1>1. PICK f \in 0..3, x \in 0..63, y \in 0..255 : c = <<f, x, y>>
  <2>1. /\ c = <<c[1], c[2], c[3]>>
        /\ c[1] \in 0..3 /\ c[2] \in 0..63 /\ c[3] \in 0..255
    BY DEF Varcode
  <2> QED BY <2>1
<1>2. PICK g \in 0..3, u \in 0..63, w \in 0..255 : d = <<g, u, w>>
  <2>1. /\ d = <<d[1], d[2], d[3]>>
        /\ d[1] \in 0..3 /\ d[2] \in 0..63 /\ d[3] \in 0..255
    BY DEF Varcode
  <2> QED BY <2>1
<1>3. Rank(c) = (f * 64 + x) * 256 + y /\ Rank(d) = (g * 64 + u) * 256 + w
  BY <1>1, <1>2 DEF Rank
<1>4. Rank(c) = Rank(d) => y = w /\ f * 64 + x = g * 64 + u
  BY <1>1, <1>2, <1>3
<1>5. f * 64 + x = g * 64 + u => f = g /\ x = u
  BY <1>1, <1>2
<1> QED
  BY <1>1, <1>2, <1>3, <1>4, <1>5

(* There is one of each place among them. *)
LEMMA NthIsThere ==
  ASSUME NEW codes \in SUBSET Varcode, IsFiniteSet(codes), NEW i \in 1..Cardinality(codes)
  PROVE  Nth(codes, i) \in codes
<1> DEFINE n == Cardinality(codes)
           below(c) == {d \in codes : Rank(d) < Rank(c)}
           place == [c \in codes |-> Cardinality(below(c))]
<1>1. n \in Nat
  BY FS_CardinalityType
<1>2. ASSUME NEW c \in codes
      PROVE  IsFiniteSet(below(c)) /\ Cardinality(below(c)) \in 0..(n - 1)
  <2>1. IsFiniteSet(below(c)) /\ c \notin below(c) /\ below(c) \subseteq codes
    BY FS_Subset, RanksDiffer
  <2> HIDE DEF below
  <2>2. Cardinality(below(c) \cup {c}) = Cardinality(below(c)) + 1
    BY <2>1, FS_AddElement
  <2>3. below(c) \cup {c} \subseteq codes
    BY <2>1
  <2>4. Cardinality(below(c) \cup {c}) <= n
    BY <2>3, FS_Subset
  <2>5. Cardinality(below(c)) \in Nat
    BY <2>1, FS_CardinalityType
  <2> QED BY <1>1, <2>1, <2>2, <2>4, <2>5
<1>3. ASSUME NEW c \in codes, NEW d \in codes, Rank(c) < Rank(d)
      PROVE  place[c] < place[d]
  <2>1. below(c) \cup {c} \subseteq below(d) /\ c \notin below(c)
    BY <1>3, RanksDiffer
  <2> HIDE DEF below
  <2>2. Cardinality(below(c) \cup {c}) = Cardinality(below(c)) + 1
    BY <1>2, <2>1, FS_AddElement
  <2>3. Cardinality(below(c) \cup {c}) <= Cardinality(below(d))
    BY <1>2, <2>1, FS_Subset
  <2> QED BY <1>1, <1>2, <2>2, <2>3
<1>4. ASSUME NEW c \in codes
      PROVE  place[c] \in 0..(n - 1) /\ place[c] = Cardinality(below(c))
  BY <1>2
<1> HIDE DEF below
<1>5. place \in [codes -> 0..(n - 1)]
  BY <1>4
<1> HIDE DEF place
<1>6. \A c, d \in codes : place[c] = place[d] => c = d
  <2> SUFFICES ASSUME NEW c \in codes, NEW d \in codes, place[c] = place[d]
               PROVE  c = d
    OBVIOUS
  <2>1. /\ c \in Varcode /\ d \in Varcode /\ place[c] \in Int /\ place[d] \in Int
    BY <1>4
  <2>2. ~(Rank(c) < Rank(d)) /\ ~(Rank(d) < Rank(c))
    BY <1>3, <2>1
  <2> QED BY <2>1, <2>2, RanksDiffer
<1>7. place \in Injection(codes, 0..(n - 1))
  BY <1>5, <1>6 DEF Injection, IsInjective
<1>8. IsFiniteSet(0..(n - 1)) /\ Cardinality(0..(n - 1)) = n
  <2>1. n - 1 \in Int
    BY <1>1
  <2>2. /\ IsFiniteSet(0..(n - 1))
        /\ Cardinality(0..(n - 1)) = IF 0 > n - 1 THEN 0 ELSE (n - 1) - 0 + 1
    BY <2>1, FS_Interval
  <2> QED BY <1>1, <2>2
<1>9. place \in Surjection(codes, 0..(n - 1))
  BY <1>7, <1>8, FS_Injection
<1>10. i - 1 \in 0..(n - 1)
  BY <1>1
<1>11. PICK c \in codes : place[c] = i - 1
  BY <1>9, <1>10 DEF Surjection
<1>12. Cardinality({d \in codes : Rank(d) < Rank(c)}) = i - 1
  BY <1>4, <1>11 DEF below
<1> QED
  BY <1>12 DEF Nth

----------------------------------------------------------------------------
(* What objects hold, whoever goes. *)

Records(w) == IsWorld(w) /\ \A s \in DOMAIN w.objs : IsObject(w.objs[s])

(* Objects of T may go, and the others stay with what they hold. *)
Leaves(w, z, T) ==
  /\ Records(z)
  /\ DOMAIN z.objs \subseteq DOMAIN w.objs /\ DOMAIN w.objs \ T \subseteq DOMAIN z.objs
  /\ \A r \in DOMAIN z.objs :
       z.objs[r].type = w.objs[r].type /\ z.objs[r].holds = w.objs[r].holds

(* Some go after others. *)
LEMMA LeavesOn ==
  ASSUME NEW w, NEW y, NEW z, NEW T, Leaves(w, y, T), Leaves(y, z, T)
  PROVE  Leaves(w, z, T)
BY DEF Leaves

(* More may have gone. *)
LEMMA LeavesMore ==
  ASSUME NEW w, NEW z, NEW T, NEW U, T \subseteq U, Leaves(w, z, T)
  PROVE  Leaves(w, z, U)
BY DEF Leaves

(* A reference is counted off, or on, and nothing else changes. *)
LEMMA CountChanges ==
  ASSUME NEW w, Records(w), NEW s, NEW n, NEW z, z = [w EXCEPT !.objs[s].rc = n]
  PROVE  Leaves(w, z, {}) /\ z.names = w.names
<1>1. /\ IsWorld(z) /\ z.objs = [w.objs EXCEPT ![s].rc = n] /\ z.names = w.names
  BY DEF Records, IsWorld
<1>2. ASSUME NEW r \in DOMAIN w.objs
      PROVE  /\ IsObject(z.objs[r]) /\ z.objs[r].type = w.objs[r].type
             /\ z.objs[r].holds = w.objs[r].holds
  <2>1. IsObject(w.objs[r])
    BY DEF Records
  <2>2. CASE r = s
    <3>1. z.objs[r] = [w.objs[r] EXCEPT !.rc = n]
      BY <1>1, <2>2
    <3> QED BY <2>1, <3>1 DEF IsObject
  <2>3. CASE r # s
    BY <1>1, <2>1, <2>3
  <2> QED BY <2>2, <2>3
<1>3. DOMAIN z.objs = DOMAIN w.objs
  BY <1>1
<1> QED
  BY <1>1, <1>2, <1>3 DEF Leaves, Records

(* Incref leaves all of them. *)
LEMMA IncrefLeaves ==
  ASSUME NEW w, Records(w), NEW s
  PROVE  Leaves(w, Incref(w, s), {}) /\ Incref(w, s).names = w.names
<1>1. Incref(w, s) = [w EXCEPT !.objs[s].rc = w.objs[s].rc + 1]
  BY DEF Incref
<1> QED
  BY <1>1, CountChanges

(* Without a list, one may go. *)
LEMMA DecrefOneLeaves ==
  ASSUME NEW w, Records(w), NEW s
  PROVE  Leaves(w, DecrefOne(w, s), {s}) /\ DecrefOne(w, s).names = w.names
<1> DEFINE z == DecrefOne(w, s)
<1>1. CASE w.objs[s].rc > 1
  <2>1. z = [w EXCEPT !.objs[s].rc = w.objs[s].rc - 1]
    BY <1>1 DEF DecrefOne
  <2> HIDE DEF z
  <2>2. Leaves(w, z, {}) /\ z.names = w.names
    BY <2>1, CountChanges
  <2> QED BY <2>2, LeavesMore DEF z
<1>2. CASE ~(w.objs[s].rc > 1)
  <2> DEFINE gone == w.crashed \/ (w.objs[s].type = "Var" /\ w.objs[s].holds = NullPointer)
  <2>1. z = [w EXCEPT !.objs = Only(w.objs, DOMAIN w.objs \ {s}), !.crashed = gone]
    BY <1>2 DEF DecrefOne, Dealloc
  <2> HIDE DEF z, gone
  <2>2. IsWorld(z) /\ z.objs = Only(w.objs, DOMAIN w.objs \ {s}) /\ z.names = w.names
    BY <2>1 DEF Records, IsWorld
  <2>3. /\ DOMAIN z.objs = DOMAIN w.objs \ {s}
        /\ \A r \in DOMAIN z.objs : z.objs[r] = w.objs[r]
    BY <2>2 DEF Only
  <2> QED BY <2>2, <2>3 DEF Leaves, Records, z
<1> QED
  BY <1>1, <1>2

(* What goes with an object: itself, and what it lists. *)
Dropped(w, s) ==
  {s} \cup (IF w.objs[s].type = "list" THEN Range(w.objs[s].holds) ELSE {})

(* Of what a list held, all may go. *)
LEMMA DropAllLeaves ==
  ASSUME NEW w, Records(w), NEW items, IsSequence(items)
  PROVE  Leaves(w, DropAll(w, items), Range(items)) /\ DropAll(w, items).names = w.names
<1> DEFINE drop == CHOOSE drop : IsDrop(w, items, drop, Len(items))
           m == Len(items)
           T == Range(items)
<1>1. m \in Nat /\ \A i \in 1..m : items[i] \in T
  BY DEF IsSequence, Range
<1>2. IsDrop(w, items, drop, m)
  BY <1>1, DropExists
<1>3. DropAll(w, items) = drop[m]
  BY DEF DropAll, IsDrop
<1> HIDE DEF drop, m, T
<1> DEFINE Kept(z) == Leaves(w, z, T) /\ z.names = w.names
           S == {i \in Nat : i <= m => Kept(drop[i])}
<1>4. 0 \in S
  <2>1. drop[0] = w
    BY <1>1, <1>2 DEF IsDrop
  <2>2. Kept(w)
    BY DEF Leaves
  <2> HIDE DEF Kept
  <2> QED BY <2>1, <2>2
<1>5. ASSUME NEW i \in Nat, i \in S
      PROVE  i + 1 \in S
  <2> SUFFICES ASSUME i + 1 <= m PROVE Kept(drop[i + 1])
    OBVIOUS
  <2>1. Kept(drop[i])
    <3> HIDE DEF Kept
    <3> QED BY <1>1, <1>5
  <2>2. i + 1 \in 1..m /\ i + 1 \in 0..m /\ (i + 1) - 1 = i
    BY <1>1
  <2> DEFINE y == drop[i]
             s == items[i + 1]
             z == DecrefOne(y, s)
  <2>3. drop[i + 1] = z /\ s \in T
    BY <1>1, <1>2, <2>2 DEF IsDrop
  <2> HIDE DEF y, s, z
  <2>4. Leaves(w, y, T) /\ y.names = w.names /\ Records(y)
    BY <2>1 DEF y, Leaves
  <2>5. Leaves(y, z, {s}) /\ z.names = y.names
    BY <2>4, DecrefOneLeaves DEF z
  <2>6. Leaves(y, z, T)
    BY <2>3, <2>5, LeavesMore
  <2>7. Leaves(w, z, T)
    BY <2>4, <2>6, LeavesOn
  <2> QED BY <2>3, <2>4, <2>5, <2>7
<1> HIDE DEF S
<1>6. Nat \subseteq S
  BY <1>4, <1>5, NatSetInduction
<1>7. Kept(drop[m])
  <2> HIDE DEF Kept
  <2> QED BY <1>1, <1>6 DEF S
<1> QED
  BY <1>3, <1>7 DEF T

(* A reference less: no more than these go. *)
LEMMA DecrefLeaves ==
  ASSUME NEW w, Records(w), NEW s, w.objs[s].type = "list" => IsSequence(w.objs[s].holds)
  PROVE  Leaves(w, Decref(w, s), Dropped(w, s)) /\ Decref(w, s).names = w.names
<1> DEFINE y == DecrefOne(w, s)
           items == w.objs[s].holds
<1>1. Leaves(w, y, {s}) /\ y.names = w.names /\ Records(y)
  BY DecrefOneLeaves DEF Leaves
<1>2. {s} \subseteq Dropped(w, s)
  BY DEF Dropped
<1> HIDE DEF y
<1>3. Leaves(w, y, Dropped(w, s))
  BY <1>1, <1>2, LeavesMore
<1>4. CASE ~(w.objs[s].type = "list" /\ w.objs[s].rc = 1)
  <2>1. Decref(w, s) = y
    BY <1>4 DEF Decref, y
  <2> QED BY <1>1, <1>3, <2>1
<1>5. CASE w.objs[s].type = "list" /\ w.objs[s].rc = 1
  <2> DEFINE z == DropAll(y, items)
  <2>1. Decref(w, s) = z
    BY <1>5 DEF Decref, y
  <2>2. Leaves(y, z, Range(items)) /\ z.names = y.names
    BY <1>1, <1>5, DropAllLeaves
  <2>3. Range(items) \subseteq Dropped(w, s)
    BY <1>5 DEF Dropped
  <2> HIDE DEF z, items
  <2>4. Leaves(y, z, Dropped(w, s))
    BY <2>2, <2>3, LeavesMore
  <2>5. Leaves(w, z, Dropped(w, s))
    BY <1>3, <2>4, LeavesOn
  <2> QED BY <1>1, <2>1, <2>2, <2>5
<1> QED
  BY <1>4, <1>5

(* Binding a name drops what it stood for. *)
LEMMA BindLeaves ==
  ASSUME NEW w, Records(w), NEW n, NEW x,
         \A s \in DOMAIN w.objs : w.objs[s].type = "list" => IsSequence(w.objs[s].holds),
         w.names[n] # Other => w.names[n] \in DOMAIN w.objs
  PROVE  /\ Leaves(w, Bind(w, n, x),
                   IF w.names[n] = Other THEN {} ELSE Dropped(w, w.names[n]))
         /\ Bind(w, n, x).names = [w.names EXCEPT ![n] = x]
<1> DEFINE old == w.names[n]
           z == [w EXCEPT !.names[n] = x]
<1>1. /\ IsWorld(z) /\ z.objs = w.objs /\ z.names = [w.names EXCEPT ![n] = x]
  BY DEF IsWorld, Records
<1>2. Records(z) /\ Leaves(w, z, {})
  BY <1>1 DEF Records, Leaves
<1>3. Bind(w, n, x) = IF old = Other THEN z ELSE Decref(z, old)
  BY DEF Bind
<1> HIDE DEF z, old
<1>4. CASE old = Other
  BY <1>1, <1>2, <1>3, <1>4 DEF old
<1>5. CASE old # Other
  <2>1. z.objs[old].type = "list" => IsSequence(z.objs[old].holds)
    BY <1>1, <1>5 DEF old
  <2>2. Leaves(z, Decref(z, old), Dropped(z, old)) /\ Decref(z, old).names = z.names
    BY <1>2, <2>1, DecrefLeaves
  <2>3. Dropped(z, old) = Dropped(w, old)
    BY <1>1 DEF Dropped
  <2>4. Leaves(w, z, Dropped(w, old))
    BY <1>2, LeavesMore
  <2>5. Leaves(w, Decref(z, old), Dropped(w, old))
    BY <2>2, <2>3, <2>4, LeavesOn
  <2> QED BY <1>1, <1>3, <1>5, <2>2, <2>5 DEF old
<1> QED
  BY <1>4, <1>5

(* What AppendAll has made after n attributes: a list of so many new variables, each
   with what it lists. *)
Listed(w, list, v, z, n) ==
  LET items == z.objs[list].holds
  IN /\ Records(z) /\ z.names = w.names
     /\ list \in DOMAIN z.objs /\ z.objs[list].type = "list"
     /\ IsSequence(items) /\ Len(items) = n
     /\ DOMAIN z.objs = DOMAIN w.objs \cup Range(items)
     /\ \A r \in DOMAIN w.objs : r # list => z.objs[r] = w.objs[r]
     /\ \A i \in 1..n : /\ items[i] \in Slot \ DOMAIN w.objs
                        /\ z.objs[items[i]].type = "Var"
                        /\ z.objs[items[i]].holds = ListedAttr(v, Nth(DOMAIN v.attrs, i))

(* One more. *)
LEMMA ListedOn ==
  ASSUME NEW w, NEW list \in DOMAIN w.objs, NEW v, NEW y, NEW n \in Nat,
         Listed(w, list, v, y, n), FreeSlots(y) # {}
  PROVE  LET z == AppendTo(y, list, ListedAttr(v, Nth(DOMAIN v.attrs, n + 1)))
         IN /\ Listed(w, list, v, z, n + 1)
            /\ FreeSlots(z) = FreeSlots(y) \ {FirstFree(y)}
<1> DEFINE a == ListedAttr(v, Nth(DOMAIN v.attrs, n + 1))
           z == AppendTo(y, list, a)
           s == FirstFree(y)
           old == y.objs[list].holds
           items == z.objs[list].holds
<1>1. /\ Records(y) /\ y.names = w.names /\ list \in DOMAIN y.objs
      /\ y.objs[list].type = "list" /\ IsSequence(old) /\ Len(old) = n
      /\ DOMAIN y.objs = DOMAIN w.objs \cup Range(old)
      /\ \A r \in DOMAIN w.objs : r # list => y.objs[r] = w.objs[r]
      /\ \A i \in 1..n : /\ old[i] \in Slot \ DOMAIN w.objs
                         /\ y.objs[old[i]].type = "Var"
                         /\ y.objs[old[i]].holds = ListedAttr(v, Nth(DOMAIN v.attrs, i))
  BY DEF Listed
<1>2. s \in Slot \ DOMAIN y.objs
  BY FirstFreeIsFree
<1>3. Appended(y, list, a, s, z)
  BY <1>1, AppendToIs DEF Records
<1> HIDE DEF a, s, z
<1>4. /\ IsWorld(z) /\ z.names = y.names
      /\ DOMAIN z.objs = DOMAIN y.objs \cup {s}
      /\ z.objs[s] = [type |-> "Var", rc |-> 1, holds |-> a]
      /\ z.objs[list] = [y.objs[list] EXCEPT !.holds = Append(@, s)]
      /\ \A r \in DOMAIN y.objs : r # list => z.objs[r] = y.objs[r]
  BY <1>3 DEF Appended
<1>5. /\ IsObject(z.objs[list]) /\ z.objs[list].type = "list" /\ items = Append(old, s)
  <2>1. IsObject(y.objs[list])
    BY <1>1 DEF Records
  <2> QED BY <1>1, <1>4, <2>1 DEF IsObject
<1>6. /\ IsSequence(Append(old, s)) /\ Len(Append(old, s)) = n + 1
      /\ Append(old, s)[n + 1] = s /\ \A i \in 1..n : Append(old, s)[i] = old[i]
  BY <1>1, AppendGrows
<1>7. IsSequence(items) /\ Len(items) = n + 1 /\ items[n + 1] = s
      /\ \A i \in 1..n : items[i] = old[i]
  BY <1>5, <1>6
<1> HIDE DEF items, old
<1>8. Records(z)
  <2>1. ASSUME NEW r \in DOMAIN z.objs PROVE IsObject(z.objs[r])
    <3>1. CASE r = s
      BY <1>4, <3>1 DEF IsObject, Kind
    <3>2. CASE r = list
      BY <1>5, <3>2
    <3>3. CASE r # s /\ r # list
      BY <1>1, <1>4, <3>3 DEF Records
    <3> QED BY <3>1, <3>2, <3>3
  <2> QED BY <1>4, <2>1 DEF Records
<1>9. Range(items) = Range(old) \cup {s}
  <2>1. DOMAIN items = 1..(n + 1) /\ DOMAIN old = 1..n
    BY <1>1, <1>7 DEF IsSequence, old
  <2>2. 1..(n + 1) = 1..n \cup {n + 1}
    OBVIOUS
  <2>3. Range(items) = {items[i] : i \in 1..(n + 1)} /\ Range(old) = {old[i] : i \in 1..n}
    BY <2>1 DEF Range
  <2> QED BY <1>7, <2>2, <2>3
<1>10. DOMAIN z.objs = DOMAIN w.objs \cup Range(items)
  BY <1>1, <1>4, <1>9 DEF old
<1>11. ASSUME NEW i \in 1..(n + 1)
       PROVE  /\ items[i] \in Slot \ DOMAIN w.objs
              /\ z.objs[items[i]].type = "Var"
              /\ z.objs[items[i]].holds = ListedAttr(v, Nth(DOMAIN v.attrs, i))
  <2>1. CASE i = n + 1
    BY <1>1, <1>2, <1>4, <1>7, <2>1 DEF a
  <2>2. CASE i # n + 1
    <3>1. i \in 1..n /\ items[i] = old[i]
      BY <1>7, <2>2
    <3>2. old[i] \in DOMAIN y.objs
      <4>1. old[i] \in Range(old)
        BY <1>1, <3>1 DEF old, IsSequence, Range
      <4> QED BY <1>1, <4>1 DEF old
    <3>3. old[i] # list /\ old[i] \in Slot \ DOMAIN w.objs
      BY <1>1, <3>1 DEF old
    <3>4. z.objs[old[i]] = y.objs[old[i]]
      BY <1>4, <3>2, <3>3
    <3> QED BY <1>1, <3>1, <3>3, <3>4 DEF old
  <2> QED BY <2>1, <2>2
<1>12. list # s /\ \A r \in DOMAIN w.objs : r # list => z.objs[r] = w.objs[r]
  BY <1>1, <1>2, <1>4
<1>13. Listed(w, list, v, z, n + 1)
  BY <1>1, <1>4, <1>5, <1>7, <1>8, <1>10, <1>11, <1>12 DEF Listed, items
<1>14. FreeSlots(z) = FreeSlots(y) \ {s}
  BY <1>4 DEF FreeSlots
<1> QED
  BY <1>13, <1>14 DEF z, s, a

(* All of them, while there are addresses for them. *)
LEMMA AppendAllLists ==
  ASSUME NEW w, Records(w), NEW list \in DOMAIN w.objs, NEW v,
         w.objs[list].type = "list", w.objs[list].holds = <<>>,
         IsFiniteSet(DOMAIN v.attrs),
         Cardinality(DOMAIN v.attrs) <= Cardinality(FreeSlots(w))
  PROVE  Listed(w, list, v, AppendAll(w, list, v), Cardinality(DOMAIN v.attrs))
<1> DEFINE m == Cardinality(DOMAIN v.attrs)
           made == CHOOSE made : IsListing(w, list, v, made, m)
           room == Cardinality(FreeSlots(w))
<1>1. m \in Nat /\ room \in Nat /\ m <= room
  BY FreeSlotsFinite, FS_CardinalityType
<1>2. IsListing(w, list, v, made, m)
  <2> HIDE DEF m
  <2> QED BY <1>1, ListingExists
<1>3. AppendAll(w, list, v) = made[m]
  BY DEF AppendAll, IsListing
<1> HIDE DEF made, m, room
<1> DEFINE Kept(z, i) == Listed(w, list, v, z, i) /\ Cardinality(FreeSlots(z)) = room - i
           S == {i \in Nat : i <= m => Kept(made[i], i)}
<1>4. 0 \in S
  <2>1. made[0] = w
    BY <1>1, <1>2 DEF IsListing
  <2>2. IsSequence(<<>>) /\ Len(<<>>) = 0 /\ Range(<<>>) = {}
    BY DEF IsSequence, Range
  <2>3. Listed(w, list, v, w, 0)
    BY <2>2 DEF Listed
  <2>4. Kept(w, 0)
    BY <1>1, <2>3 DEF room
  <2> HIDE DEF Kept
  <2> QED BY <2>1, <2>4
<1>5. ASSUME NEW i \in Nat, i \in S
      PROVE  i + 1 \in S
  <2> SUFFICES ASSUME i + 1 <= m PROVE Kept(made[i + 1], i + 1)
    OBVIOUS
  <2>1. Kept(made[i], i)
    <3> HIDE DEF Kept
    <3> QED BY <1>1, <1>5
  <2>2. i + 1 \in 0..m /\ i + 1 # 0 /\ (i + 1) - 1 = i
    BY <1>1
  <2> DEFINE y == made[i]
             z == AppendTo(y, list, ListedAttr(v, Nth(DOMAIN v.attrs, i + 1)))
  <2>3. made[i + 1] = z
    BY <1>2, <2>2 DEF IsListing
  <2> HIDE DEF y
  <2>4. Listed(w, list, v, y, i) /\ Cardinality(FreeSlots(y)) = room - i
    BY <2>1 DEF y
  <2>5. FreeSlots(y) # {}
    <3>1. Cardinality(FreeSlots(y)) # 0
      BY <1>1, <2>4
    <3> QED BY <3>1, FS_EmptySet
  <2>6. Listed(w, list, v, z, i + 1) /\ FreeSlots(z) = FreeSlots(y) \ {FirstFree(y)}
    BY <2>4, <2>5, ListedOn
  <2> HIDE DEF z
  <2>7. FirstFree(y) \in FreeSlots(y)
    BY <2>5, FirstFreeIsFree DEF FreeSlots
  <2>8. Cardinality(FreeSlots(z)) = room - (i + 1)
    <3>1. Cardinality(FreeSlots(z)) = Cardinality(FreeSlots(y)) - 1
      BY <2>6, <2>7, FreeSlotsFinite, FS_RemoveElement
    <3> QED BY <1>1, <2>4, <3>1
  <2> QED BY <2>3, <2>6, <2>8
<1> HIDE DEF S
<1>6. Nat \subseteq S
  BY <1>4, <1>5, NatSetInduction
<1>7. Kept(made[m], m)
  <2> HIDE DEF Kept
  <2> QED BY <1>1, <1>6 DEF S
<1> QED
  BY <1>3, <1>7 DEF m

----------------------------------------------------------------------------
(* Tables that an object may hold: those that have pointers for the codes they find. *)

Answering == {t \in BTable : IsNumbered(tables[t], Len(memory))}

(* A loaded table is one. *)
LEMMA LoadedAnswer ==
  ASSUME EntriesInv, NEW t \in Loaded
  PROVE  t \in Answering
<1> DEFINE entries == Parsed(t[1], tables[t].file)
<1>1. IsEntries(entries) /\ DOMAIN tables[t].chains = 1..Len(entries)
  BY HeadsOfFile DEF EntriesInv
<1> HIDE DEF entries
<1>2. Len(entries) \in Nat
  BY <1>1 DEF IsEntries, IsSequence
<1>3. IsTable(tables[t], Len(memory)) /\ t \in BTable
  BY DEF EntriesInv, IInv, Loaded
<1> QED
  BY <1>1, <1>2, <1>3 DEF Answering, IsNumbered

(* A table that is not changed goes on to be one. *)
LEMMA SameAnswers ==
  ASSUME NEW t \in Answering, EntriesInv, Grows, tables'[t] = tables[t]
  PROVE  t \in Answering'
<1>1. Len(memory) \in Nat /\ Len(memory') \in Nat /\ Len(memory) <= Len(memory')
  BY DEF EntriesInv, IInv, IsSequence, Grows
<1>2. t \in BTable /\ IsNumbered(tables[t], Len(memory))
  BY DEF Answering
<1>3. IsNumbered(tables'[t], Len(memory'))
  BY <1>1, <1>2, TableStays DEF IsNumbered
<1> QED
  BY <1>2, <1>3 DEF Answering

(* One that is loaded is one from then on. *)
LEMMA LoadAnswers ==
  ASSUME EntriesInv, NEW t \in BTable, Load(t)
  PROVE  t \in Answering' /\ Answering \subseteq Answering'
<1>1. Grows /\ IsNumbered(tables'[t], Len(memory'))
  BY LoadKeeps DEF EntriesInv, Stays
<1>2. t \in Answering'
  BY <1>1 DEF Answering
<1>3. \A u \in BTable \ {t} : tables'[u] = tables[u]
  BY DEF Load, EntriesInv, IInv
<1>4. \A u \in Answering : u \in BTable
  BY DEF Answering
<1>5. \A u \in Answering \ {t} : u \in Answering'
  BY <1>1, <1>3, <1>4, SameAnswers
<1> QED
  BY <1>2, <1>5

(* Every step leaves those that there are. *)
LEMMA LibraryAnswers ==
  ASSUME EntriesInv, [NextLibrary]_library
  PROVE  Answering \subseteq Answering'
<1>1. Grows
  BY LibraryMade
<1>2. UNCHANGED tables => Answering \subseteq Answering'
  BY <1>1, SameAnswers
<1>3. ASSUME NEW t \in BTable, HaveTable(t) PROVE Answering \subseteq Answering'
  BY <1>2, <1>3, LoadAnswers DEF HaveTable, library
<1>4. ASSUME NEW format \in Format, NEW name \in Wanted, Get(format, name)
      PROVE  Answering \subseteq Answering'
  <2> DEFINE t == <<format, Named[name]>>
  <2>1. t \in BTable /\ HaveTable(t)
    BY <1>4, FilesAssumption DEF Get, BTable
  <2> QED BY <1>3, <2>1
<1>5. ASSUME NEW t \in Loaded, NEW code, NEW a, QueryAltered(t, code, a)
      PROVE  Answering \subseteq Answering'
  <2>1. /\ IsNumbered(tables'[t], Len(memory'))
        /\ \A u \in BTable \ {t} : tables'[u] = tables[u]
    BY <1>5, LoadedAnswer, QueryAlteredKeeps DEF EntriesInv, Answering
  <2>2. t \in BTable /\ \A u \in Answering : u \in BTable
    BY DEF Loaded, Answering
  <2>3. t \in Answering'
    BY <2>1, <2>2 DEF Answering
  <2>4. \A u \in Answering \ {t} : u \in Answering'
    BY <1>1, <2>1, <2>2, SameAnswers
  <2> QED BY <2>3, <2>4
<1> QED
  BY <1>2, <1>4, <1>5, LoadAnswers DEF NextLibrary, LoadSequences, Replace, library

(* So does every step of the module. *)
LEMMA AnswersGrow ==
  ASSUME EntriesInv, [Next]_vars
  PROVE  Answering \subseteq Answering'
<1>1. CASE Import
  <2>1. Grows /\ UNCHANGED tables
    BY <1>1, ImportMade DEF Import
  <2> QED BY <2>1, SameAnswers
<1>2. CASE [NextLibrary]_library
  BY <1>2, LibraryAnswers
<1> QED
  BY <1>1, <1>2, LibraryOrImport

(* The pointer that a table gives for a code is one. *)
LEMMA QueryIsPointer ==
  ASSUME EntriesInv, NEW t \in Answering, NEW code \in VarCode, ContainsCode(t, code)
  PROVE  Query(t, code) \in 1..Len(memory)
<1> DEFINE chains == tables[t].chains
           codes == HeadCodes(t)
           narrow == CHOOSE narrow : IsNarrow(codes, code, narrow, Len(codes))
           found == narrow[Len(codes)][1]
<1>1. PICK n \in Nat : DOMAIN chains = 1..n /\ \A i \in 1..n : IsChain(chains[i], Len(memory))
  BY DEF Answering, IsNumbered, IsTable
<1>2. codes = [i \in 1..n |-> memory[chains[i][1]].info.code]
  BY <1>1 DEF HeadCodes
<1>3. Len(codes) = n /\ \A i \in 1..n : codes[i] \in VarCode
  <2>1. ASSUME NEW i \in 1..n PROVE codes[i] \in VarCode
    <3>1. chains[i][1] \in 1..Len(memory)
      BY <1>1, FirstOfChain
    <3>2. memory[chains[i][1]].info.code \in Varcode
      BY <3>1 DEF EntriesInv, MadeEntries, WellMade
    <3>3. Varcode \subseteq VarCode
      BY DEF Varcode, VarCode
    <3> HIDE DEF chains
    <3>4. codes[i] = memory[chains[i][1]].info.code
      BY <1>2
    <3> QED BY <3>2, <3>3, <3>4
  <2>2. Len(codes) = n
    <3> HIDE DEF codes, chains
    <3> QED BY <1>2
  <2> QED BY <2>1, <2>2
<1>4. Search(codes, code) = IF found = 0 \/ codes[found] # code THEN 0 ELSE found
  BY SearchIsNarrow
<1> HIDE DEF codes, chains
<1>5. IsNarrow(codes, code, narrow, Len(codes))
  BY <1>3, NarrowExists
<1> HIDE DEF narrow
<1>6. Bracket(codes, code, narrow[Len(codes)], Len(codes))
  BY <1>3, <1>5, LoopBrackets
<1>7. found \in 0..n
  BY <1>3, <1>6 DEF Bracket
<1> HIDE DEF found
<1>8. QueryEntry(t, code) = Search(codes, code) /\ QueryEntry(t, code) # 0
  BY DEF QueryEntry, ContainsCode, codes
<1>9. QueryEntry(t, code) \in 1..n
  BY <1>4, <1>7, <1>8
<1>10. IsChain(chains[QueryEntry(t, code)], Len(memory))
  BY <1>1, <1>9
<1> QED
  BY <1>10, FirstOfChain DEF Query, chains

----------------------------------------------------------------------------
(* What objects hold is what their kind holds, in a memory and with tables that
   answer. *)

FitObject(mem, answering, o) ==
  /\ IsObject(o)
  /\ o.type = "Vartable" => o.holds = NullPointer \/ o.holds \in answering
  /\ o.type = "Varinfo" => o.holds = NullPointer \/ o.holds \in 1..Len(mem)
  /\ o.type = "Var" => o.holds = NullPointer \/ FitVar(mem, o.holds)
  /\ o.type = "list" => IsSequence(o.holds)

FitWorld(mem, answering, w) ==
  IsWorld(w) /\ \A s \in DOMAIN w.objs : FitObject(mem, answering, w.objs[s])

(* What fits goes on to fit when there is more. *)
LEMMA MoreFits ==
  ASSUME NEW mem, NEW more, NEW answering, NEW answers, NEW w,
         Len(mem) \in Nat, Len(more) \in Nat, Len(mem) <= Len(more),
         \A p \in 1..Len(mem) : more[p] = mem[p],
         answering \subseteq answers, FitWorld(mem, answering, w)
  PROVE  FitWorld(more, answers, w)
<1>1. \A p \in 1..Len(mem) : p \in 1..Len(more)
  OBVIOUS
<1>2. ASSUME NEW v, FitVar(mem, v) PROVE FitVar(more, v)
  <2>1. \A p, val : FitAt(mem, p, val) => FitAt(more, p, val)
    BY <1>1 DEF FitAt
  <2> QED BY <1>2, <2>1 DEF FitVar
<1>3. \A s \in DOMAIN w.objs : FitObject(more, answers, w.objs[s])
  BY <1>1, <1>2 DEF FitWorld, FitObject
<1> QED
  BY <1>3 DEF FitWorld

(* What stays when others leave fits. *)
LEMMA LeavingFits ==
  ASSUME NEW mem, NEW answering, NEW w, NEW z, NEW T,
         FitWorld(mem, answering, w), Leaves(w, z, T)
  PROVE  FitWorld(mem, answering, z)
<1>1. /\ IsWorld(z) /\ DOMAIN z.objs \subseteq DOMAIN w.objs
      /\ \A r \in DOMAIN z.objs :
           /\ IsObject(z.objs[r])
           /\ z.objs[r].type = w.objs[r].type /\ z.objs[r].holds = w.objs[r].holds
  BY DEF Leaves, Records
<1>2. ASSUME NEW r \in DOMAIN z.objs PROVE FitObject(mem, answering, z.objs[r])
  <2>1. FitObject(mem, answering, w.objs[r])
    BY <1>1 DEF FitWorld
  <2> QED BY <1>1, <2>1 DEF FitObject
<1> QED
  BY <1>1, <1>2 DEF FitWorld

(* A fitting world is one of records, and its lists are sequences. *)
LEMMA FitRecords ==
  ASSUME NEW mem, NEW answering, NEW w, FitWorld(mem, answering, w)
  PROVE  /\ Records(w)
         /\ \A s \in DOMAIN w.objs : w.objs[s].type = "list" => IsSequence(w.objs[s].holds)
BY DEF FitWorld, FitObject, Records

(* A new object that fits. *)
LEMMA AllocFits ==
  ASSUME NEW mem, NEW answering, NEW w, FitWorld(mem, answering, w), NEW type, NEW holds,
         FitObject(mem, answering, [type |-> type, rc |-> 1, holds |-> holds])
  PROVE  /\ FitWorld(mem, answering, Alloc(w, type, holds))
         /\ Alloc(w, type, holds).names = w.names
         /\ DOMAIN Alloc(w, type, holds).objs = DOMAIN w.objs \cup {FirstFree(w)}
<1> DEFINE o == [type |-> type, rc |-> 1, holds |-> holds]
           s == FirstFree(w)
           z == Alloc(w, type, holds)
<1>1. IsWorld(w) /\ FitObject(mem, answering, o)
  BY DEF FitWorld
<1>2. z = [w EXCEPT !.objs = Put(w.objs, s, o)]
  BY DEF Alloc
<1> HIDE DEF o, s, z
<1>3. IsWorld(z) /\ z.objs = Put(w.objs, s, o) /\ z.names = w.names
  BY <1>1, <1>2 DEF IsWorld
<1>4. /\ DOMAIN z.objs = DOMAIN w.objs \cup {s}
      /\ \A r \in DOMAIN z.objs : z.objs[r] = IF r = s THEN o ELSE w.objs[r]
  BY <1>3 DEF Put
<1>5. \A r \in DOMAIN z.objs : FitObject(mem, answering, z.objs[r])
  BY <1>1, <1>4 DEF FitWorld
<1> QED
  BY <1>3, <1>4, <1>5 DEF FitWorld, z, s

(* A variable that fits, where one was. *)
LEMMA ConstructFits ==
  ASSUME NEW mem, NEW answering, NEW w, FitWorld(mem, answering, w), NEW s, NEW v,
         s \in DOMAIN w.objs => w.objs[s].type = "Var", FitVar(mem, v)
  PROVE  /\ FitWorld(mem, answering, Construct(w, s, v))
         /\ Construct(w, s, v).names = w.names
         /\ DOMAIN Construct(w, s, v).objs = DOMAIN w.objs
<1> DEFINE z == Construct(w, s, v)
<1>1. /\ IsWorld(z) /\ z.objs = [w.objs EXCEPT ![s].holds = v] /\ z.names = w.names
  BY DEF IsWorld, Construct, FitWorld
<1> HIDE DEF z
<1>2. ASSUME NEW r \in DOMAIN z.objs PROVE FitObject(mem, answering, z.objs[r])
  <2>1. FitObject(mem, answering, w.objs[r]) /\ r \in DOMAIN w.objs
    BY <1>1 DEF FitWorld
  <2>2. CASE r # s
    BY <1>1, <2>1, <2>2
  <2>3. CASE r = s
    <3>1. z.objs[r] = [w.objs[r] EXCEPT !.holds = v] /\ w.objs[r].type = "Var"
      BY <1>1, <2>1, <2>3
    <3>2. IsObject(w.objs[r])
      BY <2>1 DEF FitObject
    <3>3. IsObject(z.objs[r]) /\ z.objs[r].type = "Var" /\ z.objs[r].holds = v
      BY <3>1, <3>2 DEF IsObject
    <3> QED BY <3>3 DEF FitObject
  <2> QED BY <2>2, <2>3
<1> QED
  BY <1>1, <1>2 DEF FitWorld, z

(* A name that is bound, to whatever it is. *)
LEMMA BindFits ==
  ASSUME NEW mem, NEW answering, NEW w, FitWorld(mem, answering, w), NEW n, NEW x,
         w.names[n] # Other => w.names[n] \in DOMAIN w.objs
  PROVE  FitWorld(mem, answering, Bind(w, n, x))
<1> DEFINE T == IF w.names[n] = Other THEN {} ELSE Dropped(w, w.names[n])
<1>1. Leaves(w, Bind(w, n, x), T)
  BY FitRecords, BindLeaves
<1> HIDE DEF T
<1> QED
  BY <1>1, LeavingFits

(* A name for something new. *)
LEMMA BindNewFits ==
  ASSUME NEW mem, NEW answering, NEW w, FitWorld(mem, answering, w), NEW n,
         w.names[n] # Other => w.names[n] \in DOMAIN w.objs, NEW type, NEW holds,
         FitObject(mem, answering, [type |-> type, rc |-> 1, holds |-> holds])
  PROVE  FitWorld(mem, answering, BindNew(w, n, type, holds))
<1> DEFINE a == Alloc(w, type, holds)
<1>1. /\ FitWorld(mem, answering, a) /\ a.names = w.names
      /\ DOMAIN w.objs \subseteq DOMAIN a.objs
  BY AllocFits
<1>2. BindNew(w, n, type, holds) = Bind(a, n, FirstFree(w))
  BY DEF BindNew
<1> HIDE DEF a
<1> QED
  BY <1>1, <1>2, BindFits

(* A name for something that is there already. *)
LEMMA BindOldFits ==
  ASSUME NEW mem, NEW answering, NEW w, FitWorld(mem, answering, w), NEW n,
         w.names[n] # Other => w.names[n] \in DOMAIN w.objs, NEW s
  PROVE  FitWorld(mem, answering, Bind(Incref(w, s), n, s))
<1> DEFINE z == Incref(w, s)
<1>1. Leaves(w, z, {}) /\ z.names = w.names
  BY FitRecords, IncrefLeaves
<1> HIDE DEF z
<1>2. FitWorld(mem, answering, z) /\ DOMAIN z.objs = DOMAIN w.objs
  BY <1>1, LeavingFits DEF Leaves
<1> QED
  BY <1>1, <1>2, BindFits DEF z

----------------------------------------------------------------------------
(* Every statement makes what fits. *)

FitInv ==
  /\ dummy = NullPointer \/ dummy \in 1..Len(memory)
  /\ ~crashed => FitWorld(memory, Answering, World)

(* Between statements, until a null pointer is followed. *)
Running == ObjectsInv /\ EntriesInv /\ FitInv /\ ~crashed

(* What is so between statements. *)
LEMMA RunningIs ==
  ASSUME Running
  PROVE  /\ FitWorld(memory, Answering, World)
         /\ dummy = NullPointer \/ dummy \in 1..Len(memory)
         /\ Len(memory) \in Nat /\ MadeEntries(memory)
         /\ World.objs = objs /\ World.names = names
         /\ \A n \in PyName : names[n] # Other => names[n] \in DOMAIN objs
<1>1. \A n \in PyName : names[n] # Other => names[n] \in DOMAIN objs
  BY BoundIsThere DEF Running, Bound
<1> QED
  BY <1>1, WorldIs DEF Running, FitInv, EntriesInv, IInv, IsSequence

(* What names stand for fits. *)
LEMMA HereFits ==
  ASSUME Running, NEW m \in Bound
  PROVE  FitObject(memory, Answering, Here(m)) /\ names[m] \in DOMAIN objs
<1>1. names[m] \in DOMAIN objs /\ Here(m) = objs[names[m]]
  BY BoundIsThere DEF Running
<1> QED
  BY <1>1, RunningIs DEF FitWorld

(* What fits, or crashes, is what comes about. *)
LEMMA BecomesFit ==
  ASSUME Running, NEW w, Becomes(w), Grows,
         w.crashed \/ FitWorld(memory', Answering', w)
  PROVE  FitInv'
<1>1. crashed' = w.crashed /\ dummy' = dummy
  BY DEF Becomes
<1>2. dummy' = NullPointer \/ dummy' \in 1..Len(memory')
  BY <1>1, RunningIs DEF Grows
<1>3. ASSUME ~crashed' PROVE FitWorld(memory', Answering', World')
  <2>1. FitWorld(memory', Answering', w)
    BY <1>1, <1>3
  <2>2. World' = w
    BY <2>1 DEF Becomes, World, FitWorld, IsWorld
  <2> QED BY <2>1, <2>2
<1> QED
  BY <1>2, <1>3 DEF FitInv

(* When no table is loaded. *)
LEMMA SameFit ==
  ASSUME Running, NEW w, Becomes(w), UNCHANGED library,
         w.crashed \/ FitWorld(memory, Answering, w)
  PROVE  FitInv'
<1>1. memory' = memory /\ tables' = tables
  BY DEF library
<1>2. Answering' = Answering
  BY <1>1 DEF Answering
<1>3. Grows
  BY <1>1, RunningIs DEF Grows
<1> QED
  BY <1>1, <1>2, <1>3, BecomesFit

(* A null pointer is followed. *)
LEMMA CrashFits ==
  ASSUME Running, UNCHANGED library, Becomes([World EXCEPT !.crashed = TRUE])
  PROVE  FitInv'
<1> DEFINE z == [World EXCEPT !.crashed = TRUE]
<1>1. z.crashed = TRUE
  BY WorldIs, CrashedIs, Zenon
<1> HIDE DEF z
<1> QED
  BY <1>1, SameFit DEF z

(* A name is bound to something that fits. *)
LEMMA NewFits ==
  ASSUME Running, UNCHANGED library, NEW n \in PyName, NEW type, NEW holds,
         FitObject(memory, Answering, [type |-> type, rc |-> 1, holds |-> holds]),
         Becomes(BindNew(World, n, type, holds))
  PROVE  FitInv'
<1>1. FitWorld(memory, Answering, BindNew(World, n, type, holds))
  BY RunningIs, BindNewFits
<1> QED
  BY <1>1, SameFit

(* A name is bound to what another has. *)
LEMMA OldFits ==
  ASSUME Running, UNCHANGED library, NEW n \in PyName, NEW s,
         Becomes(Bind(Incref(World, s), n, s))
  PROVE  FitInv'
<1>1. FitWorld(memory, Answering, Bind(Incref(World, s), n, s))
  BY RunningIs, BindOldFits
<1> QED
  BY <1>1, SameFit

(* A name is bound to nothing of the module. *)
LEMMA OtherFits ==
  ASSUME Running, UNCHANGED library, NEW n \in PyName, Becomes(Bind(World, n, Other))
  PROVE  FitInv'
<1>1. FitWorld(memory, Answering, Bind(World, n, Other))
  BY RunningIs, BindFits
<1> QED
  BY <1>1, SameFit

(* Whether an object fits is whether what it holds does. *)
LEMMA FitNew ==
  ASSUME NEW holds
  PROVE  /\ holds \in Answering =>
              FitObject(memory, Answering, [type |-> "Vartable", rc |-> 1, holds |-> holds])
         /\ holds \in 1..Len(memory) =>
              FitObject(memory, Answering, [type |-> "Varinfo", rc |-> 1, holds |-> holds])
         /\ FitVar(memory, holds) =>
              FitObject(memory, Answering, [type |-> "Var", rc |-> 1, holds |-> holds])
         /\ \A type \in {"Vartable", "Varinfo", "Var"} :
              FitObject(memory, Answering, [type |-> type, rc |-> 1, holds |-> NullPointer])
BY DEF FitObject, IsObject, Kind

(* A table that a statement loads. *)
LEMMA LoadedFits ==
  ASSUME Running, NEW n \in PyName, NEW t \in BTable, HaveTable(t),
         Becomes(BindNew(World, n, "Vartable", t))
  PROVE  FitInv'
<1> DEFINE z == BindNew(World, n, "Vartable", t)
<1>1. [NextLibrary]_library
  BY DEF HaveTable, NextLibrary
<1>2. Grows /\ Answering \subseteq Answering'
  BY <1>1, LibraryMade, LibraryAnswers DEF Running
<1>3. t \in Answering'
  <2>1. CASE t \in Loaded
    BY <1>2, <2>1, LoadedAnswer DEF Running
  <2>2. CASE t \notin Loaded
    BY <2>2, LoadAnswers DEF Running, HaveTable
  <2> QED BY <2>1, <2>2
<1>4. FitWorld(memory', Answering', World)
  <2>1. /\ Len(memory) \in Nat /\ Len(memory') \in Nat /\ Len(memory) <= Len(memory')
        /\ \A p \in 1..Len(memory) : memory'[p] = memory[p]
    BY <1>2, RunningIs DEF Grows
  <2> QED BY <1>2, <2>1, RunningIs, MoreFits
<1>5. FitObject(memory', Answering', [type |-> "Vartable", rc |-> 1, holds |-> t])
  BY <1>3 DEF FitObject, IsObject, Kind
<1>6. FitWorld(memory', Answering', z)
  BY <1>4, <1>5, RunningIs, BindNewFits
<1> HIDE DEF z
<1> QED
  BY <1>2, <1>6, BecomesFit DEF z

(* Tables, their entries and what is made of nothing. *)
LEMMA TablesFit ==
  ASSUME Running, NEW n \in PyName
  PROVE  /\ \A t \in BTable : LoadTable(n, t) => FitInv'
         /\ \A format \in Format, name \in Wanted : GetTable(n, format, name) => FitInv'
         /\ \A m : \A code \in Codes : Subscript(n, m, code) => FitInv'
         /\ \A type : MakeBare(n, type) => FitInv'
         /\ \A m : GetInfo(n, m) => FitInv'
<1>1. \A t \in BTable : LoadTable(n, t) => FitInv'
  BY LoadedFits DEF LoadTable
<1>2. ASSUME NEW format \in Format, NEW name \in Wanted, GetTable(n, format, name)
      PROVE  FitInv'
  <2> DEFINE t == <<format, Named[name]>>
  <2>1. t \in BTable /\ HaveTable(t) /\ Becomes(BindNew(World, n, "Vartable", t))
    BY <1>2, FilesAssumption DEF GetTable, Get, BTable
  <2> HIDE DEF t
  <2> QED BY <2>1, LoadedFits
<1>3. ASSUME NEW m, NEW code \in Codes, Subscript(n, m, code)
      PROVE  FitInv'
  <2> DEFINE t == Here(m).holds
  <2>1. m \in Bound /\ Here(m).type = "Vartable" /\ UNCHANGED library
    BY <1>3 DEF Subscript, Of, Here
  <2>2. t = NullPointer \/ t \in Answering
    BY <2>1, HereFits DEF FitObject
  <2>3. CASE t = NullPointer
    BY <1>3, <2>1, <2>3, CrashFits DEF Subscript
  <2>4. CASE t # NullPointer
    <3>1. ContainsCode(t, code) /\ Becomes(BindNew(World, n, "Varinfo", Query(t, code)))
      BY <1>3, <2>4 DEF Subscript
    <3>2. code \in VarCode
      <4>1. PICK p \in Pointer : code = memory[p].info.code
        BY DEF Codes, InfoAt
      <4>2. p \in 1..Len(memory) /\ MadeEntries(memory)
        BY RunningIs DEF Pointer, MadeEntries, IsSequence
      <4>3. code \in Varcode
        BY <4>1, <4>2 DEF MadeEntries, WellMade
      <4>4. Varcode \subseteq VarCode
        BY DEF Varcode, VarCode
      <4> QED BY <4>3, <4>4
    <3>3. Query(t, code) \in 1..Len(memory)
      BY <2>2, <2>4, <3>1, <3>2, QueryIsPointer DEF Running
    <3> HIDE DEF t
    <3> QED BY <2>1, <3>1, <3>3, FitNew, NewFits
  <2> QED BY <2>3, <2>4
<1>4. \A type : MakeBare(n, type) => FitInv'
  BY FitNew, NewFits DEF MakeBare
<1>5. ASSUME NEW m, GetInfo(n, m)
      PROVE  FitInv'
  <2> DEFINE v == Here(m).holds
  <2>1. m \in Bound /\ Here(m).type = "Var" /\ UNCHANGED library
    BY <1>5 DEF GetInfo, Of, Here
  <2>2. v = NullPointer \/ FitVar(memory, v)
    BY <2>1, HereFits DEF FitObject
  <2>3. CASE v = NullPointer
    BY <1>5, <2>1, <2>3, CrashFits DEF GetInfo
  <2>4. CASE v # NullPointer
    <3>1. v.info \in 1..Len(memory)
      BY <2>2, <2>4 DEF FitVar, FitAt
    <3>2. Becomes(BindNew(World, n, "Varinfo", v.info))
      BY <1>5, <2>4 DEF GetInfo
    <3> HIDE DEF v
    <3> QED BY <2>1, <3>1, <3>2, FitNew, NewFits
  <2> QED BY <2>3, <2>4
<1> QED
  BY <1>1, <1>2, <1>3, <1>4, <1>5

(* Names, items, defaults, and what crashes. *)
LEMMA NamesFit ==
  ASSUME Running, NEW n \in PyName
  PROVE  /\ \A m : Name(n, m) => FitInv'
         /\ \A m, k : GetOr(n, m, k) => FitInv'
         /\ \A m, i : Item(n, m, i) => FitInv'
         /\ Read(n) => FitInv'
         /\ Del(n) => FitInv'
<1>1. \A m : Name(n, m) => FitInv'
  BY OldFits DEF Name
<1>2. \A m, k : GetOr(n, m, k) => FitInv'
  BY OldFits, OtherFits DEF GetOr
<1>3. \A m, i : Item(n, m, i) => FitInv'
  BY OldFits DEF Item
<1>4. Read(n) => FitInv'
  BY CrashFits DEF Read
<1>5. Del(n) => FitInv'
  BY OtherFits DEF Del
<1> QED
  BY <1>1, <1>2, <1>3, <1>4, <1>5

(* A variable that a name stands for fits. *)
LEMMA UsableFits ==
  ASSUME Running, NEW m, Usable(m)
  PROVE  /\ m \in Bound /\ Here(m).type = "Var" /\ FitVar(memory, Here(m).holds)
         /\ names[m] \in DOMAIN objs /\ objs[names[m]] = Here(m)
<1>1. m \in Bound /\ Here(m).type = "Var" /\ Here(m).holds # NullPointer
  BY DEF Usable, Of, Here
<1> QED
  BY <1>1, HereFits DEF FitObject, Here

(* Values by themselves. *)
LEMMA BareFits ==
  ASSUME NEW p, NEW val, FitAt(memory, p, val)
  PROVE  FitVar(memory, Variable(p, val, NoAttrs))
<1>1. DOMAIN NoAttrs = {}
  BY DEF NoAttrs
<1>2. /\ Variable(p, val, NoAttrs).info = p /\ Variable(p, val, NoAttrs).val = val
      /\ Variable(p, val, NoAttrs).attrs = NoAttrs
  BY DEF Variable
<1> QED
  BY <1>1, <1>2 DEF FitVar

(* Copies of attributes, and of fewer attributes. *)
LEMMA CopiesFit ==
  ASSUME NEW v, FitVar(memory, v), NEW code \in DOMAIN v.attrs
  PROVE  FitVar(memory, CopyOfAttr(v, code))
<1> DEFINE later == {c \in DOMAIN v.attrs : Rank(c) > Rank(code)}
           attrs == Only(v.attrs, later)
           a == v.attrs[code]
<1>1. FitAt(memory, a.info, a.val)
  BY DEF FitVar
<1>2. /\ DOMAIN attrs \subseteq DOMAIN v.attrs
      /\ \A c \in DOMAIN attrs : attrs[c] = v.attrs[c]
  BY DEF Only
<1>3. CopyOfAttr(v, code) = Variable(a.info, a.val, attrs)
  BY DEF CopyOfAttr
<1> HIDE DEF a, attrs, later
<1>4. /\ CopyOfAttr(v, code).info = a.info /\ CopyOfAttr(v, code).val = a.val
      /\ CopyOfAttr(v, code).attrs = attrs
  BY <1>3 DEF Variable
<1> QED
  BY <1>1, <1>2, <1>4 DEF FitVar

(* enqa makes a variable that fits. *)
LEMMA EnqaFits ==
  ASSUME Running, NEW n \in PyName, NEW m, NEW code, Enqa(n, m, code)
  PROVE  FitInv'
<1> DEFINE v == Here(m).holds
<1>1. FitVar(memory, v) /\ UNCHANGED library
  BY UsableFits DEF Enqa
<1>2. CASE code \in DOMAIN v.attrs
  <2>1. FitVar(memory, CopyOfAttr(v, code))
    BY <1>1, <1>2, CopiesFit
  <2>2. Becomes(BindNew(World, n, "Var", CopyOfAttr(v, code)))
    BY <1>2 DEF Enqa
  <2> HIDE DEF v
  <2> QED BY <1>1, <2>1, <2>2, FitNew, NewFits
<1>3. CASE code \notin DOMAIN v.attrs
  BY <1>1, <1>3, OtherFits DEF Enqa
<1> QED
  BY <1>2, <1>3

(* A variable with other attributes, which fit. *)
LEMMA ChangeFits ==
  ASSUME Running, NEW m, Usable(m), NEW attrs, UNCHANGED library,
         DOMAIN attrs \subseteq Varcode,
         \A c \in DOMAIN attrs : FitAt(memory, attrs[c].info, attrs[c].val),
         Becomes([World EXCEPT !.objs[names[m]].holds.attrs = attrs])
  PROVE  FitInv'
<1> DEFINE s == names[m]
           v == Here(m).holds
           u == [v EXCEPT !.attrs = attrs]
           z == [World EXCEPT !.objs[s].holds.attrs = attrs]
<1>1. /\ m \in Bound /\ Here(m).type = "Var" /\ FitVar(memory, v)
      /\ s \in DOMAIN objs /\ objs[s] = Here(m) /\ World.objs = objs
  BY UsableFits, RunningIs
<1>2. v = Variable(v.info, v.val, v.attrs)
  <2>1. VarHeld(v) /\ v # NullPointer
    BY <1>1, BoundIsThere DEF Running, Usable
  <2> QED BY <2>1 DEF VarHeld
<1>3. u = Variable(v.info, v.val, attrs)
  <2> HIDE DEF v
  <2> QED BY <1>2 DEF Variable
<1> HIDE DEF u
<1>4. u.info = v.info /\ u.val = v.val /\ u.attrs = attrs
  BY <1>3 DEF Variable
<1>5. FitVar(memory, u)
  BY <1>1, <1>4 DEF FitVar
<1>6. z = Construct(World, s, u)
  <2>1. z = [World EXCEPT !.objs[s].holds = [World.objs[s].holds EXCEPT !.attrs = attrs]]
    OBVIOUS
  <2>2. v = World.objs[s].holds
    BY <1>1
  <2> QED BY <2>1, <2>2 DEF Construct, u
<1> HIDE DEF v, z
<1>7. FitWorld(memory, Answering, z)
  BY <1>1, <1>5, <1>6, RunningIs, ConstructFits
<1> QED
  BY <1>7, SameFit DEF z

(* seta and unseta leave one that fits. *)
LEMMA AttrsFit ==
  ASSUME Running, NEW m
  PROVE  /\ \A k : Seta(m, k) => FitInv'
         /\ \A code : Unseta(m, code) => FitInv'
<1> DEFINE s == names[m]
           old == World.objs[s].holds.attrs
<1>1. ASSUME Usable(m)
      PROVE  /\ DOMAIN old \subseteq Varcode
             /\ \A c \in DOMAIN old : FitAt(memory, old[c].info, old[c].val)
  <2>1. FitVar(memory, Here(m).holds) /\ World.objs[s] = Here(m)
    BY <1>1, UsableFits, RunningIs
  <2> QED BY <2>1 DEF FitVar
<1>2. ASSUME NEW k, Seta(m, k) PROVE FitInv'
  <2> DEFINE v == Here(k).holds
             code == CodeAt(v.info)
             attrs == Put(old, code, Bare(v))
  <2>1. /\ Usable(m) /\ Usable(k) /\ UNCHANGED library
        /\ Becomes([World EXCEPT !.objs[s].holds.attrs = attrs])
    BY <1>2 DEF Seta
  <2>2. FitVar(memory, v)
    BY <2>1, UsableFits
  <2>3. FitAt(memory, v.info, v.val) /\ code \in Varcode
    <3>1. v.info \in 1..Len(memory)
      BY <2>2 DEF FitVar, FitAt
    <3> QED BY <2>2, <3>1, RunningIs DEF FitVar, CodeAt, InfoAt, MadeEntries, WellMade
  <2>4. /\ DOMAIN attrs = DOMAIN old \cup {code}
        /\ \A c \in DOMAIN attrs :
             attrs[c] = IF c = code THEN [info |-> v.info, val |-> v.val] ELSE old[c]
    BY DEF Put, Bare
  <2> HIDE DEF attrs, old, code, v
  <2>5. /\ DOMAIN attrs \subseteq Varcode
        /\ \A c \in DOMAIN attrs : FitAt(memory, attrs[c].info, attrs[c].val)
    BY <1>1, <2>1, <2>3, <2>4
  <2> QED BY <2>1, <2>5, ChangeFits
<1>3. ASSUME NEW code, Unseta(m, code) PROVE FitInv'
  <2> DEFINE attrs == Only(old, DOMAIN old \ {code})
  <2>1. /\ Usable(m) /\ UNCHANGED library
        /\ Becomes([World EXCEPT !.objs[s].holds.attrs = attrs])
    BY <1>3 DEF Unseta
  <2>2. DOMAIN attrs \subseteq DOMAIN old /\ \A c \in DOMAIN attrs : attrs[c] = old[c]
    BY DEF Only
  <2> HIDE DEF attrs, old
  <2>3. /\ DOMAIN attrs \subseteq Varcode
        /\ \A c \in DOMAIN attrs : FitAt(memory, attrs[c].info, attrs[c].val)
    BY <1>1, <2>1, <2>2
  <2> QED BY <2>1, <2>3, ChangeFits
<1> QED
  BY <1>2, <1>3

(* What _init constructs fits. *)
LEMMA InitialisedFits ==
  ASSUME Running, dummy # NullPointer, NEW w, FitWorld(memory, Answering, w), NEW s,
         NEW from, NEW value \in PyValues \cup {NotGiven},
         NEW r \in Initialised(w, s, from, value),
         s \in DOMAIN w.objs => w.objs[s].type = "Var", FitObject(memory, Answering, from)
  PROVE  r.w.crashed \/ (/\ FitWorld(memory, Answering, r.w) /\ r.w.names = w.names
                         /\ DOMAIN r.w.objs = DOMAIN w.objs)
<1>1. CASE from.type \in {"Varinfo", "Var"} /\ from.holds = NullPointer
  <2>1. r \in {[w |-> [w EXCEPT !.crashed = TRUE], raised |-> FALSE]}
    BY <1>1 DEF Initialised
  <2>2. r.w = [w EXCEPT !.crashed = TRUE]
    BY <2>1
  <2>3. r.w.crashed = TRUE
    BY <2>2, CrashedIs, Zenon DEF FitWorld
  <2> QED BY <2>3
<1>2. ASSUME NEW v, FitVar(memory, v), r.w = Construct(w, s, v)
      PROVE  /\ FitWorld(memory, Answering, r.w) /\ r.w.names = w.names
             /\ DOMAIN r.w.objs = DOMAIN w.objs
  BY <1>2, ConstructFits
<1>3. CASE from.type = "Varinfo" /\ from.holds # NullPointer
  <2> DEFINE p == from.holds
             info == InfoAt(p)
  <2>1. p \in 1..Len(memory) /\ WellMade(info)
    BY <1>3, RunningIs DEF FitObject, MadeEntries, InfoAt
  <2>2. r \in FromInfo(w, s, p, value)
    BY <1>3 DEF Initialised
  <2>3. PICK x \in IF value = NotGiven THEN {Result(Unset)}
                   ELSE ValueFromPython(info, Unset, value) :
          r.w = Construct(w, s, Variable(p, x.val, NoAttrs))
    BY <2>2 DEF FromInfo
  <2>4. FitValue(info, x.val)
    <3>1. CASE value = NotGiven
      BY <2>3, <3>1 DEF Result, FitValue
    <3>2. CASE value # NotGiven
      <4> HIDE DEF info
      <4> QED BY <2>1, <2>3, <3>2, GivenFits
    <3> QED BY <3>1, <3>2
  <2>5. FitAt(memory, p, x.val)
    BY <2>1, <2>4 DEF FitAt, InfoAt
  <2> HIDE DEF p
  <2> QED BY <1>2, <2>3, <2>5, BareFits
<1>4. CASE from.type = "Var" /\ from.holds # NullPointer
  <2>1. r \in FromVar(w, s, from.holds)
    BY <1>4 DEF Initialised
  <2>2. r.w = Construct(w, s, from.holds)
    BY <2>1 DEF FromVar
  <2> QED BY <1>2, <1>4, <2>2 DEF FitObject
<1>5. CASE from.type \in {"Vartable", "list"}
  <2>1. r \in FromOther(w, s)
    BY <1>5 DEF Initialised
  <2>2. r.w = Construct(w, s, Variable(dummy, Unset, NoAttrs))
    BY <2>1 DEF FromOther
  <2>3. FitAt(memory, dummy, Unset)
    BY RunningIs DEF FitAt, FitValue
  <2> QED BY <1>2, <2>2, <2>3, BareFits
<1> QED
  BY <1>1, <1>3, <1>4, <1>5 DEF FitObject, IsObject, Kind

(* An object that loses a reference leaves what fits. *)
LEMMA DecrefFits ==
  ASSUME NEW mem, NEW answering, NEW w, FitWorld(mem, answering, w),
         NEW s \in DOMAIN w.objs
  PROVE  FitWorld(mem, answering, Decref(w, s))
<1>1. Leaves(w, Decref(w, s), Dropped(w, s))
  BY FitRecords, DecrefLeaves
<1> QED
  BY <1>1, LeavingFits

(* What there is when Var is allocated. *)
LEMMA AllocVarFits ==
  ASSUME Running, NEW v, v = NullPointer \/ FitVar(memory, v)
  PROVE  LET s == FirstFree(World)
             w == Alloc(World, "Var", v)
         IN /\ FitWorld(memory, Answering, w) /\ s \in DOMAIN w.objs /\ w.names = names
            /\ DOMAIN w.objs = DOMAIN objs \cup {s} /\ w.objs[s].type = "Var"
<1> DEFINE s == FirstFree(World)
           w == Alloc(World, "Var", v)
<1>1. FitObject(memory, Answering, [type |-> "Var", rc |-> 1, holds |-> v])
  BY FitNew
<1>2. /\ FitWorld(memory, Answering, w) /\ w.names = World.names
      /\ DOMAIN w.objs = DOMAIN World.objs \cup {s}
  BY <1>1, RunningIs, AllocFits
<1>3. w.objs = Put(World.objs, s, [type |-> "Var", rc |-> 1, holds |-> v])
  BY WorldIs DEF Alloc, IsWorld
<1>4. w.objs[s].type = "Var"
  BY <1>3 DEF Put
<1> QED
  BY <1>2, <1>4, RunningIs

(* Var(...) makes one that fits, or none. *)
LEMMA NewVarFits ==
  ASSUME Running, dummy # NullPointer, NEW n \in PyName, NEW m,
         NEW value \in PyValues \cup {NotGiven}, NewVar(n, m, value)
  PROVE  FitInv'
<1> DEFINE s == FirstFree(World)
           w == Alloc(World, "Var", NullPointer)
<1>1. /\ FitWorld(memory, Answering, w) /\ s \in DOMAIN w.objs /\ w.names = names
      /\ DOMAIN w.objs = DOMAIN objs \cup {s} /\ w.objs[s].type = "Var"
  BY AllocVarFits
<1>2. PICK r \in Initialised(w, s, Here(m), value) :
        Becomes(IF r.w.crashed THEN r.w
                ELSE IF r.raised THEN Decref(r.w, s) ELSE Bind(r.w, n, s))
  BY DEF NewVar
<1>3. m \in Bound /\ UNCHANGED library
  BY DEF NewVar
<1>4. FitObject(memory, Answering, Here(m))
  BY <1>3, HereFits
<1> HIDE DEF w, s
<1>5. r.w.crashed \/ (/\ FitWorld(memory, Answering, r.w) /\ r.w.names = names
                      /\ DOMAIN r.w.objs = DOMAIN objs \cup {s})
  BY <1>1, <1>2, <1>4, InitialisedFits
<1>6. CASE r.w.crashed
  BY <1>2, <1>3, <1>6, SameFit
<1>7. CASE ~r.w.crashed /\ r.raised
  <2>1. FitWorld(memory, Answering, Decref(r.w, s))
    BY <1>5, <1>7, DecrefFits
  <2> QED BY <1>2, <1>3, <1>7, <2>1, SameFit
<1>8. CASE ~r.w.crashed /\ ~r.raised
  <2>1. r.w.names[n] # Other => r.w.names[n] \in DOMAIN r.w.objs
    BY <1>5, <1>8, RunningIs
  <2>2. FitWorld(memory, Answering, Bind(r.w, n, s))
    BY <1>5, <1>8, <2>1, BindFits
  <2> QED BY <1>2, <1>3, <1>8, <2>2, SameFit
<1> QED
  BY <1>6, <1>7, <1>8

(* Var() makes none. *)
LEMMA NewVarOfNothingFits ==
  ASSUME Running, NewVarOfNothing
  PROVE  FitInv'
<1> DEFINE s == FirstFree(World)
           w == Alloc(World, "Var", NullPointer)
<1>1. FitWorld(memory, Answering, w) /\ s \in DOMAIN w.objs
  BY AllocVarFits
<1>2. FitWorld(memory, Answering, Decref(w, s))
  BY <1>1, DecrefFits
<1> QED
  BY <1>2, SameFit DEF NewVarOfNothing

(* __init__ makes one that fits of one that is there. *)
LEMMA InitAgainFits ==
  ASSUME Running, dummy # NullPointer, NEW k, NEW m,
         NEW value \in PyValues \cup {NotGiven}, InitAgain(k, m, value)
  PROVE  FitInv'
<1>1. k \in Bound /\ Here(k).type = "Var" /\ m \in Bound /\ UNCHANGED library
  BY DEF InitAgain, Of, Here
<1>2. PICK r \in Initialised(World, names[k], Here(m), value) : Becomes(r.w)
  BY DEF InitAgain
<1>3. World.objs[names[k]].type = "Var"
  BY <1>1, RunningIs DEF Here
<1>4. FitObject(memory, Answering, Here(m))
  BY <1>1, HereFits
<1>5. r.w.crashed \/ FitWorld(memory, Answering, r.w)
  BY <1>2, <1>3, <1>4, RunningIs, InitialisedFits
<1> QED
  BY <1>1, <1>2, <1>5, SameFit

(* So do the functions that other extensions call. *)
LEMMA CreateFromCFits ==
  ASSUME Running, NEW n \in PyName, NEW p, NEW value \in PyValues, CreateFromC(n, p, value)
  PROVE  FitInv'
<1> DEFINE s == FirstFree(World)
           Of2(r) == Alloc(World, "Var", Variable(p, r.val, NoAttrs))
<1>1. PICK r \in ValueFromPython(InfoAt(p), Unset, value) :
        Becomes(IF r.raised THEN [Of2(r) EXCEPT !.leaked = @ \cup {s}]
                ELSE Bind(Of2(r), n, s))
  BY DEF CreateFromC
<1> DEFINE w == Alloc(World, "Var", Variable(p, r.val, NoAttrs))
<1>2. p \in 1..Len(memory) /\ WellMade(InfoAt(p)) /\ UNCHANGED library
  <2>1. p \in 1..Len(memory)
    BY RunningIs DEF CreateFromC, Pointer, MadeEntries, IsSequence
  <2> QED BY <2>1, RunningIs DEF CreateFromC, MadeEntries, InfoAt
<1>3. FitValue(InfoAt(p), r.val)
  BY <1>1, <1>2, GivenFits
<1>4. FitVar(memory, Variable(p, r.val, NoAttrs))
  BY <1>2, <1>3, BareFits DEF FitAt, InfoAt
<1>5. /\ FitWorld(memory, Answering, w) /\ w.names = names
      /\ DOMAIN w.objs = DOMAIN objs \cup {s}
  BY <1>4, AllocVarFits
<1>6. CASE r.raised
  <2> DEFINE z == [w EXCEPT !.leaked = @ \cup {s}]
  <2>1. Becomes(z)
    BY <1>1, <1>6
  <2> HIDE DEF w
  <2>2. IsWorld(z) /\ z.objs = w.objs
    BY <1>5 DEF FitWorld, IsWorld
  <2> HIDE DEF z
  <2>3. FitWorld(memory, Answering, z)
    BY <1>5, <2>2 DEF FitWorld
  <2> QED BY <1>2, <2>1, <2>3, SameFit
<1>7. CASE ~r.raised
  <2>1. Becomes(Bind(w, n, s))
    BY <1>1, <1>7
  <2> HIDE DEF w, s
  <2>2. w.names[n] # Other => w.names[n] \in DOMAIN w.objs
    BY <1>5, RunningIs
  <2>3. FitWorld(memory, Answering, Bind(w, n, s))
    BY <1>5, <2>2, BindFits
  <2> QED BY <1>2, <2>1, <2>3, SameFit
<1> QED
  BY <1>6, <1>7

(* A variable that get_attrs makes fits, and so do all the objects after it. *)
LEMMA ListedFits ==
  ASSUME Running, NEW w, FitWorld(memory, Answering, w), NEW list \in DOMAIN w.objs,
         NEW v, FitVar(memory, v), IsFiniteSet(DOMAIN v.attrs), NEW z,
         Listed(w, list, v, z, Cardinality(DOMAIN v.attrs))
  PROVE  FitWorld(memory, Answering, z)
<1> DEFINE n == Cardinality(DOMAIN v.attrs)
           items == z.objs[list].holds
<1>1. /\ Records(z) /\ z.objs[list].type = "list" /\ IsSequence(items) /\ Len(items) = n
      /\ DOMAIN z.objs = DOMAIN w.objs \cup Range(items)
      /\ \A r \in DOMAIN w.objs : r # list => z.objs[r] = w.objs[r]
      /\ \A i \in 1..n : /\ z.objs[items[i]].type = "Var"
                         /\ z.objs[items[i]].holds = ListedAttr(v, Nth(DOMAIN v.attrs, i))
  BY DEF Listed
<1>2. ASSUME NEW i \in 1..n
      PROVE  FitVar(memory, ListedAttr(v, Nth(DOMAIN v.attrs, i)))
  <2> DEFINE c == Nth(DOMAIN v.attrs, i)
  <2>1. c \in DOMAIN v.attrs
    BY NthIsThere DEF FitVar
  <2>2. ListedAttr(v, c) = Variable(v.attrs[c].info, v.attrs[c].val, NoAttrs)
    BY <2>1, RunningIs, ListedIs
  <2>3. FitAt(memory, v.attrs[c].info, v.attrs[c].val)
    BY <2>1 DEF FitVar
  <2> QED BY <2>2, <2>3, BareFits
<1> HIDE DEF items, n
<1>3. ASSUME NEW r \in DOMAIN z.objs
      PROVE  FitObject(memory, Answering, z.objs[r])
  <2>1. IsObject(z.objs[r])
    BY <1>1 DEF Records
  <2>2. CASE r = list
    BY <1>1, <2>1, <2>2 DEF FitObject, items
  <2>3. CASE r # list /\ r \in DOMAIN w.objs
    BY <1>1, <2>3 DEF FitWorld
  <2>4. CASE r \in Range(items)
    <3>1. PICK i \in 1..n : r = items[i]
      BY <1>1, <2>4 DEF Range, IsSequence
    <3>2. z.objs[r].type = "Var" /\ FitVar(memory, z.objs[r].holds)
      BY <1>1, <1>2, <3>1
    <3> QED BY <2>1, <3>2 DEF FitObject
  <2> QED BY <1>1, <2>2, <2>3, <2>4
<1> QED
  BY <1>1, <1>3 DEF FitWorld, Records

(* What get_attrs makes before it is bound. *)
IsListed(w, list, v, z) ==
  /\ FitVar(memory, v) /\ IsFiniteSet(DOMAIN v.attrs)
  /\ list \notin DOMAIN objs /\ DOMAIN w.objs = DOMAIN objs \cup {list}
  /\ \A r \in DOMAIN objs : w.objs[r] = objs[r]
  /\ Listed(w, list, v, z, Cardinality(DOMAIN v.attrs))
  /\ FitWorld(memory, Answering, z) /\ z.names = names

(* The statement makes that, and binds it. *)
LEMMA AttrsAreListed ==
  ASSUME Running, NEW n \in PyName, NEW m, GetAttrs(n, m)
  PROVE  LET v == Here(m).holds
             list == FirstFree(World)
             w == Alloc(World, "list", <<>>)
             z == AppendAll(w, list, v)
         IN IsListed(w, list, v, z) /\ Becomes(Bind(z, n, list))
<1> DEFINE v == Here(m).holds
           list == FirstFree(World)
           w == Alloc(World, "list", <<>>)
           z == AppendAll(w, list, v)
           o == [type |-> "list", rc |-> 1, holds |-> <<>>]
<1>1. Usable(m) /\ FitVar(memory, v)
  BY UsableFits DEF GetAttrs
<1>2. IsFiniteSet(DOMAIN v.attrs)
  BY <1>1, BoundIsThere, UsableFits DEF Running, Usable, VarHeld
<1>3. /\ Cardinality(FreeSlots(World)) > Cardinality(DOMAIN v.attrs)
      /\ Becomes(Bind(z, n, list))
  BY DEF GetAttrs
<1>4. Cardinality(DOMAIN v.attrs) \in Nat /\ Cardinality(FreeSlots(World)) \in Nat
  BY <1>2, FreeSlotsFinite, FS_CardinalityType
<1>5. list \in Slot \ DOMAIN objs
  <2>1. Cardinality(FreeSlots(World)) # 0
    <3> HIDE DEF v
    <3> QED BY <1>3, <1>4
  <2>2. FreeSlots(World) # {}
    BY <2>1, FS_EmptySet
  <2> QED BY <2>2, FirstFreeIsFree, RunningIs
<1>6. w.objs = Put(objs, list, o) /\ IsWorld(w)
  BY WorldIs DEF Alloc, IsWorld
<1>7. FitObject(memory, Answering, o)
  BY DEF FitObject, IsObject, Kind, IsSequence
<1>8. FitWorld(memory, Answering, w) /\ w.names = names
  BY <1>7, RunningIs, AllocFits
<1> HIDE DEF list, w, v, z
<1>9. /\ DOMAIN w.objs = DOMAIN objs \cup {list} /\ w.objs[list] = o
      /\ \A r \in DOMAIN objs : w.objs[r] = objs[r]
  BY <1>5, <1>6 DEF Put
<1>10. FreeSlots(w) = FreeSlots(World) \ {list} /\ list \in FreeSlots(World)
  BY <1>5, <1>9, RunningIs DEF FreeSlots
<1>11. Cardinality(DOMAIN v.attrs) <= Cardinality(FreeSlots(w))
  <2>1. Cardinality(FreeSlots(w)) = Cardinality(FreeSlots(World)) - 1
    BY <1>10, FreeSlotsFinite, FS_RemoveElement
  <2> QED BY <1>3, <1>4, <2>1
<1>12. Listed(w, list, v, z, Cardinality(DOMAIN v.attrs))
  BY <1>2, <1>8, <1>9, <1>11, FitRecords, AppendAllLists DEF z
<1>13. FitWorld(memory, Answering, z) /\ z.names = names
  <2>1. list \in DOMAIN w.objs
    BY <1>9
  <2>2. FitWorld(memory, Answering, z)
    BY <1>1, <1>2, <1>8, <1>12, <2>1, ListedFits
  <2> QED BY <1>8, <1>12, <2>2 DEF Listed
<1> QED
  BY <1>1, <1>2, <1>3, <1>5, <1>9, <1>12, <1>13 DEF IsListed, list, w, v, z

(* All of which fits. *)
LEMMA GetAttrsFits ==
  ASSUME Running, NEW n \in PyName, NEW m, GetAttrs(n, m)
  PROVE  FitInv'
<1> DEFINE v == Here(m).holds
           list == FirstFree(World)
           w == Alloc(World, "list", <<>>)
           z == AppendAll(w, list, v)
<1>1. IsListed(w, list, v, z) /\ Becomes(Bind(z, n, list)) /\ UNCHANGED library
  BY AttrsAreListed DEF GetAttrs
<1> HIDE DEF v, list, w, z
<1>2. z.names[n] # Other => z.names[n] \in DOMAIN z.objs
  BY <1>1, RunningIs DEF IsListed, Listed
<1>3. FitWorld(memory, Answering, Bind(z, n, list))
  BY <1>1, <1>2, BindFits DEF IsListed
<1> QED
  BY <1>1, <1>3, SameFit

(* Before the module is imported there is nothing that could not fit. *)
LEMMA FitBegin == Init => FitInv
<1> SUFFICES ASSUME Init PROVE FitInv
  OBVIOUS
<1>1. IsWorld(World) /\ World.objs = <<>>
  BY WorldIs DEF Init
<1> QED
  BY <1>1 DEF FitInv, FitWorld, Init

(* Every step keeps it so. *)
LEMMA FitStep ==
  ASSUME ObjectsInv, EntriesInv, FitInv, [Next]_vars
  PROVE  FitInv'
<1>1. Grows /\ Answering \subseteq Answering' /\ EntriesInv'
  BY EntriesStep, AnswersGrow
<1>2. /\ Len(memory) \in Nat /\ Len(memory') \in Nat /\ Len(memory) <= Len(memory')
      /\ \A p \in 1..Len(memory) : memory'[p] = memory[p]
  BY <1>1 DEF Grows, EntriesInv, IInv, IsSequence
<1>3. ASSUME UNCHANGED <<objs, names, leaked, crashed>>
      PROVE  ~crashed' => FitWorld(memory', Answering', World')
  <2>1. World' = World /\ crashed' = crashed
    BY <1>3 DEF World
  <2>2. ~crashed => FitWorld(memory', Answering', World)
    BY <1>1, <1>2, MoreFits DEF FitInv
  <2> QED BY <2>1, <2>2
<1>4. ASSUME UNCHANGED python PROVE FitInv'
  <2>1. dummy' = NullPointer \/ dummy' \in 1..Len(memory')
    BY <1>2, <1>4 DEF FitInv, python
  <2> QED BY <1>3, <1>4, <2>1 DEF FitInv, python
<1>5. CASE Import
  <2>1. dummy' \in 1..Len(memory')
    <3>1. PICK e : memory' = Append(memory, e) /\ dummy' = Len(memory')
      BY <1>5 DEF Import
    <3>2. Len(memory') = Len(memory) + 1
      BY <3>1, AppendGrows DEF EntriesInv, IInv
    <3> QED BY <1>2, <3>1, <3>2
  <2> QED BY <1>3, <1>5, <2>1 DEF FitInv, Import
<1>6. ASSUME ~crashed, NEW n \in PyName, dummy # NullPointer, Making(n)
      PROVE  FitInv'
  <2>1. Running
    BY <1>6 DEF Running
  <2>2. \A t \in BTable : LoadTable(n, t) => FitInv'
    BY <2>1, TablesFit
  <2>3. \A format \in Format, name \in Wanted : GetTable(n, format, name) => FitInv'
    BY <2>1, TablesFit
  <2>4. \A m : \A code \in Codes : Subscript(n, m, code) \/ Enqa(n, m, code) => FitInv'
    BY <2>1, TablesFit, EnqaFits
  <2>5. \A m : GetInfo(n, m) \/ GetAttrs(n, m) => FitInv'
    BY <2>1, TablesFit, GetAttrsFits
  <2>6. \A type : MakeBare(n, type) => FitInv'
    BY <2>1, TablesFit
  <2>7. \A m : \A value \in PyValues \cup {NotGiven} : NewVar(n, m, value) => FitInv'
    BY <1>6, <2>1, NewVarFits
  <2>8. \A p : \A value \in PyValues : CreateFromC(n, p, value) => FitInv'
    BY <2>1, CreateFromCFits
  <2> QED BY <1>6, <2>2, <2>3, <2>4, <2>5, <2>6, <2>7, <2>8 DEF Making
<1>7. ASSUME ~crashed, NewVarOfNothing
      PROVE  FitInv'
  BY <1>7, NewVarOfNothingFits DEF Running
<1>8. ASSUME ~crashed, NEW n \in PyName, dummy # NullPointer, Using(n)
      PROVE  FitInv'
  <2>1. Running
    BY <1>8 DEF Running
  <2> QED BY <1>8, <2>1, NamesFit, AttrsFit, InitAgainFits DEF Using
<1>9. CASE UNCHANGED vars
  BY <1>4, <1>9 DEF vars
<1> QED
  BY <1>4, <1>5, <1>6, <1>7, <1>8, <1>9 DEF Next

(* What a name drops was there before the list was made. *)
LEMMA DroppedWasThere ==
  ASSUME Running, NEW n \in PyName, names[n] # Other, NEW list, NEW w, NEW v, NEW z,
         IsListed(w, list, v, z)
  PROVE  Dropped(z, names[n]) \subseteq DOMAIN objs
<1> DEFINE old == names[n]
<1>1. old \in Slot /\ old \in DOMAIN objs
  BY BoundIsThere DEF Running, Bound
<1>2. z.objs[old] = objs[old]
  BY <1>1 DEF IsListed, Listed
<1>3. ASSUME objs[old].type = "list"
      PROVE  Range(objs[old].holds) \subseteq DOMAIN objs
  <2> DEFINE items == objs[old].holds
  <2>1. /\ Zero \in Pending /\ ObjectsTyped(World) /\ Counted(World, Zero, At(World))
        /\ World.objs = objs
    BY InvIs DEF Running
  <2>2. IsList(World, old) /\ ListHeld(World, items)
    BY <1>1, <1>3, <2>1 DEF IsList, ObjectsTyped
  <2>3. \A i \in 1..Len(items) : items[i] \in DOMAIN objs
    BY <1>1, <2>1, <2>2, HeldIsThere
  <2>4. DOMAIN items = 1..Len(items)
    BY <2>2 DEF ListHeld, IsSequence
  <2> QED BY <2>3, <2>4 DEF Range
<1> QED
  BY <1>1, <1>2, <1>3 DEF Dropped

(* So binding the list leaves it, and its variables. *)
LEMMA ListIsKept ==
  ASSUME Running, NEW n \in PyName, NEW list, NEW w, NEW v, NEW z,
         IsListed(w, list, v, z), Becomes(Bind(z, n, list))
  PROVE  /\ names'[n] = list
         /\ \A r \in DOMAIN z.objs \ DOMAIN objs : objs'[r].holds = z.objs[r].holds
<1> DEFINE y == Bind(z, n, list)
           T == IF z.names[n] = Other THEN {} ELSE Dropped(z, z.names[n])
<1>1. z.names = names /\ FitWorld(memory, Answering, z) /\ DOMAIN objs \subseteq DOMAIN z.objs
  BY DEF IsListed, Listed
<1>2. z.names[n] # Other => z.names[n] \in DOMAIN z.objs
  BY <1>1, RunningIs
<1>3. Leaves(z, y, T) /\ y.names = [z.names EXCEPT ![n] = list]
  <2>1. /\ Records(z)
        /\ \A s \in DOMAIN z.objs : z.objs[s].type = "list" => IsSequence(z.objs[s].holds)
    BY <1>1, FitRecords
  <2> QED BY <1>2, <2>1, BindLeaves
<1>4. T \subseteq DOMAIN objs
  BY <1>1, DroppedWasThere
<1> HIDE DEF y, T
<1>5. objs' = y.objs /\ names' = y.names
  BY DEF Becomes, y
<1>6. n \in DOMAIN names
  BY InvIs DEF Running, ObjectsTyped
<1> QED
  BY <1>1, <1>3, <1>4, <1>5, <1>6 DEF Leaves

(* The list has what it should. *)
LEMMA AttrsListed ==
  ASSUME Running, NEW n \in PyName, NEW m, GetAttrs(n, m)
  PROVE  LET attrs == Here(m).holds.attrs
             list == objs'[names'[n]].holds
         IN [i \in DOMAIN list |-> objs'[list[i]].holds]
              = [i \in 1..Cardinality(DOMAIN attrs) |->
                   LET a == attrs[Nth(DOMAIN attrs, i)] IN Variable(a.info, a.val, NoAttrs)]
<1> DEFINE v == Here(m).holds
           list == FirstFree(World)
           w == Alloc(World, "list", <<>>)
           z == AppendAll(w, list, v)
           items == z.objs[list].holds
           codes == DOMAIN v.attrs
           k == Cardinality(codes)
<1>1. IsListed(w, list, v, z) /\ Becomes(Bind(z, n, list))
  BY AttrsAreListed
<1> HIDE DEF v, list, w, z
<1>2. /\ list \in DOMAIN z.objs \ DOMAIN objs /\ IsSequence(items) /\ Len(items) = k
      /\ DOMAIN z.objs = DOMAIN w.objs \cup Range(items)
      /\ DOMAIN objs \subseteq DOMAIN w.objs
      /\ \A i \in 1..k : /\ items[i] \notin DOMAIN w.objs
                         /\ z.objs[items[i]].holds = ListedAttr(v, Nth(codes, i))
  BY <1>1 DEF IsListed, Listed
<1>3. /\ names'[n] = list
      /\ \A r \in DOMAIN z.objs \ DOMAIN objs : objs'[r].holds = z.objs[r].holds
  BY <1>1, ListIsKept
<1>4. objs'[names'[n]].holds = items
  BY <1>2, <1>3
<1> HIDE DEF items
<1>5. DOMAIN items = 1..k
  BY <1>2 DEF IsSequence
<1>6. ASSUME NEW i \in 1..k
      PROVE  objs'[items[i]].holds =
               Variable(v.attrs[Nth(codes, i)].info, v.attrs[Nth(codes, i)].val, NoAttrs)
  <2>1. items[i] \in DOMAIN z.objs \ DOMAIN objs
    BY <1>2, <1>5 DEF Range
  <2>2. Nth(codes, i) \in codes
    BY <1>1, NthIsThere DEF IsListed, FitVar
  <2>3. ListedAttr(v, Nth(codes, i)) =
          Variable(v.attrs[Nth(codes, i)].info, v.attrs[Nth(codes, i)].val, NoAttrs)
    BY <1>1, <2>2, RunningIs, ListedIs DEF IsListed
  <2> QED BY <1>2, <1>3, <2>1, <2>3
<1> QED
  BY <1>4, <1>5, <1>6 DEF v

(* The list that get_attrs gives is a new one, of a variable for each attribute, with
   its value and without attributes: nothing that it drops or counts off is in it
   (src/python/var.cc, utils/core.h, src/wreport/var.cc), for any program. *)
THEOREM AttributesAreAllListed == Spec => AttributesAreListed
<1> DEFINE Inv == ObjectsInv /\ EntriesInv /\ FitInv
<1>1. Init => Inv
  BY ObjectsBegin, EntriesBegin, FitBegin
<1>2. Inv /\ [Next]_vars => Inv'
  BY ObjectsStep, EntriesStep, FitStep
<1>3. Inv /\ [Next]_vars => [ListsAttributes]_vars
  <2>1. Inv => ListsAttributes
    BY AttrsListed DEF Running, ListsAttributes
  <2> QED BY <2>1
<1> HIDE DEF Inv
<1> QED
  BY <1>1, <1>2, <1>3, PTL DEF Spec, AttributesAreListed
=============================================================================
