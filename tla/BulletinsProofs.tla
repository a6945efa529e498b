-------------------------- MODULE BulletinsProofs ---------------------------
(***************************************************************************)
(* Of every bulletin whose members have the widths of bulletin.h, every    *)
(* style of layout and every place where a message is cut: what is decoded *)
(* is what was written (DecodedAsWritten), nothing is decoded but a whole  *)
(* message (WholeIsDecoded), a relay settles at once (RelaySettles), and   *)
(* diff counts a difference exactly when something was lost                *)
(* (DiffTellsLosses).                                                      *)
(*                                                                         *)
(* The argument has three parts.  Octets that are written can be read:     *)
(* numbers, then sections, then the five sections one behind the other,    *)
(* at whatever place they lie in the message (Placed), of which only the   *)
(* beginning may be there (Got).  From these the members of a bulletin     *)
(* that was decoded are computed one by one (DecodedAsSent).  Last,        *)
(* BulletinsInv says which message the program has, and which of these     *)
(* facts holds of its bulletin; each action keeps it.                      *)
(***************************************************************************)
EXTENDS Bulletins, FiniteSetTheorems, SequenceTheorems, TLAPS

(***************************************************************************)
(* Octets and numbers.                                                     *)
(***************************************************************************)

(* The octets of a number are the digits of it in base 256. *)
LEMMA LowOctet ==
  ASSUME NEW v \in Nat
  PROVE  v % 256 \in Octet
BY SMT DEF Octet

(* The high octet of a number of two. *)
LEMMA HighOctet ==
  ASSUME NEW v \in Short
  PROVE  v \in Nat /\ v \div 256 \in Octet
<1>1. \A w \in Nat : w <= 65535 => w \div 256 \in Octet
  BY SMT DEF Octet
<1>2. v \in Nat /\ v <= 65535
  BY SMT DEF Short
<1> QED BY SMT, <1>1, <1>2

(* append_short writes the high octet, then the low one. *)
LEMMA OctetsOfShort ==
  ASSUME NEW v \in Short
  PROVE  /\ Octets(v, 2) = <<v \div 256, v % 256>>
         /\ v \div 256 \in Octet /\ v % 256 \in Octet
<1>1. 256^(2 - 1) = 256 /\ 256^(2 - 2) = 1
  BY SMT
<1>2. v \in Nat /\ v \div 256 \in Octet /\ v % 256 \in Octet
  BY LowOctet, HighOctet
<1>3. v \div 1 = v
  BY SMT, <1>2
<1>4. Octets(v, 2) = <<v \div 256, v % 256>>
  BY SMT, <1>1, <1>2, <1>3 DEF Octets, Octet
<1> QED BY <1>2, <1>4

Long == {v \in Nat : v <= 16777215}

(* A length is written in three octets. *)
LEMMA OctetsOfLength ==
  ASSUME NEW v \in Long
  PROVE  /\ Octets(v, 3) = <<(v \div 256) \div 256, (v \div 256) % 256, v % 256>>
         /\ (v \div 256) \div 256 \in Octet /\ (v \div 256) % 256 \in Octet
         /\ v % 256 \in Octet
<1>0. v \in Nat /\ v <= 16777215
  BY SMT DEF Long
<1>1. 256^(3 - 1) = 65536 /\ 256^(3 - 2) = 256 /\ 256^(3 - 3) = 1
  BY SMT
<1>2. v \div 256 \in Short
  <2>1. v \div 256 \in Nat /\ v \div 256 <= 65535
    BY SMT, <1>0
  <2> QED BY SMT, <2>1 DEF Short
<1>3. v \div 65536 = (v \div 256) \div 256
  BY SMT, <1>0
<1>4. v \div 1 = v
  BY SMT, <1>0
<1>5. (v \div 256) \div 256 \in Octet /\ (v \div 256) % 256 \in Octet
  BY <1>2, HighOctet, LowOctet
<1>6. v % 256 \in Octet
  BY <1>0, LowOctet, SMT
<1>7. (v \div 65536) % 256 = v \div 65536
  BY SMT, <1>0
<1>8. Octets(v, 3) = <<v \div 65536, (v \div 256) % 256, v % 256>>
  BY SMT, <1>1, <1>4, <1>7 DEF Octets
<1> QED BY SMT, <1>3, <1>5, <1>6, <1>8

(* A number that fits an octet is in the last of the three. *)
LEMMA OctetsOfOne ==
  ASSUME NEW v \in Octet
  PROVE  Octets(v, 3) = <<0, 0, v>>
<1>1. v \in Long
  BY SMT DEF Octet, Long
<1>2. Octets(v, 3) = <<(v \div 256) \div 256, (v \div 256) % 256, v % 256>>
  BY <1>1, OctetsOfLength
<1>3. v \div 256 = 0 /\ v % 256 = v
  BY SMT DEF Octet
<1>4. 0 \div 256 = 0 /\ 0 % 256 = 0
  BY SMT
<1> QED BY SMT, <1>2, <1>3, <1>4

(* A number is read from its octets one by one. *)
NumberSum(buf, pos, n, f) ==
  f = [i \in 0..n |-> IF i = 0 THEN 0 ELSE 256 * f[i - 1] + buf[pos + i]]

(* Two octets are read as a number. *)
LEMMA NumberOfTwo ==
  ASSUME NEW buf, NEW pos \in Nat, buf[pos + 1] \in Octet, buf[pos + 2] \in Octet
  PROVE  Number(buf, pos, 2) = 256 * buf[pos + 1] + buf[pos + 2]
<1> DEFINE g == [i \in 0..2 |-> IF i = 0 THEN 0 ELSE IF i = 1 THEN buf[pos + 1]
                                ELSE 256 * buf[pos + 1] + buf[pos + 2]]
           s == CHOOSE f : NumberSum(buf, pos, 2, f)
<1>1. NumberSum(buf, pos, 2, g)
  <2>1. g[0] = 0 /\ g[1] = buf[pos + 1] /\ g[2] = 256 * buf[pos + 1] + buf[pos + 2]
    OBVIOUS
  <2>2. \A i \in 0..2 : i = 0 \/ i = 1 \/ i = 2
    OBVIOUS
  <2>3. 1 - 1 = 0 /\ 2 - 1 = 1
    OBVIOUS
  <2>4. buf[pos + 1] = 256 * 0 + buf[pos + 1]
    BY DEF Octet
  <2> HIDE DEF g
  <2>5. \A i \in 0..2 : g[i] = IF i = 0 THEN 0 ELSE 256 * g[i - 1] + buf[pos + i]
    BY <2>1, <2>2, <2>3, <2>4
  <2> QED BY <2>5 DEF NumberSum, g
<1>2. NumberSum(buf, pos, 2, s)
  BY <1>1
<1>3. Number(buf, pos, 2) = s[2]
  BY DEF Number, NumberSum
<1> HIDE DEF s
<1>4. s[0] = 0 /\ s[1] = 256 * s[0] + buf[pos + 1] /\ s[2] = 256 * s[1] + buf[pos + 2]
  BY <1>2 DEF NumberSum
<1> QED BY <1>3, <1>4 DEF Octet

(* Three octets are read as a number. *)
LEMMA NumberOfThree ==
  ASSUME NEW buf, NEW pos \in Nat,
         buf[pos + 1] \in Octet, buf[pos + 2] \in Octet, buf[pos + 3] \in Octet
  PROVE  Number(buf, pos, 3) = 65536 * buf[pos + 1] + 256 * buf[pos + 2] + buf[pos + 3]
<1> DEFINE g == [i \in 0..3 |-> IF i = 0 THEN 0 ELSE IF i = 1 THEN buf[pos + 1]
                                ELSE IF i = 2 THEN 256 * buf[pos + 1] + buf[pos + 2]
                                ELSE 256 * (256 * buf[pos + 1] + buf[pos + 2]) + buf[pos + 3]]
           s == CHOOSE f : NumberSum(buf, pos, 3, f)
<1>1. NumberSum(buf, pos, 3, g)
  <2>1. /\ g[0] = 0 /\ g[1] = buf[pos + 1] /\ g[2] = 256 * buf[pos + 1] + buf[pos + 2]
        /\ g[3] = 256 * (256 * buf[pos + 1] + buf[pos + 2]) + buf[pos + 3]
    OBVIOUS
  <2>2. \A i \in 0..3 : i = 0 \/ i = 1 \/ i = 2 \/ i = 3
    OBVIOUS
  <2>3. 1 - 1 = 0 /\ 2 - 1 = 1 /\ 3 - 1 = 2
    OBVIOUS
  <2>4. buf[pos + 1] = 256 * 0 + buf[pos + 1]
    BY DEF Octet
  <2> HIDE DEF g
  <2>5. \A i \in 0..3 : g[i] = IF i = 0 THEN 0 ELSE 256 * g[i - 1] + buf[pos + i]
    BY <2>1, <2>2, <2>3, <2>4
  <2> QED BY <2>5 DEF NumberSum, g
<1>2. NumberSum(buf, pos, 3, s)
  BY <1>1
<1>3. Number(buf, pos, 3) = s[3]
  BY DEF Number, NumberSum
<1> HIDE DEF s
<1>4. /\ s[0] = 0 /\ s[1] = 256 * s[0] + buf[pos + 1] /\ s[2] = 256 * s[1] + buf[pos + 2]
      /\ s[3] = 256 * s[2] + buf[pos + 3]
  BY <1>2 DEF NumberSum
<1>5. s[1] = buf[pos + 1]
  BY SMT, <1>4 DEF Octet
<1>6. s[2] = 256 * buf[pos + 1] + buf[pos + 2]
  BY SMT, <1>4, <1>5 DEF Octet
<1>0. buf[pos + 1] \in Nat /\ buf[pos + 2] \in Nat /\ buf[pos + 3] \in Nat
  BY SMT DEF Octet
<1>7. PICK a \in Nat, b \in Nat, c \in Nat :
        a = buf[pos + 1] /\ b = buf[pos + 2] /\ c = buf[pos + 3]
  BY Zenon, <1>0
<1>8. s[3] = 256 * (256 * a + b) + c
  BY SMT, <1>4, <1>6, <1>7
<1>9. 256 * (256 * a + b) + c = 65536 * a + 256 * b + c
  BY SMT
<1> QED BY SMT, <1>3, <1>7, <1>8, <1>9

(* What was written as the octets of a number is read as that number. *)
LEMMA ShortReadsBack ==
  ASSUME NEW buf, NEW pos \in Nat, NEW v \in Short,
         buf[pos + 1] = Octets(v, 2)[1], buf[pos + 2] = Octets(v, 2)[2]
  PROVE  Number(buf, pos, 2) = v
<1>1. buf[pos + 1] = v \div 256 /\ buf[pos + 2] = v % 256
  BY OctetsOfShort
<1>2. v \in Nat /\ v \div 256 \in Octet /\ v % 256 \in Octet
  BY HighOctet, LowOctet
<1>3. 256 * (v \div 256) + (v % 256) = v
  BY SMT, <1>2
<1>4. Number(buf, pos, 2) = 256 * buf[pos + 1] + buf[pos + 2]
  BY Zenon, <1>1, <1>2, NumberOfTwo
<1> QED BY SMT, <1>1, <1>3, <1>4

(* A length of three octets is read as it was written. *)
LEMMA LengthReadsBack ==
  ASSUME NEW buf, NEW pos \in Nat, NEW v \in Long,
         buf[pos + 1] = Octets(v, 3)[1], buf[pos + 2] = Octets(v, 3)[2],
         buf[pos + 3] = Octets(v, 3)[3]
  PROVE  Number(buf, pos, 3) = v
<1>0. v \in Nat
  BY SMT DEF Long
<1>1. /\ buf[pos + 1] = (v \div 256) \div 256 /\ buf[pos + 2] = (v \div 256) % 256
      /\ buf[pos + 3] = v % 256
  BY OctetsOfLength
<1>2. buf[pos + 1] \in Octet /\ buf[pos + 2] \in Octet /\ buf[pos + 3] \in Octet
  BY <1>1, OctetsOfLength
<1>3. 65536 * ((v \div 256) \div 256) + 256 * ((v \div 256) % 256) + (v % 256) = v
  BY SMT, <1>0
<1>4. Number(buf, pos, 3) = 65536 * buf[pos + 1] + 256 * buf[pos + 2] + buf[pos + 3]
  BY SMT, <1>2, NumberOfThree
<1> QED BY SMT, <1>1, <1>3, <1>4

(* The members of a bulletin that fit an octet. *)
LEMMA OctetsTyped ==
  ASSUME NEW b, IsBulletin(b)
  PROVE  /\ b.master_table_number \in Octet /\ b.data_category \in Octet
         /\ b.data_subcategory \in Octet /\ b.data_subcategory_local \in Octet
         /\ b.update_sequence_number \in Octet /\ b.rep_second \in Octet
         /\ b.edition_number \in Octet /\ b.master_table_version_number \in Octet
         /\ b.master_table_version_number_local \in Octet
<1>1. HasOctets(b)
  BY DEF IsBulletin
<1> QED BY SMT, <1>1 DEF HasOctets

(* The members of a bulletin that fit two octets. *)
LEMMA ShortsTyped ==
  ASSUME NEW b, IsBulletin(b)
  PROVE  /\ b.originating_centre \in Nat /\ b.originating_centre <= 65535
         /\ b.originating_subcentre \in Nat /\ b.originating_subcentre <= 65535
         /\ b.rep_year \in Nat /\ b.rep_year <= 65535
<1>1. HasShorts(b)
  BY DEF IsBulletin
<1>2. /\ b.originating_centre \in Short /\ b.originating_subcentre \in Short
      /\ b.rep_year \in Short
  BY SMT, <1>1 DEF HasShorts
<1>3. \A v \in Short : v \in Nat /\ v <= 65535
  BY SMT DEF Short
<1> QED BY SMT, <1>2, <1>3

(* The members of a bulletin that are sequences. *)
LEMMA SequencesTyped ==
  ASSUME NEW b, IsBulletin(b)
  PROVE  /\ b.clock \in Seq(Octet) /\ Len(b.clock) = 4
         /\ b.optional_section \in Seq(Octet) /\ Len(b.optional_section) <= Longest
         /\ b.datadesc \in Seq(Short) /\ Len(b.datadesc) <= Longest
         /\ b.subsets \in Seq(Octet) /\ Len(b.subsets) <= Longest
<1>1. HasSequences(b)
  BY DEF IsBulletin
<1> QED BY <1>1 DEF HasSequences

(* What is where in a concatenation. *)
LEMMA Joined ==
  ASSUME NEW s \in Seq(Octet), NEW t \in Seq(Octet)
  PROVE  /\ s \o t \in Seq(Octet)
         /\ Len(s \o t) = Len(s) + Len(t)
         /\ \A i \in 1..Len(s) : (s \o t)[i] = s[i]
         /\ \A i \in 1..Len(t) : (s \o t)[Len(s) + i] = t[i]
<1>1. Len(s) \in Nat /\ Len(t) \in Nat
  OBVIOUS
<1>2. \A i \in 1..Len(s) + Len(t) : (s \o t)[i] = IF i <= Len(s) THEN s[i] ELSE t[i - Len(s)]
  BY ConcatProperties
<1>3. ASSUME NEW i \in 1..Len(s)
      PROVE  (s \o t)[i] = s[i]
  BY <1>1, <1>2
<1>4. ASSUME NEW i \in 1..Len(t)
      PROVE  (s \o t)[Len(s) + i] = t[i]
  <2>1. Len(s) + i \in 1..Len(s) + Len(t) /\ ~(Len(s) + i <= Len(s)) /\ Len(s) + i - Len(s) = i
    BY <1>1
  <2> QED BY <1>2, <2>1
<1> QED BY <1>3, <1>4, ConcatProperties

(* A sequence is what a buffer has from a place on, as far as the buffer goes. *)
Placed(buf, pos, s) == \A i \in 1..Len(s) : pos + i <= Len(buf) => buf[pos + i] = s[i]

(* Octets are at their own beginning. *)
LEMMA PlacedSelf ==
  ASSUME NEW s \in Seq(Octet)
  PROVE  Placed(s, 0, s)
BY DEF Placed

(* The beginning of octets is there as far as it goes. *)
LEMMA PlacedPrefix ==
  ASSUME NEW s \in Seq(Octet), NEW n \in 0..Len(s)
  PROVE  Placed(SubSeq(s, 1, n), 0, s)
BY DEF Placed

(* When two pieces are there together, each is there. *)
LEMMA PlacedJoined ==
  ASSUME NEW buf \in Seq(Octet), NEW pos \in Nat, NEW s \in Seq(Octet), NEW t \in Seq(Octet),
         Placed(buf, pos, s \o t)
  PROVE  Placed(buf, pos, s) /\ Placed(buf, pos + Len(s), t)
<1>1. Len(s) \in Nat /\ Len(t) \in Nat /\ Len(buf) \in Nat
  OBVIOUS
<1>2. ASSUME NEW i \in 1..Len(s), pos + i <= Len(buf)
      PROVE  buf[pos + i] = s[i]
  <2>1. i \in 1..Len(s \o t) /\ (s \o t)[i] = s[i]
    BY <1>1, Joined
  <2> QED BY <1>2, <2>1 DEF Placed
<1>3. ASSUME NEW i \in 1..Len(t), pos + Len(s) + i <= Len(buf)
      PROVE  buf[pos + Len(s) + i] = t[i]
  <2>1. (s \o t)[Len(s) + i] = t[i] /\ Len(s \o t) = Len(s) + Len(t)
    BY Joined
  <2>2. Len(s) + i \in 1..Len(s \o t) /\ pos + (Len(s) + i) = pos + Len(s) + i
    BY <1>1, <2>1
  <2> QED BY <1>3, <2>1, <2>2 DEF Placed
<1> QED BY <1>2, <1>3 DEF Placed

(* An octet of a piece that is there. *)
LEMMA PlacedAt ==
  ASSUME NEW buf, NEW pos, NEW s, Placed(buf, pos, s),
         NEW i \in 1..Len(s), pos + i <= Len(buf)
  PROVE  buf[pos + i] = s[i]
BY DEF Placed

(* The octets of section 1 after its length, in editions 2 and 3. *)
Ed3Fields(s, b) ==
  /\ s[4] = b.master_table_number
  /\ s[5] = b.originating_subcentre % 256 /\ s[6] = b.originating_centre % 256
  /\ s[7] = b.update_sequence_number /\ s[8] = HasOptional(b)
  /\ s[9] = b.data_category /\ s[10] = b.data_subcategory_local
  /\ s[11] = b.master_table_version_number
  /\ s[12] = b.master_table_version_number_local /\ s[13] = YearOfCentury(b.rep_year)
  /\ \A i \in 1..4 : s[13 + i] = b.clock[i]

(* Section 1 of editions 2 and 3. *)
LEMMA Ed3 ==
  ASSUME NEW b, IsBulletin(b), NEW s, s = Sec1ed3(b)
  PROVE  /\ s \in Seq(Octet) /\ Len(s) = 18 /\ s[1] = 0 /\ s[2] = 0 /\ s[3] = 18
         /\ Ed3Fields(s, b)
<1> DEFINE p1 == Octets(18, 3)
           p2 == <<b.master_table_number, b.originating_subcentre % 256,
                   b.originating_centre % 256, b.update_sequence_number, HasOptional(b),
                   b.data_category, b.data_subcategory_local, b.master_table_version_number,
                   b.master_table_version_number_local, YearOfCentury(b.rep_year)>>
           p4 == <<(b.rep_year \div 100) % 256>>
           c == b.clock
<1>1. p1 = <<0, 0, 18>>
  <2>1. 18 \in Octet
    BY DEF Octet
  <2> QED BY <2>1, OctetsOfOne
<1>2. p1 \in Seq(Octet)
  <2>1. 0 \in Octet /\ 18 \in Octet
    BY SMT DEF Octet
  <2>2. <<0, 0, 18>> \in Seq(Octet)
    BY <2>1
  <2> QED BY <1>1, <2>2
<1>3. HasOptional(b) \in Octet
  BY SMT DEF HasOptional, Octet
<1>4. YearOfCentury(b.rep_year) \in Octet
  BY SMT, ShortsTyped DEF YearOfCentury, Octet
<1>5. b.originating_subcentre % 256 \in Octet /\ b.originating_centre % 256 \in Octet
  BY SMT, ShortsTyped, LowOctet
<1>6. (b.rep_year \div 100) % 256 \in Octet
  BY SMT, ShortsTyped DEF Octet
<1> HIDE DEF p1
<1>7. p2 \in Seq(Octet) /\ Len(p2) = 10
  BY <1>3, <1>4, <1>5, OctetsTyped
<1>8. p4 \in Seq(Octet) /\ Len(p4) = 1
  BY <1>6
<1>9. Sec1ed3(b) = p1 \o p2 \o c \o p4
  BY DEF Sec1ed3, p1
<1>10. Len(p1) = 3 /\ p1[1] = 0 /\ p1[2] = 0 /\ p1[3] = 18
  BY <1>1
<1>a. /\ p2[1] = b.master_table_number
      /\ p2[2] = b.originating_subcentre % 256 /\ p2[3] = b.originating_centre % 256
      /\ p2[4] = b.update_sequence_number /\ p2[5] = HasOptional(b)
      /\ p2[6] = b.data_category /\ p2[7] = b.data_subcategory_local
      /\ p2[8] = b.master_table_version_number
      /\ p2[9] = b.master_table_version_number_local /\ p2[10] = YearOfCentury(b.rep_year)
  OBVIOUS
<1>c. c \in Seq(Octet) /\ Len(c) = 4 /\ \A i \in 1..4 : c[i] = b.clock[i]
  BY SequencesTyped
<1> HIDE DEF p2, p4, c
<1>11. p1 \o p2 \in Seq(Octet) /\ Len(p1 \o p2) = 13
  <2>1. p1 \o p2 \in Seq(Octet) /\ Len(p1 \o p2) = Len(p1) + Len(p2)
    BY <1>2, <1>7, Joined
  <2> QED BY <2>1, <1>7, <1>10
<1>12. p1 \o p2 \o c \in Seq(Octet) /\ Len(p1 \o p2 \o c) = 17
  <2>1. /\ p1 \o p2 \o c \in Seq(Octet)
        /\ Len(p1 \o p2 \o c) = Len(p1 \o p2) + Len(c)
    BY <1>11, <1>c, Joined
  <2> QED BY <1>c, <2>1, <1>11
<1>13. s \in Seq(Octet) /\ Len(s) = Len(p1 \o p2 \o c) + Len(p4)
  <2>1. s = p1 \o p2 \o c \o p4
    BY <1>9
  <2>2. /\ p1 \o p2 \o c \o p4 \in Seq(Octet)
        /\ Len(p1 \o p2 \o c \o p4) = Len(p1 \o p2 \o c) + Len(p4)
    BY <1>12, <1>8, Joined
  <2> QED BY Zenon, <2>1, <2>2
<1>14. Len(s) = 18
  BY <1>12, <1>13, <1>8
<1>15. Placed(s, 0, p1 \o p2 \o c \o p4)
  BY <1>13, <1>9, PlacedSelf
<1>16. Placed(s, 0, p1 \o p2 \o c) /\ Placed(s, 0 + 17, p4)
  BY <1>15, <1>13, <1>12, <1>8, PlacedJoined
<1>17. Placed(s, 0, p1 \o p2) /\ Placed(s, 0 + 13, c)
  BY <1>16, <1>13, <1>11, <1>c, PlacedJoined
<1>18. Placed(s, 0, p1) /\ Placed(s, 0 + 3, p2)
  BY <1>17, <1>13, <1>2, <1>7, <1>10, PlacedJoined
<1>19. s[1] = 0 /\ s[2] = 0 /\ s[3] = 18
  BY <1>18, <1>14, <1>10 DEF Placed
<1>20. \A i \in 1..10 : s[3 + i] = p2[i]
  BY <1>18, <1>14, <1>7 DEF Placed
<1>21. \A i \in 1..4 : s[13 + i] = c[i]
  BY <1>17, <1>14, <1>c DEF Placed
<1>22. /\ s[4] = p2[1] /\ s[5] = p2[2] /\ s[6] = p2[3] /\ s[7] = p2[4] /\ s[8] = p2[5]
       /\ s[9] = p2[6] /\ s[10] = p2[7] /\ s[11] = p2[8] /\ s[12] = p2[9] /\ s[13] = p2[10]
  BY <1>20
<1>23. Ed3Fields(s, b)
  BY Zenon, <1>a, <1>c, <1>21, <1>22 DEF Ed3Fields
<1> QED BY Zenon, <1>13, <1>14, <1>19, <1>23

(* Two pieces that are there from the start, the length of the first named. *)
LEMMA PlacedSplit ==
  ASSUME NEW buf \in Seq(Octet), NEW s \in Seq(Octet), NEW t \in Seq(Octet), NEW m \in Nat,
         Len(s) = m, Placed(buf, 0, s \o t)
  PROVE  Placed(buf, 0, s) /\ Placed(buf, m, t)
<1>1. Placed(buf, 0, s) /\ Placed(buf, 0 + Len(s), t)
  BY PlacedJoined
<1>2. 0 + Len(s) = m
  OBVIOUS
<1> QED BY <1>1, <1>2

(* Section 1 of edition 4. *)
LEMMA Ed4 ==
  ASSUME NEW b, IsBulletin(b), NEW s, s = Sec1ed4(b)
  PROVE  /\ s \in Seq(Octet) /\ Len(s) = 22
         /\ s[1] = 0 /\ s[2] = 0 /\ s[3] = 22 /\ s[4] = 0
         /\ s[5] = Octets(b.originating_centre, 2)[1]
         /\ s[6] = Octets(b.originating_centre, 2)[2]
         /\ s[7] = Octets(b.originating_subcentre, 2)[1]
         /\ s[8] = Octets(b.originating_subcentre, 2)[2]
         /\ s[9] = b.update_sequence_number /\ s[10] = HasOptional(b)
         /\ s[11] = b.data_category /\ s[12] = b.data_subcategory
         /\ s[13] = b.data_subcategory_local
         /\ s[14] = b.master_table_version_number
         /\ s[15] = b.master_table_version_number_local
         /\ s[16] = Octets(b.rep_year, 2)[1] /\ s[17] = Octets(b.rep_year, 2)[2]
         /\ \A i \in 1..4 : s[17 + i] = b.clock[i]
         /\ s[22] = b.rep_second
<1> DEFINE p1 == Octets(22, 3)
           p2 == <<0>>
           oc == Octets(b.originating_centre, 2)
           os == Octets(b.originating_subcentre, 2)
           p5 == <<b.update_sequence_number, HasOptional(b), b.data_category,
                   b.data_subcategory, b.data_subcategory_local,
                   b.master_table_version_number, b.master_table_version_number_local>>
           yy == Octets(b.rep_year, 2)
           c == b.clock
           p8 == <<b.rep_second>>
           q2 == p1 \o p2
           q3 == q2 \o oc
           q4 == q3 \o os
           q5 == q4 \o p5
           q6 == q5 \o yy
           q7 == q6 \o c
<1>0. 0 \in Octet /\ 22 \in Octet
  BY SMT DEF Octet
<1>n. /\ 1 \in Nat /\ 2 \in Nat /\ 3 \in Nat /\ 4 \in Nat /\ 6 \in Nat /\ 7 \in Nat
      /\ 8 \in Nat /\ 15 \in Nat /\ 17 \in Nat /\ 21 \in Nat
  OBVIOUS
<1>1. p1 = <<0, 0, 22>>
  BY <1>0, OctetsOfOne
<1>2. p1 \in Seq(Octet) /\ Len(p1) = 3
  <2>1. <<0, 0, 22>> \in Seq(Octet) /\ Len(<<0, 0, 22>>) = 3
    BY <1>0
  <2> QED BY <1>1, <2>1
<1>3. HasOptional(b) \in Octet
  BY SMT DEF HasOptional, Octet
<1>4. /\ b.originating_centre \in Short /\ b.originating_subcentre \in Short
      /\ b.rep_year \in Short
  BY SMT, ShortsTyped DEF Short
<1>5. ASSUME NEW v \in Short
      PROVE  Octets(v, 2) \in Seq(Octet) /\ Len(Octets(v, 2)) = 2
  <2>1. <<v \div 256, v % 256>> \in Seq(Octet) /\ Len(<<v \div 256, v % 256>>) = 2
    BY OctetsOfShort
  <2> QED BY <2>1, OctetsOfShort
<1>6. /\ oc \in Seq(Octet) /\ Len(oc) = 2 /\ os \in Seq(Octet) /\ Len(os) = 2
      /\ yy \in Seq(Octet) /\ Len(yy) = 2
  BY <1>4, <1>5
<1>7. p5 \in Seq(Octet) /\ Len(p5) = 7
  BY <1>3, OctetsTyped
<1>8. p8 \in Seq(Octet) /\ Len(p8) = 1 /\ p2 \in Seq(Octet) /\ Len(p2) = 1
  BY <1>0, OctetsTyped
<1>9. Sec1ed4(b) = q7 \o p8
  BY DEF Sec1ed4
<1>10. p1[1] = 0 /\ p1[2] = 0 /\ p1[3] = 22 /\ p2[1] = 0
  BY <1>1
<1>11. /\ p5[1] = b.update_sequence_number /\ p5[2] = HasOptional(b)
       /\ p5[3] = b.data_category /\ p5[4] = b.data_subcategory
       /\ p5[5] = b.data_subcategory_local /\ p5[6] = b.master_table_version_number
       /\ p5[7] = b.master_table_version_number_local
  OBVIOUS
<1>12. p8[1] = b.rep_second
  OBVIOUS
<1>13. c \in Seq(Octet) /\ Len(c) = 4
  BY SequencesTyped
<1> HIDE DEF p1, p2, oc, os, p5, yy, c, p8
<1>14. q2 \in Seq(Octet) /\ Len(q2) = 4
  <2>1. q2 \in Seq(Octet) /\ Len(q2) = Len(p1) + Len(p2)
    BY <1>2, <1>8, Joined DEF q2
  <2> QED BY <2>1, <1>2, <1>8
<1> HIDE DEF q2
<1>15. q3 \in Seq(Octet) /\ Len(q3) = 6
  <2>1. q3 \in Seq(Octet) /\ Len(q3) = Len(q2) + Len(oc)
    BY <1>14, <1>6, Joined DEF q3
  <2> QED BY <2>1, <1>14, <1>6
<1> HIDE DEF q3
<1>16. q4 \in Seq(Octet) /\ Len(q4) = 8
  <2>1. q4 \in Seq(Octet) /\ Len(q4) = Len(q3) + Len(os)
    BY <1>15, <1>6, Joined DEF q4
  <2> QED BY <2>1, <1>15, <1>6
<1> HIDE DEF q4
<1>17. q5 \in Seq(Octet) /\ Len(q5) = 15
  <2>1. q5 \in Seq(Octet) /\ Len(q5) = Len(q4) + Len(p5)
    BY <1>16, <1>7, Joined DEF q5
  <2> QED BY <2>1, <1>16, <1>7
<1> HIDE DEF q5
<1>18. q6 \in Seq(Octet) /\ Len(q6) = 17
  <2>1. q6 \in Seq(Octet) /\ Len(q6) = Len(q5) + Len(yy)
    BY <1>17, <1>6, Joined DEF q6
  <2> QED BY <2>1, <1>17, <1>6
<1> HIDE DEF q6
<1>19. q7 \in Seq(Octet) /\ Len(q7) = 21
  <2>1. q7 \in Seq(Octet) /\ Len(q7) = Len(q6) + Len(c)
    BY <1>18, <1>13, Joined DEF q7
  <2> QED BY <2>1, <1>18, <1>13
<1> HIDE DEF q7
<1>20. s \in Seq(Octet) /\ Len(s) = 22
  <2>1. q7 \o p8 \in Seq(Octet) /\ Len(q7 \o p8) = Len(q7) + Len(p8)
    BY <1>19, <1>8, Joined
  <2> QED BY <2>1, <1>9, <1>19, <1>8
<1>21. Placed(s, 0, q7) /\ Placed(s, 21, p8)
  <2>1. Placed(s, 0, q7 \o p8)
    BY <1>20, <1>9, PlacedSelf
  <2> QED BY Zenon, <1>n, <2>1, <1>20, <1>19, <1>8, PlacedSplit
<1>22. Placed(s, 0, q6) /\ Placed(s, 17, c)
  BY Zenon, <1>n, <1>21, <1>20, <1>18, <1>13, PlacedSplit DEF q7
<1>23. Placed(s, 0, q5) /\ Placed(s, 15, yy)
  BY Zenon, <1>n, <1>22, <1>20, <1>17, <1>6, PlacedSplit DEF q6
<1>24. Placed(s, 0, q4) /\ Placed(s, 8, p5)
  BY Zenon, <1>n, <1>23, <1>20, <1>16, <1>7, PlacedSplit DEF q5
<1>25. Placed(s, 0, q3) /\ Placed(s, 6, os)
  BY Zenon, <1>n, <1>24, <1>20, <1>15, <1>6, PlacedSplit DEF q4
<1>26. Placed(s, 0, q2) /\ Placed(s, 4, oc)
  BY Zenon, <1>n, <1>25, <1>20, <1>14, <1>6, PlacedSplit DEF q3
<1>27. Placed(s, 0, p1) /\ Placed(s, 3, p2)
  BY Zenon, <1>n, <1>26, <1>20, <1>2, <1>8, PlacedSplit DEF q2
<1>30. Len(s) = 22
  BY <1>20
<1>31. s[1] = p1[1] /\ s[2] = p1[2] /\ s[3] = p1[3] /\ s[4] = p2[1]
  BY <1>27, <1>30, <1>2, <1>8 DEF Placed
<1>32. s[5] = oc[1] /\ s[6] = oc[2] /\ s[7] = os[1] /\ s[8] = os[2]
  BY <1>25, <1>26, <1>30, <1>6 DEF Placed
<1>33. \A i \in 1..7 : s[8 + i] = p5[i]
  BY <1>24, <1>30, <1>7 DEF Placed
<1>34. s[16] = yy[1] /\ s[17] = yy[2]
  BY <1>23, <1>30, <1>6 DEF Placed
<1>35. \A i \in 1..4 : s[17 + i] = c[i]
  BY <1>22, <1>30, <1>13 DEF Placed
<1>36. s[22] = p8[1]
  BY <1>21, <1>30, <1>8 DEF Placed
<1>37. /\ s[9] = p5[1] /\ s[10] = p5[2] /\ s[11] = p5[3] /\ s[12] = p5[4] /\ s[13] = p5[5]
       /\ s[14] = p5[6] /\ s[15] = p5[7]
  BY <1>33
<1> QED BY Zenon, <1>10, <1>11, <1>12, <1>13, <1>20, <1>30, <1>31, <1>32, <1>34, <1>35, <1>36,
          <1>37 DEF oc, os, yy, c

(* What the style of another program may be. *)
LEMMA StyleTyped ==
  ASSUME NEW style \in Style
  PROVE  /\ style.local \in Nat /\ style.local <= Longest
         /\ style.spare \in Nat /\ style.spare <= Longest
         /\ style.tail \in Nat /\ style.exact \in BOOLEAN /\ style.pad \in BOOLEAN
         /\ style.compression \in BOOLEAN
<1>1. Longest \in Nat
  BY SMT DEF Longest
<1>2. \A n \in 0..Longest : n \in Nat /\ n <= Longest
  BY <1>1
<1>3. /\ style.local \in 0..Longest /\ style.spare \in 0..Longest
      /\ style.tail \in Nat /\ style.exact \in BOOLEAN /\ style.pad \in BOOLEAN
      /\ style.compression \in BOOLEAN
  BY DEF Style
<1> QED BY <1>2, <1>3

(* The style of this program. *)
LEMMA OwnStyle ==
  /\ Own \in Style /\ Own.local = 0 /\ Own.exact = FALSE /\ Own.pad = TRUE /\ Own.spare = 0
  /\ Own.tail = 0 /\ Own.compression = FALSE
<1>1. Longest \in Nat
  BY SMT DEF Longest
<1>2. 0 \in 0..Longest
  BY <1>1
<1> QED BY <1>2 DEF Own, Style

(* The bound on sequences is far below the length a message can have. *)
LEMMA LongestBounds == Longest \in Nat /\ Longest <= 1048576
BY SMT DEF Longest

(* A length makes three octets. *)
LEMMA LengthOctets ==
  ASSUME NEW v \in Long
  PROVE  Octets(v, 3) \in Seq(Octet) /\ Len(Octets(v, 3)) = 3
<1>1. /\ <<(v \div 256) \div 256, (v \div 256) % 256, v % 256>> \in Seq(Octet)
      /\ Len(<<(v \div 256) \div 256, (v \div 256) % 256, v % 256>>) = 3
  BY OctetsOfLength
<1> QED BY <1>1, OctetsOfLength

(* A number makes two. *)
LEMMA ShortOctets ==
  ASSUME NEW v \in Short
  PROVE  Octets(v, 2) \in Seq(Octet) /\ Len(Octets(v, 2)) = 2
<1>1. /\ <<v \div 256, v % 256>> \in Seq(Octet)
      /\ Len(<<v \div 256, v % 256>>) = 2
  BY OctetsOfShort
<1> QED BY <1>1, OctetsOfShort

(* Spare octets are as many as were asked for. *)
LEMMA SparesTyped ==
  ASSUME NEW n \in Nat
  PROVE  Spares(n) \in Seq(Octet) /\ Len(Spares(n)) = n
<1>1. 0 \in Octet
  BY SMT DEF Octet
<1> QED BY <1>1 DEF Spares

(* Padding makes a length even and adds a zero at most. *)
LEMMA PaddedTyped ==
  ASSUME NEW s \in Seq(Octet)
  PROVE  /\ Padded(s) \in Seq(Octet)
         /\ Len(Padded(s)) = Len(s) + (Len(s) % 2)
         /\ \A i \in 1..Len(s) : Padded(s)[i] = s[i]
         /\ Len(s) % 2 = 1 => Padded(s)[Len(s) + 1] = 0
<1>1. 0 \in Octet
  BY SMT DEF Octet
<1>2. Len(s) \in Nat /\ Len(s) % 2 \in {0, 1}
  OBVIOUS
<1>3. CASE Len(s) % 2 = 1
  BY <1>1, <1>2, <1>3 DEF Padded
<1>4. CASE Len(s) % 2 = 0
  BY <1>1, <1>2, <1>4 DEF Padded
<1> QED BY <1>2, <1>3, <1>4

(* A section begins with its length, which no message makes too long to be said. *)
IsSection(s) ==
  /\ s \in Seq(Octet) /\ Len(s) \in Long /\ Len(s) >= 4
  /\ \A i \in 1..3 : s[i] = Octets(Len(s), 3)[i]

(* Octets that begin with their number make a section. *)
LEMMA SectionOf ==
  ASSUME NEW s \in Seq(Octet), NEW v \in Long, Len(s) = v, v >= 4, Placed(s, 0, Octets(v, 3))
  PROVE  IsSection(s)
<1>1. Len(Octets(v, 3)) = 3
  BY LengthOctets
<1>2. \A i \in 1..3 : s[i] = Octets(v, 3)[i]
  BY <1>1 DEF Placed
<1> QED BY Zenon, <1>2 DEF IsSection

(***************************************************************************)
(* The sections as they were written, here or by another program.          *)
(***************************************************************************)
Written1(b, style) == IF style = Own THEN Sec1(b) ELSE ForeignSec1(b, style)
Written2(b, style) == IF style = Own THEN Sec2(b) ELSE ForeignSec2(b, style)
Written3(b, style) == IF style = Own THEN Sec3(b) ELSE ForeignSec3(b, style)
Written4(b, style) == IF style = Own THEN Sec4(b) ELSE ForeignSec4(b, style)
Written(b, style) == IF style = Own THEN Encode(b) ELSE Foreign(b, style)

Length1(b) == IF b.edition_number = 4 THEN 22 ELSE 18
Kept2(b, style) == IF style.exact THEN b.optional_section ELSE Padded(b.optional_section)
Pads(style) == IF style.pad THEN 1 ELSE 0

(* Lengths in reach fit three octets. *)
LEMMA SmallLong ==
  ASSUME NEW v \in Nat, v <= 10000000
  PROVE  v \in Long
BY SMT DEF Long

(* What is where in a part of octets. *)
LEMMA Part ==
  ASSUME NEW s \in Seq(Octet), NEW k \in Nat, k >= 1, k <= Len(s),
         NEW n \in Nat, n >= k - 1, n <= Len(s)
  PROVE  /\ SubSeq(s, k, n) \in Seq(Octet) /\ Len(SubSeq(s, k, n)) = n - (k - 1)
         /\ \A i \in 1..n - (k - 1) : SubSeq(s, k, n)[i] = s[k - 1 + i]
<1>1. \A i \in k..n : s[i] \in Octet
  OBVIOUS
<1>2. /\ SubSeq(s, k, n) \in Seq(Octet)
      /\ Len(SubSeq(s, k, n)) = IF k <= n THEN n - k + 1 ELSE 0
      /\ \A i \in 1..n - k + 1 : SubSeq(s, k, n)[i] = s[k + i - 1]
  BY <1>1, SubSeqProperties
<1>3. (IF k <= n THEN n - k + 1 ELSE 0) = n - (k - 1) /\ n - k + 1 = n - (k - 1)
  OBVIOUS
<1>4. \A i \in 1..n - (k - 1) : k + i - 1 = k - 1 + i
  OBVIOUS
<1> QED BY <1>2, <1>3, <1>4

(* encode_sec1ed3 and encode_sec1ed4 write the length the section has. *)
LEMMA OwnSection1 ==
  ASSUME NEW b, IsBulletin(b)
  PROVE  /\ IsSection(Sec1(b)) /\ Len(Sec1(b)) = Length1(b)
<1>1. 18 \in Octet /\ 22 \in Octet /\ 18 \in Long /\ 22 \in Long
  BY SMT DEF Octet, Long
<1>2. CASE b.edition_number = 4
  <2>1. PICK s : s = Sec1ed4(b)
    OBVIOUS
  <2>2. s \in Seq(Octet) /\ Len(s) = 22 /\ s[1] = 0 /\ s[2] = 0 /\ s[3] = 22
    BY <2>1, Ed4
  <2>3. Octets(22, 3) = <<0, 0, 22>>
    BY <1>1, OctetsOfOne
  <2>4. \A i \in 1..3 : s[i] = Octets(22, 3)[i]
    BY <2>2, <2>3
  <2>5. IsSection(s)
    BY <2>2, <2>4, <1>1 DEF IsSection
  <2> QED BY <2>1, <2>2, <2>5, <1>2 DEF Sec1, Length1
<1>3. CASE b.edition_number # 4
  <2>1. PICK s : s = Sec1ed3(b)
    OBVIOUS
  <2>2. s \in Seq(Octet) /\ Len(s) = 18 /\ s[1] = 0 /\ s[2] = 0 /\ s[3] = 18
    BY <2>1, Ed3
  <2>3. Octets(18, 3) = <<0, 0, 18>>
    BY <1>1, OctetsOfOne
  <2>4. \A i \in 1..3 : s[i] = Octets(18, 3)[i]
    BY <2>2, <2>3
  <2>5. IsSection(s)
    BY <2>2, <2>4, <1>1 DEF IsSection
  <2> QED BY <2>1, <2>2, <2>5, <1>3 DEF Sec1, Length1
<1> QED BY <1>2, <1>3

(* Section 1 by any program: the same from the fifth octet on. *)
LEMMA Section1 ==
  ASSUME NEW b, IsBulletin(b), NEW style \in Style, NEW s, s = Written1(b, style)
  PROVE  /\ IsSection(s) /\ Len(s) = Length1(b) + style.local
         /\ \A i \in 5..Length1(b) : s[i] = Sec1(b)[i]
         /\ s[4] = IF style = Own THEN Sec1(b)[4] ELSE b.master_table_number
<1>1. IsSection(Sec1(b)) /\ Len(Sec1(b)) = Length1(b)
  BY OwnSection1
<1>2. CASE style = Own
  BY <1>1, <1>2, OwnStyle DEF Written1
<1>3. CASE style # Own
  <2>0. PICK own : own = Sec1(b)
    OBVIOUS
  <2> DEFINE n == Len(own) + style.local
             p1 == Octets(n, 3)
             p2 == <<b.master_table_number>>
             p3 == SubSeq(own, 5, Len(own))
             p4 == Spares(style.local)
             q2 == p1 \o p2
             q3 == q2 \o p3
  <2>1. own \in Seq(Octet)
    BY <1>1, <2>0 DEF IsSection
  <2>2. style.local \in Nat /\ style.local <= 1048576
    BY SMT, StyleTyped, LongestBounds
  <2>a. Len(own) \in Nat /\ Len(own) >= 18 /\ Len(own) <= 22
    <3>1. Length1(b) \in Nat /\ Length1(b) >= 18 /\ Length1(b) <= 22
      BY DEF Length1
    <3> QED BY <1>1, <2>0, <3>1
  <2>3. n \in Long /\ n \in Nat /\ n >= 18
    <3>1. n \in Nat /\ n >= 18 /\ n <= 10000000
      BY SMT, <2>a, <2>2
    <3> HIDE DEF n
    <3> QED BY SMT, <3>1 DEF Long
  <2>4. p1 \in Seq(Octet) /\ Len(p1) = 3
    BY <2>3, LengthOctets
  <2>5. p2 \in Seq(Octet) /\ Len(p2) = 1
    BY OctetsTyped
  <2>6. p3 \in Seq(Octet) /\ Len(p3) = Len(own) - 4 /\ \A i \in 1..Len(own) - 4 : p3[i] = own[4 + i]
    <3>1. /\ p3 \in Seq(Octet) /\ Len(p3) = Len(own) - (5 - 1)
          /\ \A i \in 1..Len(own) - (5 - 1) : p3[i] = own[5 - 1 + i]
      BY <2>1, <2>a, Part
    <3> QED BY <3>1, <2>a
  <2>7. p4 \in Seq(Octet) /\ Len(p4) = style.local
    BY <2>2, SparesTyped
  <2>8. s = q3 \o p4
    BY <1>3, <2>0 DEF Written1, ForeignSec1
  <2>9. p2[1] = b.master_table_number
    OBVIOUS
  <2> HIDE DEF n, p1, p2, p3, p4
  <2>10. q2 \in Seq(Octet) /\ Len(q2) = 4
    <3>1. q2 \in Seq(Octet) /\ Len(q2) = Len(p1) + Len(p2)
      BY <2>4, <2>5, Joined
    <3> QED BY <3>1, <2>4, <2>5
  <2> HIDE DEF q2
  <2>11. q3 \in Seq(Octet) /\ Len(q3) = Len(own)
    <3>1. q3 \in Seq(Octet) /\ Len(q3) = Len(q2) + Len(p3)
      BY <2>10, <2>6, Joined
    <3> QED BY <3>1, <2>10, <2>6, <2>1
  <2> HIDE DEF q3
  <2>12. s \in Seq(Octet) /\ Len(s) = n
    <3>1. s \in Seq(Octet) /\ Len(s) = Len(q3) + Len(p4)
      BY <2>8, <2>11, <2>7, Joined
    <3> QED BY <3>1, <2>11, <2>7 DEF n
  <2>13. Placed(s, 0, q3)
    <3>1. Placed(s, 0, q3 \o p4)
      BY <2>12, <2>8, PlacedSelf
    <3> QED BY Zenon, <3>1, <2>12, <2>11, <2>7, PlacedSplit, <2>a
  <2>14. Placed(s, 0, q2) /\ Placed(s, 4, p3)
    <3>1. 4 \in Nat
      OBVIOUS
    <3> QED BY Zenon, <3>1, <2>13, <2>12, <2>10, <2>6, PlacedSplit DEF q3
  <2>15. Placed(s, 0, p1) /\ Placed(s, 3, p2)
    <3>1. 3 \in Nat
      OBVIOUS
    <3> QED BY Zenon, <3>1, <2>14, <2>12, <2>4, <2>5, PlacedSplit DEF q2
  <2>16. IsSection(s)
    BY <2>3, <2>12, <2>15, SectionOf DEF p1
  <2>17. s[4] = b.master_table_number
    BY <2>15, <2>12, <2>3, <2>5, <2>9 DEF Placed
  <2>18. ASSUME NEW i \in 5..Len(own)
         PROVE  s[i] = own[i]
    <3>1. i - 4 \in 1..Len(own) - 4 /\ 4 + (i - 4) = i /\ i <= n
      BY <2>1, <2>2, <2>18 DEF n
    <3>2. s[4 + (i - 4)] = p3[i - 4]
      BY <3>1, <2>14, <2>12, <2>6 DEF Placed
    <3> QED BY <3>1, <3>2, <2>6
  <2>19. n = Length1(b) + style.local
    BY <1>1, <2>0 DEF n
  <2> QED BY Zenon, <1>1, <1>3, <2>0, <2>12, <2>16, <2>17, <2>18, <2>19
<1> QED BY <1>2, <1>3

(* How long what a section has may be. *)
Fitting == {v \in Nat : v <= 5000000}

(* A section of its length, an octet and what it has. *)
LEMMA SectionWith ==
  ASSUME NEW t \in Seq(Octet), Len(t) \in Fitting, NEW s,
         s = Octets(4 + Len(t), 3) \o << 0 >> \o t
  PROVE  /\ IsSection(s) /\ Len(s) = 4 + Len(t)
         /\ \A i \in 1..Len(t) : s[4 + i] = t[i]
<1> DEFINE n == 4 + Len(t)
           p1 == Octets(n, 3)
           p2 == <<0>>
           q2 == p1 \o p2
<1>1. n \in Nat /\ n >= 4
  BY SMT
<1>2. n \in Long
  <2>1. n \in Nat /\ n <= 5000004
    BY SMT DEF Fitting
  <2> HIDE DEF n
  <2> QED BY SMT, <2>1 DEF Long
<1>3. p1 \in Seq(Octet) /\ Len(p1) = 3
  BY <1>2, LengthOctets
<1>4. 0 \in Octet
  BY SMT DEF Octet
<1>5. p2 \in Seq(Octet) /\ Len(p2) = 1
  BY <1>4
<1> HIDE DEF p1, p2
<1>6. q2 \in Seq(Octet) /\ Len(q2) = 4
  <2>1. q2 \in Seq(Octet) /\ Len(q2) = Len(p1) + Len(p2)
    BY <1>3, <1>5, Joined
  <2> QED BY <2>1, <1>3, <1>5
<1>7. s = q2 \o t
  BY DEF p1, p2
<1> HIDE DEF q2
<1>8. s \in Seq(Octet) /\ Len(s) = n
  <2>1. s \in Seq(Octet) /\ Len(s) = Len(q2) + Len(t)
    <3>1. q2 \o t \in Seq(Octet) /\ Len(q2 \o t) = Len(q2) + Len(t)
      BY <1>6, Joined
    <3> QED BY Zenon, <3>1, <1>7
  <2> QED BY <2>1, <1>6
<1>9. Placed(s, 0, q2) /\ Placed(s, 4, t)
  <2>1. Placed(s, 0, q2 \o t)
    BY <1>7, <1>8, PlacedSelf
  <2>2. 4 \in Nat
    OBVIOUS
  <2> QED BY Zenon, <2>1, <2>2, <1>6, <1>8, PlacedSplit
<1>10. Placed(s, 0, p1)
  <2>1. 3 \in Nat
    OBVIOUS
  <2> QED BY Zenon, <2>1, <1>3, <1>5, <1>8, <1>9, PlacedSplit DEF q2
<1>11. IsSection(s)
  <2>1. n >= 4
    BY <1>1
  <2> QED BY <2>1, <1>2, <1>8, <1>10, SectionOf DEF p1
<1>12. \A i \in 1..Len(t) : s[4 + i] = t[i]
  BY <1>9, <1>8 DEF Placed
<1> QED BY <1>8, <1>11, <1>12

(* Section 2 by any program: nothing, or what is kept of the optional section. *)
LEMMA Section2 ==
  ASSUME NEW b, IsBulletin(b), NEW style \in Style, NEW s, s = Written2(b, style),
         NEW kept, kept = Kept2(b, style)
  PROVE  /\ kept \in Seq(Octet) /\ Len(kept) <= Longest + 1
         /\ b.optional_section = <<>> => s = <<>> /\ kept = <<>>
         /\ b.optional_section # <<>> =>
              /\ IsSection(s) /\ Len(s) = 4 + Len(kept) /\ Len(kept) >= 1
              /\ \A i \in 1..Len(kept) : s[4 + i] = kept[i]
<1>0. PICK o : o = b.optional_section
  OBVIOUS
<1>1. o \in Seq(Octet) /\ Len(o) <= Longest
  BY <1>0, SequencesTyped
<1>2. /\ Padded(o) \in Seq(Octet)
      /\ Len(Padded(o)) = Len(o) + (Len(o) % 2)
  BY <1>1, PaddedTyped
<1>3. Len(o) \in Nat /\ Len(o) % 2 \in 0..1
  BY <1>1
<1>4. kept = IF style.exact THEN o ELSE Padded(o)
  BY <1>0 DEF Kept2
<1>5. kept \in Seq(Octet) /\ Len(kept) <= Longest + 1 /\ Len(kept) >= Len(o)
  BY <1>1, <1>2, <1>3, <1>4, LongestBounds, SMT
<1>6. CASE o = <<>>
  <2>1. Padded(<<>>) = <<>>
    BY DEF Padded
  <2>2. s = <<>>
    BY <1>6, <1>0 DEF Written2, ForeignSec2, Sec2
  <2> QED BY <1>0, <1>4, <1>5, <1>6, <2>1, <2>2
<1>7. CASE o # <<>>
  <2>1. Len(o) >= 1
    BY <1>1, <1>7
  <2>2. s = Octets(4 + Len(kept), 3) \o <<0>> \o kept
    <3>1. CASE style = Own
      BY Zenon, <1>0, <1>4, <1>7, <3>1, OwnStyle DEF Written2, Sec2
    <3>2. CASE style # Own /\ ~style.exact
      BY Zenon, <1>0, <1>4, <1>7, <3>2 DEF Written2, ForeignSec2, Sec2
    <3>3. CASE style # Own /\ style.exact
      BY Zenon, <1>0, <1>4, <1>7, <3>3 DEF Written2, ForeignSec2
    <3> QED BY <3>1, <3>2, <3>3
  <2>3. Len(kept) \in Fitting
    BY SMT, <1>5, LongestBounds DEF Fitting
  <2>4. /\ IsSection(s) /\ Len(s) = 4 + Len(kept)
        /\ \A i \in 1..Len(kept) : s[4 + i] = kept[i]
    BY <2>2, <2>3, <1>5, SectionWith
  <2>5. Len(kept) >= 1
    BY <1>5, <1>3, <2>1
  <2> QED BY <1>0, <1>5, <1>7, <2>4, <2>5
<1> QED BY <1>6, <1>7

(* Section 4 by any program: the data, padded. *)
LEMMA Section4 ==
  ASSUME NEW b, IsBulletin(b), NEW style \in Style, NEW s, s = Written4(b, style)
  PROVE  /\ IsSection(s)
         /\ Len(s) = 4 + Len(b.subsets) + (Len(b.subsets) % 2) + style.spare
         /\ \A i \in 1..Len(b.subsets) : s[4 + i] = b.subsets[i]
<1>0. PICK o : o = b.subsets
  OBVIOUS
<1>1. o \in Seq(Octet) /\ Len(o) <= Longest
  BY <1>0, SequencesTyped
<1>2. PICK p : p = Padded(o)
  OBVIOUS
<1>3. /\ p \in Seq(Octet) /\ Len(p) = Len(o) + (Len(o) % 2)
      /\ \A i \in 1..Len(o) : p[i] = o[i]
  BY <1>1, <1>2, PaddedTyped
<1>4. Len(o) \in Nat /\ Len(o) % 2 \in 0..1
  BY <1>1
<1>5. style.spare \in Nat /\ style.spare <= Longest
  BY StyleTyped
<1>6. PICK z : z = Spares(style.spare)
  OBVIOUS
<1>7. z \in Seq(Octet) /\ Len(z) = style.spare
  BY <1>5, <1>6, SparesTyped
<1>8. PICK t : t = IF style = Own THEN p ELSE p \o z
  OBVIOUS
<1>9. /\ t \in Seq(Octet) /\ Len(t) = Len(o) + (Len(o) % 2) + style.spare
      /\ \A i \in 1..Len(o) : t[i] = o[i]
  <2>1. CASE style = Own
    BY <1>3, <1>4, <1>8, <2>1, OwnStyle
  <2>2. CASE style # Own
    <3>1. /\ t \in Seq(Octet) /\ Len(t) = Len(p) + Len(z)
          /\ \A i \in 1..Len(p) : t[i] = p[i]
      BY <1>3, <1>7, <1>8, <2>2, Joined
    <3>2. \A i \in 1..Len(o) : t[i] = o[i]
      BY <1>3, <1>4, <3>1
    <3>3. Len(t) = Len(o) + (Len(o) % 2) + style.spare
      BY <1>3, <1>7, <3>1
    <3> QED BY <3>1, <3>2, <3>3
  <2> QED BY <2>1, <2>2
<1>10. Len(t) \in Fitting
  BY SMT, <1>9, <1>4, <1>1, <1>5, LongestBounds DEF Fitting
<1>11. s = Octets(4 + Len(t), 3) \o <<0>> \o t
  <2>1. CASE style = Own
    BY Zenon, <1>0, <1>2, <1>8, <2>1 DEF Written4, Sec4
  <2>2. CASE style # Own
    BY Zenon, <1>0, <1>2, <1>6, <1>8, <2>2 DEF Written4, ForeignSec4
  <2> QED BY <2>1, <2>2
<1>12. IsSection(s) /\ Len(s) = 4 + Len(t) /\ \A i \in 1..Len(t) : s[4 + i] = t[i]
  BY <1>9, <1>10, <1>11, SectionWith
<1>13. \A i \in 1..Len(o) : s[4 + i] = o[i]
  BY <1>4, <1>5, <1>9, <1>12
<1>14. Len(s) = 4 + Len(o) + (Len(o) % 2) + style.spare
  BY <1>4, <1>5, <1>9, <1>12
<1> QED BY Zenon, <1>0, <1>12, <1>13, <1>14

(* Each descriptor takes two octets. *)
LEMMA DescriptorsTyped ==
  ASSUME NEW d \in Seq(Short), NEW s, s = Descriptors(d)
  PROVE  /\ s \in Seq(Octet) /\ Len(s) = 2 * Len(d)
         /\ \A k \in 1..Len(d) : /\ s[2 * k - 1] = Octets(d[k], 2)[1]
                                 /\ s[2 * k] = Octets(d[k], 2)[2]
<1>1. Len(d) \in Nat
  OBVIOUS
<1>2. ASSUME NEW i \in 1..2 * Len(d)
      PROVE  Octets(d[(i + 1) \div 2], 2)[2 - (i % 2)] \in Octet
  <2>1. (i + 1) \div 2 \in 1..Len(d) /\ 2 - (i % 2) \in 1..2
    BY <1>1
  <2>2. d[(i + 1) \div 2] \in Short
    BY <2>1
  <2>3. Octets(d[(i + 1) \div 2], 2) \in Seq(Octet) /\ Len(Octets(d[(i + 1) \div 2], 2)) = 2
    BY <2>2, ShortOctets
  <2>4. ASSUME NEW v \in Seq(Octet), Len(v) = 2, NEW j \in 1..2
        PROVE  v[j] \in Octet
    <3>1. j \in 1..Len(v)
      BY <2>4
    <3> QED BY <3>1
  <2> QED BY Zenon, <2>1, <2>3, <2>4
<1>3. s = [i \in 1..2 * Len(d) |-> Octets(d[(i + 1) \div 2], 2)[2 - (i % 2)]]
  BY DEF Descriptors
<1>4. 2 * Len(d) \in Nat
  BY <1>1
<1>5. s \in [1..2 * Len(d) -> Octet]
  BY Zenon, <1>2, <1>3
<1>6. s \in Seq(Octet) /\ Len(s) = 2 * Len(d)
  BY <1>4, <1>5
<1>7. ASSUME NEW k \in 1..Len(d)
      PROVE  /\ s[2 * k - 1] = Octets(d[k], 2)[1]
             /\ s[2 * k] = Octets(d[k], 2)[2]
  <2>1. /\ 2 * k - 1 \in 1..2 * Len(d) /\ 2 * k \in 1..2 * Len(d)
    BY <1>1
  <2>2. (2 * k - 1 + 1) \div 2 = k /\ (2 * k + 1) \div 2 = k
    BY <1>1
  <2>3. 2 - ((2 * k - 1) % 2) = 1 /\ 2 - ((2 * k) % 2) = 2
    BY <1>1
  <2>4. s[2 * k - 1] = Octets(d[(2 * k - 1 + 1) \div 2], 2)[2 - ((2 * k - 1) % 2)]
    BY Zenon, <1>3, <2>1
  <2>5. s[2 * k] = Octets(d[(2 * k + 1) \div 2], 2)[2 - ((2 * k) % 2)]
    BY Zenon, <1>3, <2>1
  <2> QED BY Zenon, <2>2, <2>3, <2>4, <2>5
<1> QED BY Zenon, <1>6, <1>7

Count3(b) == Len(b.subsets) % SubsetLimit

(* A remainder is below the divisor and not above the number. *)
LEMMA ModBounds ==
  ASSUME NEW m \in Nat, NEW n \in Nat, n > 0
  PROVE  m % n \in Nat /\ m % n < n /\ m % n <= m
<1>1. m % n \in Nat
  OBVIOUS
<1>2. m % n < n
  BY SMT
<1>3. m % n <= m
  BY SMT
<1> QED BY <1>1, <1>2, <1>3

(* The count of subsets fits its two octets. *)
LEMMA CountTyped ==
  ASSUME NEW b, IsBulletin(b)
  PROVE  Count3(b) \in Short /\ Count3(b) \in Nat /\ Count3(b) <= Len(b.subsets)
<1>1. Len(b.subsets) \in Nat
  BY SequencesTyped
<1>2. SubsetLimit \in Nat /\ SubsetLimit > 0
  BY SMT, SectionsAssumption
<1>3. SubsetLimit <= 65536
  BY SMT, SectionsAssumption
<1>6. Count3(b) \in Nat /\ Count3(b) < SubsetLimit /\ Count3(b) <= Len(b.subsets)
  BY <1>1, <1>2, ModBounds DEF Count3
<1>7. Count3(b) \in Nat /\ Count3(b) <= 65535 /\ Count3(b) <= Len(b.subsets)
  BY SMT, <1>2, <1>3, <1>6
<1> QED BY SMT, <1>7 DEF Short

(* encode_sec3: the count, the flags, the descriptors. *)
LEMMA OwnSection3 ==
  ASSUME NEW b, IsBulletin(b), NEW s, s = Sec3(b), NEW d, d = Descriptors(b.datadesc)
  PROVE  /\ d \in Seq(Octet) /\ Len(d) = 2 * Len(b.datadesc)
         /\ IsSection(s) /\ Len(s) = 8 + Len(d)
         /\ s[4] = 0 /\ s[5] = Octets(Count3(b), 2)[1] /\ s[6] = Octets(Count3(b), 2)[2]
         /\ s[7] = 128 /\ \A i \in 1..Len(d) : s[7 + i] = d[i]
<1> DEFINE n == 8 + 2 * Len(b.datadesc)
           p1 == Octets(n, 3)
           p2 == <<0>>
           p3 == Octets(Count3(b), 2)
           p4 == <<128>>
           p6 == <<0>>
           q2 == p1 \o p2
           q3 == q2 \o p3
           q4 == q3 \o p4
           q5 == q4 \o d
<1>1. b.datadesc \in Seq(Short) /\ Len(b.datadesc) <= Longest /\ Len(b.datadesc) \in Nat
  BY SequencesTyped
<1>2. d \in Seq(Octet) /\ Len(d) = 2 * Len(b.datadesc)
  BY <1>1, DescriptorsTyped
<1>3. n \in Nat /\ n >= 8 /\ n = 8 + Len(d)
  BY SMT, <1>1, <1>2
<1>4. n \in Long
  <2>1. n \in Nat /\ n <= 5000000
    BY SMT, <1>1, LongestBounds
  <2> HIDE DEF n
  <2> QED BY SMT, <2>1 DEF Long
<1>5. p1 \in Seq(Octet) /\ Len(p1) = 3
  BY <1>4, LengthOctets
<1>6. 0 \in Octet /\ 128 \in Octet
  BY SMT DEF Octet
<1>7. /\ p2 \in Seq(Octet) /\ Len(p2) = 1 /\ p4 \in Seq(Octet) /\ Len(p4) = 1
      /\ p6 \in Seq(Octet) /\ Len(p6) = 1
  BY <1>6
<1>a. p2[1] = 0 /\ p4[1] = 128
  OBVIOUS
<1>8. p3 \in Seq(Octet) /\ Len(p3) = 2
  BY CountTyped, ShortOctets
<1>9. s = q5 \o p6
  BY Zenon DEF Sec3, Count3
<1> HIDE DEF n, p1, p2, p3, p4, p6
<1>10. q2 \in Seq(Octet) /\ Len(q2) = 4
  <2>1. q2 \in Seq(Octet) /\ Len(q2) = Len(p1) + Len(p2)
    BY <1>5, <1>7, Joined
  <2> QED BY <2>1, <1>5, <1>7
<1> HIDE DEF q2
<1>11. q3 \in Seq(Octet) /\ Len(q3) = 6
  <2>1. q3 \in Seq(Octet) /\ Len(q3) = Len(q2) + Len(p3)
    BY <1>8, <1>10, Joined
  <2> QED BY <2>1, <1>8, <1>10
<1> HIDE DEF q3
<1>12. q4 \in Seq(Octet) /\ Len(q4) = 7
  <2>1. q4 \in Seq(Octet) /\ Len(q4) = Len(q3) + Len(p4)
    BY <1>7, <1>11, Joined
  <2> QED BY <2>1, <1>7, <1>11
<1> HIDE DEF q4
<1>13. q5 \in Seq(Octet) /\ Len(q5) = 7 + Len(d)
  <2>1. q5 \in Seq(Octet) /\ Len(q5) = Len(q4) + Len(d)
    BY <1>2, <1>12, Joined
  <2> QED BY <2>1, <1>12
<1> HIDE DEF q5
<1>14. s \in Seq(Octet) /\ Len(s) = n
  <2>1. q5 \o p6 \in Seq(Octet) /\ Len(q5 \o p6) = Len(q5) + Len(p6)
    BY <1>13, <1>7, Joined
  <2>2. Len(q5 \o p6) = 8 + Len(d)
    BY <2>1, <1>13, <1>7, <1>2
  <2> QED BY Zenon, <2>1, <2>2, <1>9, <1>3
<1>15. Len(q5) \in Nat /\ 3 \in Nat /\ 4 \in Nat /\ 6 \in Nat /\ 7 \in Nat
  BY <1>13, <1>2
<1>16. Placed(s, 0, q5)
  <2>1. Placed(s, 0, q5 \o p6)
    BY <1>14, <1>9, PlacedSelf
  <2> QED BY Zenon, <2>1, <1>13, <1>14, <1>15, <1>7, PlacedSplit
<1>17. Placed(s, 0, q4) /\ Placed(s, 7, d)
  BY Zenon, <1>16, <1>14, <1>12, <1>2, <1>15, PlacedSplit DEF q5
<1>18. Placed(s, 0, q3) /\ Placed(s, 6, p4)
  BY Zenon, <1>17, <1>14, <1>11, <1>7, <1>15, PlacedSplit DEF q4
<1>19. Placed(s, 0, q2) /\ Placed(s, 4, p3)
  BY Zenon, <1>18, <1>14, <1>10, <1>8, <1>15, PlacedSplit DEF q3
<1>20. Placed(s, 0, p1) /\ Placed(s, 3, p2)
  BY Zenon, <1>19, <1>14, <1>5, <1>7, <1>15, PlacedSplit DEF q2
<1>21. IsSection(s)
  <2>1. n >= 4
    BY <1>3
  <2> QED BY <2>1, <1>4, <1>14, <1>20, SectionOf DEF p1
<1>22. s[4] = 0
  BY <1>20, <1>14, <1>3, <1>7, <1>a DEF Placed
<1>23. s[5] = p3[1] /\ s[6] = p3[2]
  BY <1>19, <1>14, <1>3, <1>8 DEF Placed
<1>24. s[7] = 128
  BY <1>18, <1>14, <1>3, <1>7, <1>a DEF Placed
<1>25. \A i \in 1..Len(d) : s[7 + i] = d[i]
  <2>1. Len(d) \in Nat /\ Len(s) = 8 + Len(d)
    BY <1>2, <1>14, <1>3
  <2> QED BY <2>1, <1>17 DEF Placed
<1> QED BY Zenon, <1>2, <1>3, <1>14, <1>21, <1>22, <1>23, <1>24, <1>25 DEF p3

Flags(style) == IF style.compression THEN 192 ELSE 128

(* Section 3 by any program: the same but for flags and padding. *)
LEMMA Section3 ==
  ASSUME NEW b, IsBulletin(b), NEW style \in Style, NEW s, s = Written3(b, style),
         NEW d, d = Descriptors(b.datadesc)
  PROVE  /\ IsSection(s) /\ Len(s) = 7 + Len(d) + Pads(style)
         /\ d \in Seq(Octet) /\ Len(d) = 2 * Len(b.datadesc)
         /\ s[5] = Octets(Count3(b), 2)[1] /\ s[6] = Octets(Count3(b), 2)[2]
         /\ s[7] = Flags(style) /\ \A i \in 1..Len(d) : s[7 + i] = d[i]
<1>0. PICK own : own = Sec3(b)
  OBVIOUS
<1>1. /\ d \in Seq(Octet) /\ Len(d) = 2 * Len(b.datadesc)
      /\ IsSection(own) /\ Len(own) = 8 + Len(d)
      /\ own[4] = 0 /\ own[5] = Octets(Count3(b), 2)[1] /\ own[6] = Octets(Count3(b), 2)[2]
      /\ own[7] = 128 /\ \A i \in 1..Len(d) : own[7 + i] = d[i]
  BY <1>0, OwnSection3
<1>2. CASE style = Own
  <2>1. s = own
    BY <1>0, <1>2 DEF Written3
  <2>2. Pads(style) = 1 /\ Flags(style) = 128
    BY <1>2, OwnStyle DEF Pads, Flags
  <2>3. 8 + Len(d) = 7 + Len(d) + 1
    BY <1>1
  <2> QED BY Zenon, <1>1, <2>1, <2>2, <2>3
<1>3. CASE style # Own
  <2> DEFINE n == Len(own) - 1 + Pads(style)
             p1 == Octets(n, 3)
             p2 == SubSeq(own, 4, 6)
             p3 == <<Flags(style)>>
             p4 == SubSeq(own, 8, Len(own) - 1)
             p5 == Spares(Pads(style))
             q2 == p1 \o p2
             q3 == q2 \o p3
             q4 == q3 \o p4
  <2>1. own \in Seq(Octet) /\ Len(d) \in Nat /\ Len(own) \in Nat
    BY <1>1 DEF IsSection
  <2>2. Len(d) <= 2097152
    <3>1. Len(b.datadesc) \in Nat /\ Len(b.datadesc) <= Longest
      BY SequencesTyped
    <3> QED BY SMT, <1>1, <3>1, LongestBounds
  <2>3. Pads(style) \in Nat /\ Pads(style) <= 1
    BY DEF Pads
  <2>4. n = 7 + Len(d) + Pads(style) /\ n \in Nat /\ n >= 7
    <3>1. Len(own) = 8 + Len(d)
      BY <1>1
    <3> QED BY <3>1, <2>1, <2>3
  <2>5. n \in Long
    <3>1. n <= 5000000
      BY SMT, <2>1, <2>2, <2>3, <2>4
    <3> HIDE DEF n
    <3> QED BY SMT, <2>4, <3>1 DEF Long
  <2>6. p1 \in Seq(Octet) /\ Len(p1) = 3
    BY <2>5, LengthOctets
  <2>7. p2 \in Seq(Octet) /\ Len(p2) = 3 /\ \A i \in 1..3 : p2[i] = own[3 + i]
    <3>1. /\ p2 \in Seq(Octet) /\ Len(p2) = 6 - (4 - 1)
          /\ \A i \in 1..6 - (4 - 1) : p2[i] = own[4 - 1 + i]
      BY <2>1, <1>1, Part
    <3> QED BY <3>1
  <2>8. p4 \in Seq(Octet) /\ Len(p4) = Len(d) /\ \A i \in 1..Len(d) : p4[i] = own[7 + i]
    <3>0. Len(own) = 8 + Len(d)
      BY <1>1
    <3>a. PICK m : m = Len(own) - 1
      OBVIOUS
    <3>b. own # <<>> /\ 8 <= Len(own)
      BY <2>1, <3>0
    <3>1. 8 \in Nat /\ m \in Nat /\ m >= 8 - 1 /\ m <= Len(own)
      BY <2>1, <3>0, <3>a
    <3>2. /\ p4 \in Seq(Octet) /\ Len(p4) = m - (8 - 1)
          /\ \A i \in 1..m - (8 - 1) : p4[i] = own[8 - 1 + i]
      <4>1. /\ SubSeq(own, 8, m) \in Seq(Octet) /\ Len(SubSeq(own, 8, m)) = m - (8 - 1)
            /\ \A i \in 1..m - (8 - 1) : SubSeq(own, 8, m)[i] = own[8 - 1 + i]
        BY <2>1, <3>1, <3>b, Part
      <4> QED BY Zenon, <3>a, <4>1
    <3>3. m - (8 - 1) = Len(d)
      BY <3>0, <3>a, <2>1
    <3>4. \A i \in 1..Len(d) : p4[i] = own[8 - 1 + i]
      BY <3>2, <3>3
    <3>5. 8 - 1 = 7
      OBVIOUS
    <3> HIDE DEF p4
    <3> QED BY Zenon, <3>2, <3>3, <3>4, <3>5
  <2>9. p3 \in Seq(Octet) /\ Len(p3) = 1 /\ p3[1] = Flags(style)
    <3>1. Flags(style) \in Octet
      BY SMT DEF Flags, Octet
    <3> QED BY <3>1
  <2>10. p5 \in Seq(Octet) /\ Len(p5) = Pads(style)
    BY <2>3, SparesTyped
  <2>11. s = q4 \o p5
    BY Zenon, <1>0, <1>3 DEF Written3, ForeignSec3, Pads, Flags
  <2> HIDE DEF n, p1, p2, p3, p4, p5
  <2>12. q2 \in Seq(Octet) /\ Len(q2) = 6
    <3>1. q2 \in Seq(Octet) /\ Len(q2) = Len(p1) + Len(p2)
      BY <2>6, <2>7, Joined
    <3> QED BY <3>1, <2>6, <2>7
  <2> HIDE DEF q2
  <2>13. q3 \in Seq(Octet) /\ Len(q3) = 7
    <3>1. q3 \in Seq(Octet) /\ Len(q3) = Len(q2) + Len(p3)
      BY <2>12, <2>9, Joined
    <3> QED BY <3>1, <2>12, <2>9
  <2> HIDE DEF q3
  <2>14. q4 \in Seq(Octet) /\ Len(q4) = 7 + Len(d)
    <3>1. q4 \in Seq(Octet) /\ Len(q4) = Len(q3) + Len(p4)
      BY <2>13, <2>8, Joined
    <3> QED BY <3>1, <2>13, <2>8
  <2> HIDE DEF q4
  <2>15. s \in Seq(Octet) /\ Len(s) = n
    <3>1. q4 \o p5 \in Seq(Octet) /\ Len(q4 \o p5) = Len(q4) + Len(p5)
      BY <2>14, <2>10, Joined
    <3>2. Len(q4 \o p5) = n
      BY <3>1, <2>14, <2>10, <2>4
    <3> QED BY Zenon, <3>1, <3>2, <2>11
  <2>16. Len(q4) \in Nat /\ 7 \in Nat /\ 6 \in Nat /\ 3 \in Nat
    BY <2>14, <2>1
  <2>17. Placed(s, 0, q4)
    <3>1. Placed(s, 0, q4 \o p5)
      BY <2>15, <2>11, PlacedSelf
    <3> QED BY Zenon, <3>1, <2>15, <2>14, <2>10, <2>16, PlacedSplit
  <2>18. Placed(s, 0, q3) /\ Placed(s, 7, p4)
    BY Zenon, <2>17, <2>15, <2>13, <2>8, <2>16, PlacedSplit DEF q4
  <2>19. Placed(s, 0, q2) /\ Placed(s, 6, p3)
    BY Zenon, <2>18, <2>15, <2>12, <2>9, <2>16, PlacedSplit DEF q3
  <2>20. Placed(s, 0, p1) /\ Placed(s, 3, p2)
    BY Zenon, <2>19, <2>15, <2>6, <2>7, <2>16, PlacedSplit DEF q2
  <2>21. IsSection(s)
    <3>1. n >= 4
      BY <2>4
    <3> QED BY <3>1, <2>5, <2>15, <2>20, SectionOf DEF p1
  <2>22. s[5] = p2[2] /\ s[6] = p2[3]
    BY <2>20, <2>15, <2>4, <2>7 DEF Placed
  <2>23. p2[2] = own[5] /\ p2[3] = own[6]
    BY <2>7
  <2>24. s[7] = p3[1]
    BY <2>19, <2>15, <2>4, <2>9 DEF Placed
  <2>25. \A i \in 1..Len(d) : s[7 + i] = p4[i]
    <3>1. \A i \in 1..Len(d) : 7 + i <= n
      BY <2>4, <2>3, <2>1
    <3> QED BY <3>1, <2>18, <2>15, <2>8 DEF Placed
  <2>26. \A i \in 1..Len(d) : s[7 + i] = d[i]
    BY Zenon, <2>25, <2>8, <1>1
  <2> QED BY Zenon, <1>1, <2>4, <2>9, <2>15, <2>21, <2>22, <2>23, <2>24, <2>26
<1> QED BY <1>2, <1>3

(***************************************************************************)
(* A message as a whole, and what is left of it after a cut.               *)
(***************************************************************************)

(* Sections in their places, from the beginning of a buffer. *)
LaidIn(buf, edition, total, s1, s2, s3, s4) ==
  /\ Placed(buf, 0, Bufr) /\ Placed(buf, 4, Octets(total, 3)) /\ Placed(buf, 7, <<edition>>)
  /\ Placed(buf, 8, s1) /\ Placed(buf, 8 + Len(s1), s2)
  /\ Placed(buf, 8 + Len(s1) + Len(s2), s3)
  /\ Placed(buf, 8 + Len(s1) + Len(s2) + Len(s3), s4)
  /\ Placed(buf, 8 + Len(s1) + Len(s2) + Len(s3) + Len(s4), Sevens)

(* The signatures at the two ends. *)
LEMMA FixedTyped ==
  /\ Bufr \in Seq(Octet) /\ Len(Bufr) = 4 /\ Sevens \in Seq(Octet) /\ Len(Sevens) = 4
<1>1. 66 \in Octet /\ 85 \in Octet /\ 70 \in Octet /\ 82 \in Octet /\ 55 \in Octet
  BY SMT DEF Octet
<1> QED BY <1>1 DEF Bufr, Sevens

(* The whole message has its length in section 0 and its sections one after another. *)
LEMMA AssembledLaid ==
  ASSUME NEW b, b.edition_number \in Octet,
         NEW s1 \in Seq(Octet), NEW s2 \in Seq(Octet), NEW s3 \in Seq(Octet), NEW s4 \in Seq(Octet),
         NEW total \in Long, total = 12 + Len(s1) + Len(s2) + Len(s3) + Len(s4),
         NEW core, core = Assembled(b, s1 \o s2 \o s3 \o s4)
  PROVE  /\ core \in Seq(Octet) /\ Len(core) = total
         /\ \A buf \in Seq(Octet) : Placed(buf, 0, core) =>
              LaidIn(buf, b.edition_number, total, s1, s2, s3, s4)
<1> DEFINE e == <<b.edition_number>>
           q2 == s1 \o s2
           q3 == q2 \o s3
           q4 == q3 \o s4
           r1 == e \o q4
           rest == r1 \o Sevens
           p1 == Octets(7 + Len(rest), 3)
           h == Bufr \o p1
<1>1. e \in Seq(Octet) /\ Len(e) = 1
  OBVIOUS
<1>2. Len(s1) \in Nat /\ Len(s2) \in Nat /\ Len(s3) \in Nat /\ Len(s4) \in Nat /\ total \in Nat
  BY DEF Long
<1>3. core = h \o rest
  BY DEF Assembled
<1> HIDE DEF e
<1>4. q2 \in Seq(Octet) /\ Len(q2) = Len(s1) + Len(s2)
  BY Joined
<1> HIDE DEF q2
<1>5. q3 \in Seq(Octet) /\ Len(q3) = Len(q2) + Len(s3)
  BY <1>4, Joined
<1> HIDE DEF q3
<1>6. q4 \in Seq(Octet) /\ Len(q4) = Len(q3) + Len(s4)
  BY <1>5, Joined
<1> HIDE DEF q4
<1>7. r1 \in Seq(Octet) /\ Len(r1) = Len(e) + Len(q4)
  BY <1>1, <1>6, Joined
<1> HIDE DEF r1
<1>8. rest \in Seq(Octet) /\ Len(rest) = Len(r1) + Len(Sevens)
  BY <1>7, FixedTyped, Joined
<1> HIDE DEF rest
<1>9. 7 + Len(rest) = total
  BY <1>1, <1>2, <1>4, <1>5, <1>6, <1>7, <1>8, FixedTyped
<1>10. p1 = Octets(total, 3)
  BY <1>9
<1>11. p1 \in Seq(Octet) /\ Len(p1) = 3
  BY <1>10, LengthOctets
<1> HIDE DEF p1
<1>12. h \in Seq(Octet) /\ Len(h) = Len(Bufr) + Len(p1)
  BY <1>11, FixedTyped, Joined
<1> HIDE DEF h
<1>13. core \in Seq(Octet) /\ Len(core) = Len(h) + Len(rest)
  <2>1. h \o rest \in Seq(Octet) /\ Len(h \o rest) = Len(h) + Len(rest)
    BY <1>12, <1>8, Joined
  <2> QED BY Zenon, <2>1, <1>3
<1>14. Len(h) = 7
  BY <1>11, <1>12, FixedTyped
<1>15. Len(core) = total
  BY <1>2, <1>8, <1>9, <1>13, <1>14
<1>16. ASSUME NEW buf \in Seq(Octet), Placed(buf, 0, core)
       PROVE  LaidIn(buf, b.edition_number, total, s1, s2, s3, s4)
  <2>1. Placed(buf, 0, h) /\ Placed(buf, 0 + Len(h), rest)
    <3>1. Placed(buf, 0, h \o rest) /\ 0 \in Nat
      BY <1>3, <1>16
    <3> QED BY Zenon, <3>1, <1>12, <1>8, PlacedJoined
  <2>2. Placed(buf, 0, Bufr) /\ Placed(buf, 0 + Len(Bufr), p1)
    <3>1. 0 \in Nat
      OBVIOUS
    <3> QED BY Zenon, <2>1, <3>1, <1>11, FixedTyped, PlacedJoined DEF h
  <2>3. Placed(buf, 7, r1) /\ Placed(buf, 7 + Len(r1), Sevens)
    <3>1. 7 \in Nat /\ 0 + Len(h) = 7
      BY <1>14
    <3>2. Placed(buf, 7, r1 \o Sevens)
      BY Zenon, <3>1, <2>1 DEF rest
    <3> QED BY Zenon, <3>1, <3>2, <1>7, FixedTyped, PlacedJoined
  <2>4. Placed(buf, 7, e) /\ Placed(buf, 8, q4)
    <3>1. 7 \in Nat /\ 7 + Len(e) = 8
      BY <1>1
    <3>2. Placed(buf, 7, e) /\ Placed(buf, 7 + Len(e), q4)
      BY Zenon, <3>1, <2>3, <1>1, <1>6, PlacedJoined DEF r1
    <3> QED BY Zenon, <3>1, <3>2
  <2>5. 8 \in Nat /\ 4 = 0 + Len(Bufr)
    BY FixedTyped
  <2>6. Placed(buf, 8, q3) /\ Placed(buf, 8 + Len(q3), s4)
    BY Zenon, <2>4, <2>5, <1>5, PlacedJoined DEF q4
  <2>7. Placed(buf, 8, q2) /\ Placed(buf, 8 + Len(q2), s3)
    BY Zenon, <2>5, <2>6, <1>4, PlacedJoined DEF q3
  <2>8. Placed(buf, 8, s1) /\ Placed(buf, 8 + Len(s1), s2)
    BY Zenon, <2>5, <2>7, PlacedJoined DEF q2
  <2>9. /\ 8 + Len(q2) = 8 + Len(s1) + Len(s2)
        /\ 8 + Len(q3) = 8 + Len(s1) + Len(s2) + Len(s3)
        /\ 7 + Len(r1) = 8 + Len(s1) + Len(s2) + Len(s3) + Len(s4)
    BY <1>1, <1>2, <1>4, <1>5, <1>6, <1>7
  <2>10. Placed(buf, 4, Octets(total, 3))
    BY Zenon, <2>2, <2>5, <1>10
  <2>11. Placed(buf, 7, <<b.edition_number>>)
    BY Zenon, <2>4 DEF e
  <2>12. /\ Placed(buf, 8 + Len(s1) + Len(s2), s3)
         /\ Placed(buf, 8 + Len(s1) + Len(s2) + Len(s3), s4)
         /\ Placed(buf, 8 + Len(s1) + Len(s2) + Len(s3) + Len(s4), Sevens)
    BY Zenon, <2>3, <2>6, <2>7, <2>9
  <2> QED BY Zenon, <2>2, <2>8, <2>10, <2>11, <2>12 DEF LaidIn
<1> QED BY <1>13, <1>15, <1>16

(* Where the sections end, and the length of the message in section 0. *)
End1(b, style) == 8 + Len(Written1(b, style))
End2(b, style) == End1(b, style) + Len(Written2(b, style))
End3(b, style) == End2(b, style) + Len(Written3(b, style))
End4(b, style) == End3(b, style) + Len(Written4(b, style))

Holds(buf, b, style) ==
  /\ buf \in Seq(Octet)
  /\ LaidIn(buf, b.edition_number, End4(b, style) + 4, Written1(b, style), Written2(b, style),
            Written3(b, style), Written4(b, style))

(* The lengths that sections can have. *)
LEMMA SectionLengths ==
  ASSUME NEW b, IsBulletin(b), NEW style \in Style,
         NEW s1, s1 = Written1(b, style), NEW s2, s2 = Written2(b, style),
         NEW s3, s3 = Written3(b, style), NEW s4, s4 = Written4(b, style)
  PROVE  /\ s1 \in Seq(Octet) /\ s2 \in Seq(Octet) /\ s3 \in Seq(Octet) /\ s4 \in Seq(Octet)
         /\ Len(s1) \in Nat /\ Len(s1) <= 1048600 /\ Len(s2) \in Nat /\ Len(s2) <= 1048600
         /\ Len(s3) \in Nat /\ Len(s3) <= 2097200 /\ Len(s4) \in Nat /\ Len(s4) <= 2097200
         /\ Len(s1) >= 18 /\ Len(s3) >= 7 /\ Len(s4) >= 4
<1>1. s1 \in Seq(Octet) /\ Len(s1) \in Nat /\ Len(s1) <= 1048600 /\ Len(s1) >= 18
  <2>1. s1 \in Seq(Octet) /\ Len(s1) = Length1(b) + style.local
    <3>1. IsSection(s1) /\ Len(s1) = Length1(b) + style.local
      BY Section1
    <3> QED BY Zenon, <3>1 DEF IsSection
  <2>2. Length1(b) \in Nat /\ Length1(b) <= 22 /\ Length1(b) >= 18
    BY DEF Length1
  <2>3. style.local \in Nat /\ style.local <= 1048576
    BY SMT, StyleTyped, LongestBounds
  <2> QED BY SMT, <2>1, <2>2, <2>3
<1>2. s2 \in Seq(Octet) /\ Len(s2) \in Nat /\ Len(s2) <= 1048600
  <2>1. PICK kept : kept = Kept2(b, style)
    OBVIOUS
  <2>2. kept \in Seq(Octet) /\ Len(kept) <= Longest + 1
    BY <2>1, Section2
  <2>3. b.optional_section = <<>> => s2 = <<>>
    BY <2>1, Section2
  <2>4. b.optional_section # <<>> => s2 \in Seq(Octet) /\ Len(s2) = 4 + Len(kept)
    BY <2>1, Section2 DEF IsSection
  <2>5. CASE b.optional_section = <<>>
    BY SMT, <2>3, <2>5
  <2>6. CASE b.optional_section # <<>>
    BY SMT, <2>2, <2>4, <2>6, LongestBounds
  <2> QED BY SMT, <2>5, <2>6
<1>3. s3 \in Seq(Octet) /\ Len(s3) \in Nat /\ Len(s3) <= 2097200 /\ Len(s3) >= 7
  <2>1. PICK d : d = Descriptors(b.datadesc)
    OBVIOUS
  <2>2. /\ s3 \in Seq(Octet) /\ Len(s3) = 7 + Len(d) + Pads(style)
        /\ Len(d) = 2 * Len(b.datadesc)
    <3>1. /\ IsSection(s3) /\ Len(s3) = 7 + Len(d) + Pads(style)
          /\ Len(d) = 2 * Len(b.datadesc)
      BY <2>1, Section3
    <3> QED BY Zenon, <3>1 DEF IsSection
  <2>3. Pads(style) \in Nat /\ Pads(style) <= 1
    BY DEF Pads
  <2>4. Len(b.datadesc) \in Nat /\ Len(b.datadesc) <= 1048576
    BY SMT, SequencesTyped, LongestBounds
  <2> QED BY SMT, <2>2, <2>3, <2>4
<1>4. s4 \in Seq(Octet) /\ Len(s4) \in Nat /\ Len(s4) <= 2097200 /\ Len(s4) >= 4
  <2>1. /\ s4 \in Seq(Octet)
        /\ Len(s4) = 4 + Len(b.subsets) + (Len(b.subsets) % 2) + style.spare
    <3>1. /\ IsSection(s4)
          /\ Len(s4) = 4 + Len(b.subsets) + (Len(b.subsets) % 2) + style.spare
      BY Section4
    <3> QED BY Zenon, <3>1 DEF IsSection
  <2>0. Len(b.subsets) \in Nat
    BY SequencesTyped
  <2>2. Len(b.subsets) <= 1048576
    BY SMT, <2>0, SequencesTyped, LongestBounds
  <2>3. style.spare \in Nat /\ style.spare <= 1048576
    BY SMT, StyleTyped, LongestBounds
  <2>4. PICK r \in Nat : r = Len(b.subsets) % 2 /\ r <= 1
    <3>1. PICK m \in Nat : m = Len(b.subsets)
      BY <2>0
    <3>2. m % 2 \in Nat /\ m % 2 <= 1
      OBVIOUS
    <3> QED BY Zenon, <3>1, <3>2
  <2>5. Len(s4) = 4 + Len(b.subsets) + r + style.spare
    BY Zenon, <2>1, <2>4
  <2>6. Len(s4) \in Nat /\ Len(s4) <= 2097200 /\ Len(s4) >= 4
    <3>1. PICK m \in Nat, z \in Nat : m = Len(b.subsets) /\ z = style.spare
      BY <2>0, <2>3
    <3>2. m <= 1048576 /\ z <= 1048576 /\ Len(s4) = 4 + m + r + z
      BY SMT, <2>2, <2>3, <2>5, <3>1
    <3>3. r <= 1
      BY Zenon, <2>4
    <3> QED BY SMT, <3>2, <3>3
  <2>7. s4 \in Seq(Octet)
    BY Zenon, <2>1
  <2> QED BY SMT, <2>6, <2>7
<1> QED BY SMT, <1>1, <1>2, <1>3, <1>4

(* The ends of sections, in their order. *)
LEMMA EndsTyped ==
  ASSUME NEW b, IsBulletin(b), NEW style \in Style
  PROVE  /\ End1(b, style) \in Nat /\ End2(b, style) \in Nat /\ End3(b, style) \in Nat
         /\ End4(b, style) \in Nat /\ End4(b, style) + 4 \in Long
         /\ 26 <= End1(b, style) /\ End1(b, style) <= End2(b, style)
         /\ End2(b, style) + 7 <= End3(b, style) /\ End3(b, style) + 4 <= End4(b, style)
<1>1. PICK n1 \in Nat, n2 \in Nat, n3 \in Nat, n4 \in Nat :
        /\ n1 = Len(Written1(b, style)) /\ n2 = Len(Written2(b, style))
        /\ n3 = Len(Written3(b, style)) /\ n4 = Len(Written4(b, style))
        /\ n1 <= 1048600 /\ n2 <= 1048600 /\ n3 <= 2097200 /\ n4 <= 2097200
        /\ n1 >= 18 /\ n3 >= 7 /\ n4 >= 4
  BY SMT, SectionLengths
<1>2. /\ End1(b, style) = 8 + n1 /\ End2(b, style) = 8 + n1 + n2
      /\ End3(b, style) = 8 + n1 + n2 + n3 /\ End4(b, style) = 8 + n1 + n2 + n3 + n4
  BY SMT, <1>1 DEF End1, End2, End3, End4
<1>3. End4(b, style) + 4 \in Long
  BY SMT, <1>1, <1>2 DEF Long
<1> QED BY SMT, <1>1, <1>2, <1>3

(* Where the sections of a message are, and what is after it. *)
LEMMA WrittenLaid ==
  ASSUME NEW b, IsBulletin(b), NEW style \in Style
  PROVE  /\ Written(b, style) \in Seq(Octet)
         /\ Len(Written(b, style)) = End4(b, style) + 4 + style.tail
         /\ \A buf \in Seq(Octet) : Placed(buf, 0, Written(b, style)) => Holds(buf, b, style)
<1>1. PICK s1, s2, s3, s4 :
        /\ s1 = Written1(b, style) /\ s2 = Written2(b, style)
        /\ s3 = Written3(b, style) /\ s4 = Written4(b, style)
  OBVIOUS
<1>2. /\ s1 \in Seq(Octet) /\ s2 \in Seq(Octet) /\ s3 \in Seq(Octet) /\ s4 \in Seq(Octet)
      /\ Len(s1) \in Nat /\ Len(s2) \in Nat /\ Len(s3) \in Nat /\ Len(s4) \in Nat
  BY SMT, <1>1, SectionLengths
<1>3. PICK total : total = End4(b, style) + 4
  OBVIOUS
<1>4. total \in Long /\ total \in Nat
  BY SMT, <1>3, EndsTyped
<1>5. total = 12 + Len(s1) + Len(s2) + Len(s3) + Len(s4)
  BY SMT, <1>1, <1>2, <1>3 DEF End1, End2, End3, End4
<1>6. PICK core : core = Assembled(b, s1 \o s2 \o s3 \o s4)
  OBVIOUS
<1>7. b.edition_number \in Octet
  BY OctetsTyped
<1>8. /\ core \in Seq(Octet) /\ Len(core) = total
      /\ \A buf \in Seq(Octet) : Placed(buf, 0, core) =>
           LaidIn(buf, b.edition_number, total, s1, s2, s3, s4)
  BY SMT, <1>2, <1>4, <1>5, <1>6, <1>7, AssembledLaid
<1>9. style.tail \in Nat
  BY StyleTyped
<1>10. \A buf \in Seq(Octet) : Placed(buf, 0, core) => Holds(buf, b, style)
  BY Zenon, <1>1, <1>3, <1>8 DEF Holds
<1>11. CASE style = Own
  <2>1. Written(b, style) = core /\ style.tail = 0
    BY <1>1, <1>6, <1>11, OwnStyle DEF Written, Encode, Written1, Written2, Written3, Written4
  <2>2. total + 0 = total
    BY <1>4
  <2> QED BY Zenon, <1>3, <1>8, <1>10, <2>1, <2>2
<1>12. CASE style # Own
  <2>1. PICK z : z = Spares(style.tail)
    OBVIOUS
  <2>2. z \in Seq(Octet) /\ Len(z) = style.tail
    BY <2>1, <1>9, SparesTyped
  <2>3. Written(b, style) = core \o z
    BY Zenon, <1>1, <1>6, <1>12, <2>1
      DEF Written, Foreign, Written1, Written2, Written3, Written4
  <2>4. core \o z \in Seq(Octet) /\ Len(core \o z) = Len(core) + Len(z)
    BY <1>8, <2>2, Joined
  <2>5. ASSUME NEW buf \in Seq(Octet), Placed(buf, 0, core \o z)
        PROVE  Placed(buf, 0, core)
    <3>1. 0 \in Nat
      OBVIOUS
    <3> QED BY Zenon, <3>1, <2>5, <1>8, <2>2, PlacedJoined
  <2> QED BY Zenon, <1>3, <1>8, <1>10, <2>2, <2>3, <2>4, <2>5
<1> QED BY <1>11, <1>12

(* Reading the length of a section that is there leads to the next, if that is there. *)
LEMMA NextRead ==
  ASSUME NEW buf \in Seq(Octet), NEW pos \in Nat, NEW s, IsSection(s), Placed(buf, pos, s)
  PROVE  NextSection(buf, pos) = IF pos + Len(s) > Len(buf) THEN Past(buf) ELSE pos + Len(s)
<1>1. s \in Seq(Octet) /\ Len(s) \in Long /\ Len(s) >= 4 /\ Len(s) \in Nat /\ Len(buf) \in Nat
  BY DEF IsSection
<1>2. CASE pos + 3 > Len(buf)
  BY <1>1, <1>2 DEF NextSection
<1>3. CASE pos + 3 <= Len(buf)
  <2>1. /\ 1 \in 1..Len(s) /\ 2 \in 1..Len(s) /\ 3 \in 1..Len(s)
        /\ pos + 1 <= Len(buf) /\ pos + 2 <= Len(buf)
    BY <1>1, <1>3
  <2>2. buf[pos + 1] = s[1] /\ buf[pos + 2] = s[2] /\ buf[pos + 3] = s[3]
    BY Zenon, <1>3, <2>1 DEF Placed
  <2>3. s[1] = Octets(Len(s), 3)[1] /\ s[2] = Octets(Len(s), 3)[2] /\ s[3] = Octets(Len(s), 3)[3]
    BY DEF IsSection
  <2>4. Number(buf, pos, 3) = Len(s)
    BY Zenon, <1>1, <2>2, <2>3, LengthReadsBack
  <2>5. NextSection(buf, pos) =
          IF pos + 3 > Len(buf) \/ pos + Len(s) > Len(buf) THEN Past(buf) ELSE pos + Len(s)
    BY Zenon, <2>4 DEF NextSection
  <2> QED BY <1>1, <1>3, <2>5
<1> QED BY <1>1, <1>2, <1>3

(* After the end there is no next. *)
LEMMA NextOfPast ==
  ASSUME NEW buf \in Seq(Octet)
  PROVE  NextSection(buf, Past(buf)) = Past(buf)
BY DEF NextSection, Past

(* The first eight octets. *)
LEMMA LeadRead ==
  ASSUME NEW b, IsBulletin(b), NEW style \in Style, NEW buf, Holds(buf, b, style), Len(buf) >= 8
  PROVE  /\ buf[8] = b.edition_number /\ SubSeq(buf, 1, 4) = Bufr
         /\ Number(buf, 4, 3) = End4(b, style) + 4
<1>1. buf \in Seq(Octet) /\ Len(buf) \in Nat
  BY DEF Holds
<1>2. /\ Placed(buf, 0, Bufr) /\ Placed(buf, 4, Octets(End4(b, style) + 4, 3))
      /\ Placed(buf, 7, <<b.edition_number>>)
  BY DEF Holds, LaidIn
<1>3. buf[8] = b.edition_number
  <2>1. PICK e : e = <<b.edition_number>>
    OBVIOUS
  <2>2. Len(e) = 1 /\ e[1] = b.edition_number
    BY <2>1
  <2>3. Placed(buf, 7, e)
    BY <1>2, <2>1
  <2> QED BY <1>1, <2>2, <2>3 DEF Placed
<1>4. SubSeq(buf, 1, 4) = Bufr
  <2>1. \A i \in 1..4 : buf[i] = Bufr[i]
    BY <1>1, <1>2, FixedTyped DEF Placed
  <2>2. PICK s : s = SubSeq(buf, 1, 4)
    OBVIOUS
  <2>3. s \in Seq(Octet) /\ Len(s) = 4 - (1 - 1) /\ \A i \in 1..4 - (1 - 1) : s[i] = buf[1 - 1 + i]
    BY <1>1, <2>2, Part
  <2>4. Len(s) = 4 /\ \A i \in 1..4 : s[i] = buf[i]
    BY <2>3
  <2>5. Len(s) = Len(Bufr) /\ \A i \in 1..Len(s) : s[i] = Bufr[i]
    BY <2>1, <2>4, FixedTyped
  <2>6. s = Bufr
    BY <2>3, <2>5, FixedTyped, SeqEqual
  <2> QED BY <2>2, <2>6
<1>5. Number(buf, 4, 3) = End4(b, style) + 4
  <2>1. PICK v \in Long : v = End4(b, style) + 4
    BY EndsTyped
  <2>2. PICK o : o = Octets(v, 3)
    OBVIOUS
  <2>3. Len(o) = 3 /\ Placed(buf, 4, o)
    BY <1>2, <2>1, <2>2, LengthOctets
  <2>4. buf[4 + 1] = o[1] /\ buf[4 + 2] = o[2] /\ buf[4 + 3] = o[3]
    BY <1>1, <2>3 DEF Placed
  <2>5. 4 \in Nat
    OBVIOUS
  <2> QED BY Zenon, <2>1, <2>2, <2>4, <2>5, LengthReadsBack
<1> QED BY <1>3, <1>4, <1>5

(* A buffer with a message, or with the beginning of one. *)
Got(buf, b, style) ==
  IsBulletin(b) /\ Encodable(b) /\ style \in Style /\ Holds(buf, b, style)

(* The sections of what was got so far. *)
LEMMA SectionsLaid ==
  ASSUME NEW b, NEW style, NEW buf, Got(buf, b, style)
  PROVE  /\ buf \in Seq(Octet) /\ Len(buf) \in Nat
         /\ Placed(buf, 8, Written1(b, style))
         /\ Placed(buf, End1(b, style), Written2(b, style))
         /\ Placed(buf, End2(b, style), Written3(b, style))
         /\ Placed(buf, End3(b, style), Written4(b, style))
         /\ Placed(buf, End4(b, style), Sevens)
<1>1. Holds(buf, b, style)
  BY DEF Got
<1>2. buf \in Seq(Octet) /\ Len(buf) \in Nat
  BY <1>1 DEF Holds
<1> QED BY Zenon, <1>1, <1>2 DEF Holds, LaidIn, End1, End2, End3, End4

(* Section 1 as it was sent, once it is all there. *)
LEMMA Section1Read ==
  ASSUME NEW b, NEW style, NEW buf, Got(buf, b, style), Len(buf) >= End1(b, style)
  PROVE  /\ buf[8] = b.edition_number /\ Sec1Length(buf) = Length1(b)
         /\ 8 + Length1(b) <= End1(b, style)
         /\ \A i \in 5..Length1(b) : buf[8 + i] = Sec1(b)[i]
         /\ buf[12] = IF style = Own THEN Sec1(b)[4] ELSE b.master_table_number
<1>1. IsBulletin(b) /\ style \in Style /\ Holds(buf, b, style)
  BY DEF Got
<1>2. PICK s : s = Written1(b, style)
  OBVIOUS
<1>3. /\ IsSection(s) /\ Len(s) = Length1(b) + style.local
      /\ \A i \in 5..Length1(b) : s[i] = Sec1(b)[i]
      /\ s[4] = IF style = Own THEN Sec1(b)[4] ELSE b.master_table_number
  BY <1>1, <1>2, Section1
<1>4. buf \in Seq(Octet) /\ Len(buf) \in Nat /\ Placed(buf, 8, s)
  BY <1>2, SectionsLaid
<1>5. Length1(b) \in Nat /\ Length1(b) >= 18 /\ style.local \in Nat
  BY <1>1, StyleTyped DEF Length1
<1>6. End1(b, style) = 8 + Length1(b) + style.local
  <2>1. End1(b, style) = 8 + Len(s)
    BY <1>2 DEF End1
  <2> QED BY <2>1, <1>3, <1>5
<1>7. 8 + Length1(b) <= End1(b, style) /\ Len(buf) >= 8 + Length1(b) /\ Len(buf) >= 26
  BY <1>4, <1>5, <1>6
<1>8. buf[8] = b.edition_number
  <2>1. Len(buf) >= 8
    BY <1>4, <1>7
  <2> QED BY <1>1, <2>1, LeadRead
<1>9. Sec1Length(buf) = Length1(b)
  BY <1>8 DEF Sec1Length, Length1
<1>10. \A i \in 4..Length1(b) : buf[8 + i] = s[i]
  <2>1. \A i \in 4..Length1(b) : i \in 1..Len(s) /\ 8 + i <= Len(buf)
    BY <1>3, <1>4, <1>5, <1>7
  <2> QED BY <2>1, <1>4 DEF Placed
<1>11. \A i \in 5..Length1(b) : i \in 4..Length1(b)
  BY <1>5
<1>12. 4 \in 4..Length1(b) /\ 8 + 4 = 12
  BY <1>5
<1>13. buf[12] = s[4]
  BY <1>10, <1>12
<1> QED BY Zenon, <1>3, <1>7, <1>8, <1>9, <1>10, <1>11, <1>13

(* The flag of section 2 as it was sent. *)
LEMMA OptionalRead ==
  ASSUME NEW b, NEW style, NEW buf, Got(buf, b, style), Len(buf) >= End1(b, style)
  PROVE  OptionalFlag(buf) <=> b.optional_section # <<>>
<1>1. /\ buf[8] = b.edition_number
      /\ \A i \in 5..Length1(b) : buf[8 + i] = Sec1(b)[i]
  BY Section1Read
<1>2. IsBulletin(b)
  BY DEF Got
<1>3. HasOptional(b) >= 128 <=> b.optional_section # <<>>
  BY DEF HasOptional
<1>4. CASE b.edition_number = 4
  <2>1. Sec1(b)[10] = HasOptional(b)
    <3>1. PICK s : s = Sec1ed4(b)
      OBVIOUS
    <3>2. s[10] = HasOptional(b)
      BY <1>2, <3>1, Ed4
    <3> QED BY <3>1, <3>2, <1>4 DEF Sec1
  <2>2. buf[18] = HasOptional(b)
    <3>1. 10 \in 5..Length1(b) /\ 8 + 10 = 18
      BY <1>4 DEF Length1
    <3> QED BY <3>1, <1>1, <2>1
  <2>3. OptionalFlag(buf) <=> buf[18] >= 128
    <3>1. 8 + 9 + 1 = 18
      OBVIOUS
    <3> QED BY <3>1, <1>1, <1>4 DEF OptionalFlag
  <2> QED BY <2>2, <2>3, <1>3
<1>5. CASE b.edition_number # 4
  <2>1. Sec1(b)[8] = HasOptional(b)
    <3>1. PICK s : s = Sec1ed3(b)
      OBVIOUS
    <3>2. s[8] = HasOptional(b)
      BY <1>2, <3>1, Ed3 DEF Ed3Fields
    <3> QED BY <3>1, <3>2, <1>5 DEF Sec1
  <2>2. buf[16] = HasOptional(b)
    <3>1. 8 \in 5..Length1(b) /\ 8 + 8 = 16
      BY <1>5 DEF Length1
    <3> QED BY <3>1, <1>1, <2>1
  <2>3. OptionalFlag(buf) <=> buf[16] >= 128
    <3>1. 8 + 7 + 1 = 16
      OBVIOUS
    <3> QED BY <3>1, <1>1, <1>5 DEF OptionalFlag
  <2> QED BY <2>2, <2>3, <1>3
<1> QED BY <1>4, <1>5

(* Each section ends where it was written to end, if the buffer reaches that far. *)
LEMMA EndsRead ==
  ASSUME NEW b, NEW style, NEW buf, Got(buf, b, style)
  PROVE  /\ NextSection(buf, 8)
              = IF End1(b, style) > Len(buf) THEN Past(buf) ELSE End1(b, style)
         /\ b.optional_section # <<>> =>
              NextSection(buf, End1(b, style))
                = IF End2(b, style) > Len(buf) THEN Past(buf) ELSE End2(b, style)
         /\ b.optional_section = <<>> => End2(b, style) = End1(b, style)
         /\ NextSection(buf, End2(b, style))
              = IF End3(b, style) > Len(buf) THEN Past(buf) ELSE End3(b, style)
         /\ NextSection(buf, End3(b, style))
              = IF End4(b, style) > Len(buf) THEN Past(buf) ELSE End4(b, style)
<1>1. IsBulletin(b) /\ style \in Style
  BY DEF Got
<1>2. PICK s1, s2, s3, s4 :
        /\ s1 = Written1(b, style) /\ s2 = Written2(b, style)
        /\ s3 = Written3(b, style) /\ s4 = Written4(b, style)
  OBVIOUS
<1>3. PICK e1, e2, e3, e4 :
        /\ e1 = End1(b, style) /\ e2 = End2(b, style)
        /\ e3 = End3(b, style) /\ e4 = End4(b, style)
  OBVIOUS
<1>4. e1 \in Nat /\ e2 \in Nat /\ e3 \in Nat /\ e4 \in Nat /\ 8 \in Nat
  BY <1>1, <1>3, EndsTyped
<1>5. e1 = 8 + Len(s1) /\ e2 = e1 + Len(s2) /\ e3 = e2 + Len(s3) /\ e4 = e3 + Len(s4)
  BY <1>2, <1>3 DEF End1, End2, End3, End4
<1>6. /\ buf \in Seq(Octet) /\ Placed(buf, 8, s1) /\ Placed(buf, e1, s2)
      /\ Placed(buf, e2, s3) /\ Placed(buf, e3, s4)
  BY <1>2, <1>3, SectionsLaid
<1>7. IsSection(s1) /\ IsSection(s4)
  BY <1>1, <1>2, Section1, Section4
<1>8. IsSection(s3)
  <2>1. PICK d : d = Descriptors(b.datadesc)
    OBVIOUS
  <2> QED BY <1>1, <1>2, <2>1, Section3
<1>9. /\ b.optional_section # <<>> => IsSection(s2)
      /\ b.optional_section = <<>> => s2 = <<>>
  <2>1. PICK kept : kept = Kept2(b, style)
    OBVIOUS
  <2> QED BY <1>1, <1>2, <2>1, Section2
<1>10. NextSection(buf, 8) = IF e1 > Len(buf) THEN Past(buf) ELSE e1
  BY Zenon, <1>4, <1>5, <1>6, <1>7, NextRead
<1>11. ASSUME b.optional_section # <<>>
       PROVE  NextSection(buf, e1) = IF e2 > Len(buf) THEN Past(buf) ELSE e2
  <2>1. NextSection(buf, e1) = IF e1 + Len(s2) > Len(buf) THEN Past(buf) ELSE e1 + Len(s2)
    BY Zenon, <1>4, <1>6, <1>9, <1>11, NextRead
  <2> QED BY Zenon, <2>1, <1>5
<1>12. NextSection(buf, e2) = IF e3 > Len(buf) THEN Past(buf) ELSE e3
  <2>1. NextSection(buf, e2) = IF e2 + Len(s3) > Len(buf) THEN Past(buf) ELSE e2 + Len(s3)
    BY Zenon, <1>4, <1>6, <1>8, NextRead
  <2> QED BY Zenon, <2>1, <1>5
<1>13. NextSection(buf, e3) = IF e4 > Len(buf) THEN Past(buf) ELSE e4
  <2>1. NextSection(buf, e3) = IF e3 + Len(s4) > Len(buf) THEN Past(buf) ELSE e3 + Len(s4)
    BY Zenon, <1>4, <1>6, <1>7, NextRead
  <2> QED BY Zenon, <2>1, <1>5
<1>14. b.optional_section = <<>> => e2 = e1
  BY <1>4, <1>5, <1>9
<1> QED BY Zenon, <1>3, <1>10, <1>11, <1>12, <1>13, <1>14

(* The offsets that decode_header finds are those of the sections. *)
LEMMA SectionsRead ==
  ASSUME NEW b, NEW style, NEW buf, Got(buf, b, style), Len(buf) >= End4(b, style)
  PROVE  Sections(buf)
           = <<0, 8, End1(b, style), End2(b, style), End3(b, style), End4(b, style)>>
<1>1. PICK e1, e2, e3, e4 :
        /\ e1 = End1(b, style) /\ e2 = End2(b, style)
        /\ e3 = End3(b, style) /\ e4 = End4(b, style)
  OBVIOUS
<1>2. /\ e1 \in Nat /\ e2 \in Nat /\ e3 \in Nat /\ e4 \in Nat
      /\ e1 <= e2 /\ e2 + 7 <= e3 /\ e3 + 4 <= e4
  BY <1>1, EndsTyped DEF Got
<1>3. /\ NextSection(buf, 8) = IF e1 > Len(buf) THEN Past(buf) ELSE e1
      /\ b.optional_section # <<>> =>
           NextSection(buf, e1) = IF e2 > Len(buf) THEN Past(buf) ELSE e2
      /\ b.optional_section = <<>> => e2 = e1
      /\ NextSection(buf, e2) = IF e3 > Len(buf) THEN Past(buf) ELSE e3
      /\ NextSection(buf, e3) = IF e4 > Len(buf) THEN Past(buf) ELSE e4
  BY <1>1, EndsRead
<1>4. Len(buf) \in Nat
  BY SectionsLaid
<1>5. ~(e1 > Len(buf)) /\ ~(e2 > Len(buf)) /\ ~(e3 > Len(buf)) /\ ~(e4 > Len(buf))
  BY <1>1, <1>2, <1>4
<1>6. OptionalFlag(buf) <=> b.optional_section # <<>>
  <2>1. Len(buf) >= End1(b, style)
    BY <1>1, <1>2, <1>4
  <2> QED BY <2>1, OptionalRead
<1>7. (IF OptionalFlag(buf) THEN NextSection(buf, e1) ELSE e1) = e2
  BY <1>3, <1>5, <1>6
<1>8. /\ NextSection(buf, 8) = e1 /\ NextSection(buf, e2) = e3 /\ NextSection(buf, e3) = e4
  BY <1>3, <1>5
<1> QED BY Zenon, <1>1, <1>7, <1>8 DEF Sections

(* When the message was cut, the end is found past what there is. *)
LEMMA SectionsCut ==
  ASSUME NEW b, NEW style, NEW buf, Got(buf, b, style), Len(buf) >= End1(b, style),
         Len(buf) < End4(b, style)
  PROVE  Sections(buf)[6] = Past(buf)
<1>1. PICK e1, e2, e3, e4 :
        /\ e1 = End1(b, style) /\ e2 = End2(b, style)
        /\ e3 = End3(b, style) /\ e4 = End4(b, style)
  OBVIOUS
<1>2. /\ e1 \in Nat /\ e2 \in Nat /\ e3 \in Nat /\ e4 \in Nat
      /\ e1 <= e2 /\ e2 + 7 <= e3 /\ e3 + 4 <= e4
  BY <1>1, EndsTyped DEF Got
<1>3. /\ NextSection(buf, 8) = IF e1 > Len(buf) THEN Past(buf) ELSE e1
      /\ b.optional_section # <<>> =>
           NextSection(buf, e1) = IF e2 > Len(buf) THEN Past(buf) ELSE e2
      /\ b.optional_section = <<>> => e2 = e1
      /\ NextSection(buf, e2) = IF e3 > Len(buf) THEN Past(buf) ELSE e3
      /\ NextSection(buf, e3) = IF e4 > Len(buf) THEN Past(buf) ELSE e4
  BY <1>1, EndsRead
<1>4. Len(buf) \in Nat /\ buf \in Seq(Octet)
  BY SectionsLaid
<1>5. OptionalFlag(buf) <=> b.optional_section # <<>>
  BY OptionalRead
<1>6. NextSection(buf, Past(buf)) = Past(buf)
  BY <1>4, NextOfPast
<1>7. ~(e1 > Len(buf)) /\ e4 > Len(buf)
  BY <1>1, <1>2, <1>4
<1>8. PICK n2 : n2 = NextSection(buf, 8)
  OBVIOUS
<1>9. PICK n3 : n3 = IF OptionalFlag(buf) THEN NextSection(buf, n2) ELSE n2
  OBVIOUS
<1>10. PICK n4 : n4 = NextSection(buf, n3)
  OBVIOUS
<1>11. n2 = e1
  BY <1>3, <1>7, <1>8
<1>12. n3 = Past(buf) \/ n3 = e2
  BY <1>3, <1>5, <1>9, <1>11
<1>13. n4 = Past(buf) \/ n4 = e3
  BY <1>3, <1>6, <1>10, <1>12
<1>14. NextSection(buf, n4) = Past(buf)
  BY <1>3, <1>6, <1>7, <1>13
<1>15. Sections(buf) = <<0, 8, n2, n3, n4, NextSection(buf, n4)>>
  BY Zenon, <1>8, <1>9, <1>10 DEF Sections
<1> QED BY <1>14, <1>15

(* What decode_header needs is all but the end section. *)
LEMMA HeaderWholeRead ==
  ASSUME NEW b, NEW style, NEW buf, Got(buf, b, style)
  PROVE  HeaderWhole(buf) <=> Len(buf) >= End4(b, style)
<1>1. IsBulletin(b) /\ style \in Style /\ Holds(buf, b, style) /\ Encodable(b)
  BY DEF Got
<1>2. PICK e1, e2, e3, e4 :
        /\ e1 = End1(b, style) /\ e2 = End2(b, style)
        /\ e3 = End3(b, style) /\ e4 = End4(b, style)
  OBVIOUS
<1>3. /\ e1 \in Nat /\ e2 \in Nat /\ e3 \in Nat /\ e4 \in Nat /\ 26 <= e1
      /\ e1 <= e2 /\ e2 + 7 <= e3 /\ e3 + 4 <= e4
  BY <1>1, <1>2, EndsTyped
<1>4. Len(buf) \in Nat /\ buf \in Seq(Octet)
  BY SectionsLaid
<1>5. NextSection(buf, 8) = IF e1 > Len(buf) THEN Past(buf) ELSE e1
  BY <1>2, EndsRead
<1>6. ASSUME HeaderWhole(buf)
      PROVE  Len(buf) >= e4
  <2>1. NextSection(buf, 8) # Past(buf) /\ Sections(buf)[6] # Past(buf)
    BY <1>6 DEF HeaderWhole, HasSection1
  <2>2. Len(buf) >= e1
    BY <1>3, <1>4, <1>5, <2>1
  <2>3. ~(Len(buf) < e4)
    BY <1>2, <2>1, <2>2, SectionsCut
  <2> QED BY <1>3, <1>4, <2>3
<1>7. ASSUME Len(buf) >= e4
      PROVE  HeaderWhole(buf)
  <2>1. Len(buf) >= 8 /\ Len(buf) >= e1 /\ Len(buf) >= e2
    BY <1>3, <1>4, <1>7
  <2>2. buf[8] = b.edition_number /\ SubSeq(buf, 1, 4) = Bufr
    BY <1>1, <2>1, LeadRead
  <2>3. b.edition_number \in 2..4 /\ b.datadesc # <<>>
    BY <1>1 DEF Encodable
  <2>4. Sec1Length(buf) = Length1(b) /\ 8 + Length1(b) <= e1
    BY <1>2, <2>1, Section1Read
  <2>5. 8 + Sec1Length(buf) <= Len(buf)
    <3>1. Length1(b) \in Nat
      BY DEF Length1
    <3> QED BY <3>1, <2>1, <2>4, <1>3, <1>4
  <2>6. NextSection(buf, 8) # Past(buf)
    <3>1. Past(buf) > Len(buf)
      BY <1>4 DEF Past
    <3> QED BY <3>1, <1>3, <1>4, <1>5, <2>1
  <2>7. HasSection1(buf)
    BY Zenon, <2>1, <2>2, <2>3, <2>5, <2>6 DEF HasSection1
  <2>8. Sections(buf) = <<0, 8, e1, e2, e3, e4>>
    BY <1>2, <1>7, SectionsRead
  <2>9. e4 # Past(buf)
    BY <1>3, <1>4, <1>7 DEF Past
  <2>10. e2 - e1 \notin 1..3
    <3>1. PICK s, kept : s = Written2(b, style) /\ kept = Kept2(b, style)
      OBVIOUS
    <3>2. /\ kept \in Seq(Octet)
          /\ b.optional_section = <<>> => s = <<>>
          /\ b.optional_section # <<>> => Len(s) = 4 + Len(kept)
      BY <1>1, <3>1, Section2
    <3>3. e2 = e1 + Len(s)
      BY <1>2, <3>1 DEF End2
    <3>4. Len(s) \in Nat /\ (Len(s) = 0 \/ Len(s) >= 4)
      <4>1. CASE b.optional_section = <<>>
        BY <3>2, <4>1
      <4>2. CASE b.optional_section # <<>>
        <5>1. Len(kept) \in Nat /\ Len(s) = 4 + Len(kept)
          BY <3>2, <4>2
        <5> QED BY <5>1
      <4> QED BY <4>1, <4>2
    <3>5. e2 - e1 = Len(s)
      BY <1>3, <3>3, <3>4
    <3> QED BY <3>4, <3>5
  <2>11. e3 - e2 >= 8
    <3>1. PICK s, d : s = Written3(b, style) /\ d = Descriptors(b.datadesc)
      OBVIOUS
    <3>2. Len(s) = 7 + Len(d) + Pads(style) /\ Len(d) = 2 * Len(b.datadesc)
      BY <1>1, <3>1, Section3
    <3>3. b.datadesc \in Seq(Short)
      BY <1>1, SequencesTyped
    <3>4. Len(b.datadesc) \in Nat /\ Len(b.datadesc) >= 1
      BY <2>3, <3>3
    <3>5. Pads(style) \in Nat
      BY DEF Pads
    <3>6. e3 = e2 + Len(s)
      BY <1>2, <3>1 DEF End3
    <3> QED BY <1>3, <3>2, <3>4, <3>5, <3>6
  <2> DEFINE sec == Sections(buf)
  <2>12. sec[6] # Past(buf) /\ sec[4] - sec[3] \notin 1..3 /\ sec[5] - sec[4] >= 8
    <3>1. sec[6] = e4 /\ sec[5] = e3 /\ sec[4] = e2 /\ sec[3] = e1
      BY <2>8
    <3> QED BY Zenon, <3>1, <2>9, <2>10, <2>11
  <2> QED BY Zenon, <2>7, <2>12 DEF HeaderWhole
<1> QED BY <1>2, <1>6, <1>7

(***************************************************************************)
(* What the header is read as.                                             *)
(***************************************************************************)

(* The members that decode_header reads in every edition. *)
LEMMA HeaderFixed ==
  ASSUME NEW buf, NEW sec, NEW h, h = HeaderOf(buf, sec)
  PROVE  /\ DOMAIN h = DOMAIN Fresh
         /\ h.edition_number = buf[8] /\ h.master_table_number = buf[12]
         /\ h.optional_section = OptionalSection(buf, sec)
         /\ h.compression = ((buf[sec[4] + 7] \div 64) % 2 = 1)
         /\ h.datadesc = DataDescriptors(buf, sec)
         /\ h.subsets = <<>> /\ h.tables = <<>> /\ h.section_end = NoEnds
<1>1. 8 + 3 + 1 = 12
  OBVIOUS
<1> QED BY <1>1 DEF HeaderOf, Fresh, NoEnds

(* The year of the century and its guess. *)
LEMMA YearRead ==
  ASSUME NEW year \in Nat
  PROVE  FullYear(YearOfCentury(year))
           = IF year % 100 > 50 THEN 1900 + (year % 100) ELSE 2000 + (year % 100)
<1>1. CASE year = 2000
  <2>1. year % 100 = 0
    BY <1>1
  <2>2. YearOfCentury(year) = 100
    BY <1>1 DEF YearOfCentury
  <2> QED BY <2>1, <2>2 DEF FullYear
<1>2. CASE year # 2000
  <2>1. PICK y : y = year % 100
    OBVIOUS
  <2>2. y \in Nat
    BY <2>1
  <2>3. YearOfCentury(year) = y
    BY <1>2, <2>1 DEF YearOfCentury
  <2>4. FullYear(y) = IF y > 50 THEN 1900 + y ELSE 2000 + y
    BY <2>2 DEF FullYear
  <2>5. FullYear(YearOfCentury(year)) = FullYear(y)
    BY Zenon, <2>3
  <2> QED BY <2>1, <2>4, <2>5
<1> QED BY <1>1, <1>2

(* Four octets that are read are those that are there. *)
LEMMA Clock ==
  ASSUME NEW buf \in Seq(Octet), NEW k \in Nat, k >= 1, k + 3 <= Len(buf), NEW n, n = k + 3,
         NEW c \in Seq(Octet), Len(c) = 4, \A i \in 1..4 : buf[k - 1 + i] = c[i]
  PROVE  SubSeq(buf, k, n) = c
<1>1. Len(buf) \in Nat /\ k <= Len(buf) /\ n \in Nat /\ n >= k - 1 /\ n <= Len(buf)
  OBVIOUS
<1>2. PICK s : s = SubSeq(buf, k, n)
  OBVIOUS
<1>3. /\ s \in Seq(Octet) /\ Len(s) = n - (k - 1)
      /\ \A i \in 1..n - (k - 1) : s[i] = buf[k - 1 + i]
  BY <1>1, <1>2, Part
<1>4. n - (k - 1) = 4
  OBVIOUS
<1>5. Len(s) = 4 /\ \A i \in 1..4 : s[i] = c[i]
  BY <1>3, <1>4
<1>6. s = c
  BY <1>3, <1>5, SeqEqual
<1> QED BY <1>2, <1>6

(* The header of edition 4 as it was sent. *)
LEMMA Header4Read ==
  ASSUME NEW b, NEW style, NEW buf, Got(buf, b, style), Len(buf) >= End1(b, style),
         b.edition_number = 4, NEW sec, NEW h, h = HeaderOf(buf, sec)
  PROVE  /\ h.originating_centre = b.originating_centre
         /\ h.originating_subcentre = b.originating_subcentre
         /\ h.update_sequence_number = b.update_sequence_number
         /\ h.data_category = b.data_category /\ h.data_subcategory = b.data_subcategory
         /\ h.data_subcategory_local = b.data_subcategory_local
         /\ h.master_table_version_number = b.master_table_version_number
         /\ h.master_table_version_number_local = b.master_table_version_number_local
         /\ h.rep_year = b.rep_year /\ h.clock = b.clock /\ h.rep_second = b.rep_second
         /\ buf[12] = IF style = Own THEN 0 ELSE b.master_table_number
<1>1. IsBulletin(b)
  BY DEF Got
<1>2. PICK s : s = Sec1ed4(b)
  OBVIOUS
<1>3. Sec1(b) = s /\ Length1(b) = 22
  BY <1>2 DEF Sec1, Length1
<1>0. /\ buf[8] = b.edition_number /\ 8 + Length1(b) <= End1(b, style)
      /\ \A i \in 5..Length1(b) : buf[8 + i] = Sec1(b)[i]
      /\ buf[12] = IF style = Own THEN Sec1(b)[4] ELSE b.master_table_number
  BY SMT, Section1Read
<1>4. /\ buf[8] = 4 /\ 8 + 22 <= End1(b, style)
      /\ \A i \in 5..22 : buf[8 + i] = s[i]
      /\ buf[12] = IF style = Own THEN s[4] ELSE b.master_table_number
  BY Zenon, <1>0, <1>3
<1>5. /\ h.originating_centre = Number(buf, 12, 2)
      /\ h.originating_subcentre = Number(buf, 14, 2)
      /\ h.update_sequence_number = buf[17] /\ h.data_category = buf[19]
      /\ h.data_subcategory = buf[20] /\ h.data_subcategory_local = buf[21]
      /\ h.master_table_version_number = buf[22]
      /\ h.master_table_version_number_local = buf[23]
      /\ h.rep_year = Number(buf, 23, 2) /\ h.clock = SubSeq(buf, 26, 29)
      /\ h.rep_second = buf[30]
  <2>1. buf[8] = 4
    BY Zenon, <1>4
  <2>2. /\ 8 + 8 + 1 = 17 /\ 8 + 10 + 1 = 19 /\ 8 + 11 + 1 = 20 /\ 8 + 12 + 1 = 21
        /\ 8 + 13 + 1 = 22 /\ 8 + 14 + 1 = 23 /\ 8 + 21 + 1 = 30
    OBVIOUS
  <2> QED BY <2>1, <2>2 DEF HeaderOf
<1>6. /\ buf[13] = s[5] /\ buf[14] = s[6] /\ buf[15] = s[7] /\ buf[16] = s[8] /\ buf[17] = s[9]
      /\ buf[19] = s[11] /\ buf[20] = s[12] /\ buf[21] = s[13] /\ buf[22] = s[14]
      /\ buf[23] = s[15] /\ buf[24] = s[16] /\ buf[25] = s[17] /\ buf[30] = s[22]
  BY <1>4
<1>7. /\ s[9] = b.update_sequence_number /\ s[11] = b.data_category /\ s[12] = b.data_subcategory
      /\ s[13] = b.data_subcategory_local /\ s[14] = b.master_table_version_number
      /\ s[15] = b.master_table_version_number_local /\ s[22] = b.rep_second /\ s[4] = 0
  BY <1>1, <1>2, Ed4
<1>8. b.originating_centre \in Short /\ b.originating_subcentre \in Short /\ b.rep_year \in Short
  BY SMT, <1>1, ShortsTyped DEF Short
<1>9. Number(buf, 12, 2) = b.originating_centre
  <2>1. /\ s[5] = Octets(b.originating_centre, 2)[1]
        /\ s[6] = Octets(b.originating_centre, 2)[2]
    BY Zenon, <1>1, <1>2, Ed4
  <2>2. buf[12 + 1] = s[5] /\ buf[12 + 2] = s[6] /\ 12 \in Nat
    BY <1>6
  <2> QED BY Zenon, <1>8, <2>1, <2>2, ShortReadsBack
<1>10. Number(buf, 14, 2) = b.originating_subcentre
  <2>1. /\ s[7] = Octets(b.originating_subcentre, 2)[1]
        /\ s[8] = Octets(b.originating_subcentre, 2)[2]
    BY Zenon, <1>1, <1>2, Ed4
  <2>2. buf[14 + 1] = s[7] /\ buf[14 + 2] = s[8] /\ 14 \in Nat
    BY <1>6
  <2> QED BY Zenon, <1>8, <2>1, <2>2, ShortReadsBack
<1>11. Number(buf, 23, 2) = b.rep_year
  <2>1. s[16] = Octets(b.rep_year, 2)[1] /\ s[17] = Octets(b.rep_year, 2)[2]
    BY Zenon, <1>1, <1>2, Ed4
  <2>2. buf[23 + 1] = s[16] /\ buf[23 + 2] = s[17] /\ 23 \in Nat
    BY <1>6
  <2> QED BY Zenon, <1>8, <2>1, <2>2, ShortReadsBack
<1>12. SubSeq(buf, 26, 29) = b.clock
  <2>1. \A i \in 1..4 : s[17 + i] = b.clock[i]
    BY <1>1, <1>2, Ed4
  <2>2. \A i \in 1..4 : buf[26 - 1 + i] = b.clock[i]
    <3>1. \A i \in 1..4 : 17 + i \in 5..22 /\ 8 + (17 + i) = 26 - 1 + i
      OBVIOUS
    <3> QED BY <3>1, <2>1, <1>4
  <2>3. b.clock \in Seq(Octet) /\ Len(b.clock) = 4
    BY <1>1, SequencesTyped
  <2>4. buf \in Seq(Octet) /\ 26 \in Nat /\ 26 >= 1 /\ 26 + 3 <= Len(buf) /\ 29 = 26 + 3
    <3>1. End1(b, style) \in Nat
      BY EndsTyped DEF Got
    <3>2. buf \in Seq(Octet) /\ Len(buf) \in Nat
      BY SectionsLaid
    <3>3. 8 + 22 <= End1(b, style)
      BY <1>4
    <3> QED BY <3>1, <3>2, <3>3
  <2> QED BY Zenon, <2>2, <2>3, <2>4, Clock
<1> QED BY Zenon, <1>4, <1>5, <1>6, <1>7, <1>9, <1>10, <1>11, <1>12

(* That of older editions: less wide, and the year is guessed. *)
LEMMA Header3Read ==
  ASSUME NEW b, NEW style, NEW buf, Got(buf, b, style), Len(buf) >= End1(b, style),
         b.edition_number # 4, NEW sec, NEW h, h = HeaderOf(buf, sec)
  PROVE  /\ h.originating_centre = b.originating_centre % 256
         /\ h.originating_subcentre = b.originating_subcentre % 256
         /\ h.update_sequence_number = b.update_sequence_number
         /\ h.data_category = b.data_category /\ h.data_subcategory = 255
         /\ h.data_subcategory_local = b.data_subcategory_local
         /\ h.master_table_version_number = b.master_table_version_number
         /\ h.master_table_version_number_local = b.master_table_version_number_local
         /\ h.rep_year = FullYear(YearOfCentury(b.rep_year))
         /\ h.clock = b.clock /\ h.rep_second = 0
         /\ buf[12] = b.master_table_number
<1>1. IsBulletin(b)
  BY DEF Got
<1>2. PICK s : s = Sec1ed3(b)
  OBVIOUS
<1>3. Sec1(b) = s /\ Length1(b) = 18
  BY <1>2 DEF Sec1, Length1
<1>0. /\ buf[8] = b.edition_number /\ 8 + Length1(b) <= End1(b, style)
      /\ \A i \in 5..Length1(b) : buf[8 + i] = Sec1(b)[i]
      /\ buf[12] = IF style = Own THEN Sec1(b)[4] ELSE b.master_table_number
  BY SMT, Section1Read
<1>4. /\ buf[8] = b.edition_number /\ 8 + 18 <= End1(b, style)
      /\ \A i \in 5..18 : buf[8 + i] = s[i]
      /\ buf[12] = IF style = Own THEN s[4] ELSE b.master_table_number
  BY Zenon, <1>0, <1>3
<1>5. /\ h.originating_centre = buf[14] /\ h.originating_subcentre = buf[13]
      /\ h.update_sequence_number = buf[15] /\ h.data_category = buf[17]
      /\ h.data_subcategory = 255 /\ h.data_subcategory_local = buf[18]
      /\ h.master_table_version_number = buf[19]
      /\ h.master_table_version_number_local = buf[20]
      /\ h.rep_year = FullYear(buf[21]) /\ h.clock = SubSeq(buf, 22, 25)
      /\ h.rep_second = 0
  <2>1. buf[8] # 4
    BY Zenon, <1>4
  <2>2. /\ 8 + 5 + 1 = 14 /\ 8 + 4 + 1 = 13 /\ 8 + 6 + 1 = 15 /\ 8 + 8 + 1 = 17
        /\ 8 + 9 + 1 = 18 /\ 8 + 10 + 1 = 19 /\ 8 + 11 + 1 = 20 /\ 8 + 12 + 1 = 21
    OBVIOUS
  <2> QED BY <2>1, <2>2 DEF HeaderOf
<1>6. /\ buf[13] = s[5] /\ buf[14] = s[6] /\ buf[15] = s[7] /\ buf[17] = s[9] /\ buf[18] = s[10]
      /\ buf[19] = s[11] /\ buf[20] = s[12] /\ buf[21] = s[13]
  BY <1>4
<1>7. /\ s[4] = b.master_table_number
      /\ s[5] = b.originating_subcentre % 256 /\ s[6] = b.originating_centre % 256
      /\ s[7] = b.update_sequence_number /\ s[9] = b.data_category
      /\ s[10] = b.data_subcategory_local /\ s[11] = b.master_table_version_number
      /\ s[12] = b.master_table_version_number_local /\ s[13] = YearOfCentury(b.rep_year)
  BY <1>1, <1>2, Ed3 DEF Ed3Fields
<1>8. SubSeq(buf, 22, 25) = b.clock
  <2>1. ASSUME NEW i \in 1..4
        PROVE  s[13 + i] = b.clock[i]
    <3>1. Ed3Fields(s, b)
      BY <1>1, <1>2, Ed3
    <3> QED BY Zenon, <3>1 DEF Ed3Fields
  <2>2. \A i \in 1..4 : buf[22 - 1 + i] = b.clock[i]
    <3>1. \A i \in 1..4 : 13 + i \in 5..18 /\ 8 + (13 + i) = 22 - 1 + i
      OBVIOUS
    <3> QED BY <3>1, <2>1, <1>4
  <2>3. b.clock \in Seq(Octet) /\ Len(b.clock) = 4
    BY <1>1, SequencesTyped
  <2>4. buf \in Seq(Octet) /\ 22 \in Nat /\ 22 >= 1 /\ 22 + 3 <= Len(buf) /\ 25 = 22 + 3
    <3>1. End1(b, style) \in Nat
      BY EndsTyped DEF Got
    <3>2. buf \in Seq(Octet) /\ Len(buf) \in Nat
      BY SectionsLaid
    <3>3. 8 + 18 <= End1(b, style)
      BY <1>4
    <3> QED BY <3>1, <3>2, <3>3
  <2> QED BY SMT, <2>2, <2>3, <2>4, Clock
<1>9. buf[12] = b.master_table_number
  <2>1. s[4] = b.master_table_number
    BY Zenon, <1>7
  <2>2. buf[12] = IF style = Own THEN s[4] ELSE b.master_table_number
    BY Zenon, <1>4
  <2> QED BY <2>1, <2>2
<1>10. /\ h.originating_centre = b.originating_centre % 256
       /\ h.originating_subcentre = b.originating_subcentre % 256
       /\ h.rep_year = FullYear(YearOfCentury(b.rep_year))
  <2>1. PICK c, d, y : /\ c = b.originating_centre % 256 /\ d = b.originating_subcentre % 256
                       /\ y = YearOfCentury(b.rep_year)
    OBVIOUS
  <2>2. s[5] = d /\ s[6] = c /\ s[13] = y
    BY Zenon, <1>7, <2>1
  <2>3. h.originating_centre = c /\ h.originating_subcentre = d /\ h.rep_year = FullYear(y)
    BY SMT, <1>5, <1>6, <2>2
  <2> QED BY Zenon, <2>1, <2>3
<1>11. /\ h.update_sequence_number = b.update_sequence_number
       /\ h.data_category = b.data_category
       /\ h.data_subcategory_local = b.data_subcategory_local
       /\ h.master_table_version_number = b.master_table_version_number
       /\ h.master_table_version_number_local = b.master_table_version_number_local
  <2>1. /\ s[7] = b.update_sequence_number /\ s[9] = b.data_category
        /\ s[10] = b.data_subcategory_local /\ s[11] = b.master_table_version_number
        /\ s[12] = b.master_table_version_number_local
    BY Zenon, <1>7
  <2> QED BY SMT, <1>5, <1>6, <2>1
<1> QED BY Zenon, <1>5, <1>8, <1>9, <1>10, <1>11

(* A part of octets that was put at a place is read there. *)
LEMMA PartRead ==
  ASSUME NEW buf \in Seq(Octet), NEW pos \in Nat, NEW t \in Seq(Octet), Len(t) >= 1,
         NEW k, k = pos + 1, NEW n, n = pos + Len(t), n <= Len(buf),
         \A i \in 1..Len(t) : buf[pos + i] = t[i]
  PROVE  SubSeq(buf, k, n) = t
<1>1. /\ Len(t) \in Nat /\ Len(buf) \in Nat /\ k \in Nat /\ k >= 1 /\ k <= Len(buf)
      /\ n \in Nat /\ n >= k - 1
  OBVIOUS
<1>2. PICK s : s = SubSeq(buf, k, n)
  OBVIOUS
<1>3. /\ s \in Seq(Octet) /\ Len(s) = n - (k - 1)
      /\ \A i \in 1..n - (k - 1) : s[i] = buf[k - 1 + i]
  <2>1. /\ SubSeq(buf, k, n) \in Seq(Octet) /\ Len(SubSeq(buf, k, n)) = n - (k - 1)
        /\ \A i \in 1..n - (k - 1) : SubSeq(buf, k, n)[i] = buf[k - 1 + i]
    BY Zenon, <1>1, Part
  <2> QED BY Zenon, <1>2, <2>1
<1>4. n - (k - 1) = Len(t) /\ \A i \in 1..Len(t) : k - 1 + i = pos + i
  <2>1. PICK l \in Nat : l = Len(t)
    BY <1>1
  <2>2. k - 1 = pos /\ n - pos = l
    BY <2>1
  <2> QED BY Zenon, <2>1, <2>2
<1>5. Len(s) = Len(t) /\ \A i \in 1..Len(t) : s[i] = t[i]
  BY <1>3, <1>4
<1>6. s = t
  BY <1>3, <1>5, SeqEqual
<1> QED BY <1>2, <1>6

(* The optional section as it was sent. *)
LEMMA KeptRead ==
  ASSUME NEW b, NEW style, NEW buf, Got(buf, b, style), Len(buf) >= End2(b, style),
         NEW sec, sec[3] = End1(b, style), sec[4] = End2(b, style)
  PROVE  OptionalSection(buf, sec) = Kept2(b, style)
<1>1. IsBulletin(b) /\ style \in Style
  BY DEF Got
<1>2. PICK s, kept : s = Written2(b, style) /\ kept = Kept2(b, style)
  OBVIOUS
<1>3. /\ kept \in Seq(Octet)
      /\ b.optional_section = <<>> => s = <<>> /\ kept = <<>>
      /\ b.optional_section # <<>> =>
           /\ IsSection(s) /\ Len(s) = 4 + Len(kept) /\ Len(kept) >= 1
           /\ \A i \in 1..Len(kept) : s[4 + i] = kept[i]
  BY <1>1, <1>2, Section2
<1>4. PICK e1, e2 : e1 = End1(b, style) /\ e2 = End2(b, style)
  OBVIOUS
<1>5. e1 \in Nat /\ e2 \in Nat /\ e2 = e1 + Len(s) /\ sec[3] = e1 /\ sec[4] = e2
  <2>1. e2 = e1 + Len(s)
    BY <1>2, <1>4 DEF End2
  <2> QED BY <2>1, <1>1, <1>4, EndsTyped
<1>6. buf \in Seq(Octet) /\ Len(buf) \in Nat /\ Placed(buf, e1, s)
  BY <1>2, <1>4, SectionsLaid
<1>7. CASE b.optional_section = <<>>
  <2>1. s = <<>> /\ kept = <<>>
    BY <1>3, <1>7
  <2>2. e2 - e1 <= 4
    BY <1>5, <2>1
  <2>3. OptionalSection(buf, sec) = <<>>
    BY <1>5, <2>2 DEF OptionalSection
  <2> QED BY <1>2, <2>1, <2>3
<1>8. CASE b.optional_section # <<>>
  <2>1. /\ Len(s) = 4 + Len(kept) /\ Len(kept) >= 1 /\ Len(kept) \in Nat
        /\ \A i \in 1..Len(kept) : s[4 + i] = kept[i]
    BY <1>3, <1>8
  <2>b. e1 + 4 \in Nat /\ Len(kept) \in Nat
    BY <1>3, <1>5
  <2>2. PICK p \in Nat, m \in Nat : p = e1 + 4 /\ m = Len(kept)
    BY Zenon, <2>b
  <2>a. m >= 1 /\ e2 = e1 + (4 + m) /\ e2 <= Len(buf)
    <3>1. Len(buf) >= e2
      BY <1>4
    <3>2. m >= 1 /\ e2 = e1 + (4 + m)
      BY <1>5, <2>1, <2>2
    <3> QED BY <3>1, <3>2, <1>5, <1>6
  <2>3. e2 = p + Len(kept) /\ e1 + 5 = p + 1 /\ ~(e2 - e1 <= 4) /\ e2 <= Len(buf)
    <3>1. e2 = p + m /\ e1 + 5 = p + 1 /\ ~(e2 - e1 <= 4)
      BY <1>5, <2>2, <2>a
    <3> QED BY Zenon, <3>1, <2>2, <2>a
  <2>4. ASSUME NEW i \in 1..Len(kept)
        PROVE  buf[p + i] = kept[i]
    <3>1. 4 + i \in 1..Len(s) /\ e1 + (4 + i) <= Len(buf) /\ e1 + (4 + i) = p + i
      BY <1>5, <1>6, <2>1, <2>2, <2>3
    <3>2. buf[e1 + (4 + i)] = s[4 + i]
      BY <1>6, <3>1 DEF Placed
    <3> QED BY Zenon, <3>1, <3>2, <2>1
  <2>5. SubSeq(buf, p + 1, p + Len(kept)) = kept
    BY <1>3, <1>6, <2>1, <2>3, <2>4, PartRead
  <2>6. SubSeq(buf, e1 + 5, e2) = kept
    BY Zenon, <2>3, <2>5
  <2>7. OptionalSection(buf, sec) = SubSeq(buf, e1 + 5, e2)
    BY Zenon, <1>5, <2>3 DEF OptionalSection
  <2> QED BY Zenon, <1>2, <2>6, <2>7
<1> QED BY <1>7, <1>8

(* The flag of compression and the count of subsets as they were sent. *)
LEMMA FlagsRead ==
  ASSUME NEW b, NEW style, NEW buf, Got(buf, b, style), Len(buf) >= End3(b, style),
         NEW pos, pos = End2(b, style)
  PROVE  /\ ((buf[pos + 7] \div 64) % 2 = 1) = style.compression
         /\ Number(buf, pos + 4, 2) = Count3(b)
<1>1. IsBulletin(b) /\ style \in Style
  BY DEF Got
<1>2. PICK s, d : s = Written3(b, style) /\ d = Descriptors(b.datadesc)
  OBVIOUS
<1>3. /\ Len(s) = 7 + Len(d) + Pads(style) /\ d \in Seq(Octet)
      /\ s[5] = Octets(Count3(b), 2)[1] /\ s[6] = Octets(Count3(b), 2)[2]
      /\ s[7] = Flags(style)
  BY <1>1, <1>2, Section3
<1>4. Len(s) \in Nat /\ Len(s) >= 7
  <2>1. Pads(style) \in Nat /\ Len(d) \in Nat
    BY <1>3 DEF Pads
  <2> QED BY <1>3, <2>1
<1>5. pos \in Nat /\ pos + 7 <= Len(buf) /\ Len(buf) \in Nat /\ Placed(buf, pos, s)
  <2>1. End2(b, style) \in Nat /\ End3(b, style) \in Nat /\ End2(b, style) + 7 <= End3(b, style)
    BY <1>1, EndsTyped
  <2>2. Len(buf) \in Nat /\ Placed(buf, pos, s)
    BY <1>2, SectionsLaid
  <2> QED BY <2>1, <2>2
<1>6. buf[pos + 5] = s[5] /\ buf[pos + 6] = s[6] /\ buf[pos + 7] = s[7]
  BY <1>4, <1>5 DEF Placed
<1>7. ((buf[pos + 7] \div 64) % 2 = 1) = style.compression
  <2>1. (128 \div 64) % 2 = 0 /\ (192 \div 64) % 2 = 1
    BY SMT
  <2>2. buf[pos + 7] = IF style.compression THEN 192 ELSE 128
    BY Zenon, <1>3, <1>6 DEF Flags
  <2>3. style.compression \in BOOLEAN
    BY <1>1, StyleTyped
  <2>4. CASE style.compression = TRUE
    <3>1. buf[pos + 7] = 192
      BY <2>2, <2>4
    <3>2. (buf[pos + 7] \div 64) % 2 = 1
      BY Zenon, <2>1, <3>1
    <3> QED BY Zenon, <2>4, <3>2
  <2>5. CASE style.compression = FALSE
    <3>1. buf[pos + 7] = 128
      BY <2>2, <2>5
    <3>2. (buf[pos + 7] \div 64) % 2 = 0
      BY Zenon, <2>1, <3>1
    <3>3. 0 # 1
      OBVIOUS
    <3> QED BY Zenon, <2>5, <3>2, <3>3
  <2> QED BY Zenon, <2>3, <2>4, <2>5
<1>8. Number(buf, pos + 4, 2) = Count3(b)
  <2>1. PICK q \in Nat : q = pos + 4
    BY <1>5
  <2>2. pos + 5 = q + 1 /\ pos + 6 = q + 2
    BY <1>5, <2>1
  <2>3. buf[q + 1] = Octets(Count3(b), 2)[1] /\ buf[q + 2] = Octets(Count3(b), 2)[2]
    BY Zenon, <1>3, <1>6, <2>2
  <2>4. Count3(b) \in Short
    BY <1>1, CountTyped
  <2>5. Number(buf, q, 2) = Count3(b)
    BY Zenon, <2>3, <2>4, ShortReadsBack
  <2> QED BY Zenon, <2>1, <2>5
<1> QED BY <1>7, <1>8

(* Half of an even number, and of the odd one after it. *)
LEMMA HalfOf ==
  ASSUME NEW n \in Nat, NEW r \in Nat, r <= 1, NEW m, m = 2 * n + r
  PROVE  m \div 2 = n
OBVIOUS

(* The descriptors as they were sent, padded or not. *)
LEMMA DescriptorsRead ==
  ASSUME NEW b, NEW style, NEW buf, Got(buf, b, style), Len(buf) >= End3(b, style),
         NEW sec, sec[4] = End2(b, style), sec[5] = End3(b, style)
  PROVE  DataDescriptors(buf, sec) = b.datadesc
<1>1. IsBulletin(b) /\ style \in Style
  BY DEF Got
<1>2. PICK s, d, codes : /\ s = Written3(b, style) /\ d = Descriptors(b.datadesc)
                         /\ codes = b.datadesc
  OBVIOUS
<1>3. /\ Len(s) = 7 + Len(d) + Pads(style) /\ d \in Seq(Octet) /\ Len(d) = 2 * Len(codes)
      /\ \A i \in 1..Len(d) : s[7 + i] = d[i]
  BY <1>1, <1>2, Section3
<1>4. codes \in Seq(Short) /\ Len(codes) \in Nat
  BY <1>1, <1>2, SequencesTyped
<1>5. \A k \in 1..Len(codes) : /\ d[2 * k - 1] = Octets(codes[k], 2)[1]
                               /\ d[2 * k] = Octets(codes[k], 2)[2]
  BY <1>2, <1>4, DescriptorsTyped
<1>6. PICK r \in Nat : r = Pads(style) /\ r <= 1
  BY DEF Pads
<1>7. PICK e2 \in Nat, e3 \in Nat : e2 = End2(b, style) /\ e3 = End3(b, style)
  BY <1>1, EndsTyped
<1>8. e3 = e2 + Len(s)
  BY <1>2, <1>7 DEF End3
<1>9. Len(buf) \in Nat /\ Placed(buf, e2, s)
  BY <1>2, <1>7, SectionsLaid
<1>10. (e3 - e2 - 7) \div 2 = Len(codes)
  <2>1. PICK n \in Nat : n = Len(codes)
    BY <1>4
  <2>2. Len(s) = 7 + 2 * n + r
    BY <1>3, <1>6, <2>1
  <2>3. e3 - e2 - 7 = 2 * n + r
    BY <1>8, <2>2
  <2>4. (e3 - e2 - 7) \div 2 = n
    BY <2>3, <1>6, HalfOf
  <2> QED BY Zenon, <2>1, <2>4
<1>11. ASSUME NEW k \in 1..Len(codes)
       PROVE  Number(buf, e2 + 5 + 2 * k, 2) = codes[k]
  <2>0. k \in Nat /\ codes[k] \in Short
    BY <1>4
  <2>1. PICK q \in Nat : q = e2 + 5 + 2 * k
    BY <2>0
  <2>2. /\ 7 + (2 * k - 1) \in 1..Len(s) /\ 7 + 2 * k \in 1..Len(s)
        /\ 2 * k - 1 \in 1..Len(d) /\ 2 * k \in 1..Len(d)
    BY <1>3, <1>4, <1>6
  <2>3. /\ e2 + (7 + (2 * k - 1)) <= Len(buf) /\ e2 + (7 + 2 * k) <= Len(buf)
        /\ e2 + (7 + (2 * k - 1)) = q + 1 /\ e2 + (7 + 2 * k) = q + 2
    <3>1. Len(s) \in Nat
      BY <1>3, <1>4, <1>6
    <3>2. e2 + Len(s) <= Len(buf)
      BY <1>7, <1>8
    <3> QED BY <3>1, <3>2, <1>9, <2>0, <2>1, <2>2
  <2>4. buf[q + 1] = s[7 + (2 * k - 1)] /\ buf[q + 2] = s[7 + 2 * k]
    <3>1. /\ buf[e2 + (7 + (2 * k - 1))] = s[7 + (2 * k - 1)]
          /\ buf[e2 + (7 + 2 * k)] = s[7 + 2 * k]
      BY <1>9, <2>2, <2>3 DEF Placed
    <3> QED BY Zenon, <3>1, <2>3
  <2>5. s[7 + (2 * k - 1)] = d[2 * k - 1] /\ s[7 + 2 * k] = d[2 * k]
    BY Zenon, <1>3, <2>2
  <2>6. buf[q + 1] = Octets(codes[k], 2)[1] /\ buf[q + 2] = Octets(codes[k], 2)[2]
    BY Zenon, <1>5, <2>4, <2>5
  <2>7. Number(buf, q, 2) = codes[k]
    BY Zenon, <2>0, <2>6, ShortReadsBack
  <2> QED BY Zenon, <2>1, <2>7
<1>12. DataDescriptors(buf, sec) = [k \in 1..Len(codes) |-> Number(buf, e2 + 5 + 2 * k, 2)]
  <2>1. sec[4] = e2 /\ sec[5] = e3
    BY <1>7
  <2> QED BY Zenon, <2>1, <1>10 DEF DataDescriptors
<1>13. DataDescriptors(buf, sec) = [k \in 1..Len(codes) |-> codes[k]]
  BY <1>11, <1>12
<1>14. codes = [k \in 1..Len(codes) |-> codes[k]]
  BY <1>4
<1> QED BY Zenon, <1>2, <1>13, <1>14

(* All of the data is there when the header is, and the end section when it is whole. *)
LEMMA DataRead ==
  ASSUME NEW b, NEW style, NEW buf, Got(buf, b, style), Len(buf) >= End4(b, style),
         NEW e3, e3 = End3(b, style)
  PROVE  /\ e3 + 4 + Count3(b) <= Len(buf)
         /\ Count3(b) > 0 =>
              SubSeq(buf, e3 + 5, e3 + 4 + Count3(b)) = SubSeq(b.subsets, 1, Count3(b))
<1>1. IsBulletin(b) /\ style \in Style
  BY DEF Got
<1>2. PICK s, data : s = Written4(b, style) /\ data = b.subsets
  OBVIOUS
<1>3. /\ Len(s) = 4 + Len(data) + (Len(data) % 2) + style.spare
      /\ \A i \in 1..Len(data) : s[4 + i] = data[i]
  BY <1>1, <1>2, Section4
<1>4. data \in Seq(Octet) /\ Len(data) \in Nat /\ style.spare \in Nat
  BY <1>1, <1>2, SequencesTyped, StyleTyped
<1>5. PICK c \in Nat : c = Count3(b) /\ c <= Len(data)
  BY <1>1, <1>2, CountTyped
<1>6. Len(s) \in Nat /\ Len(s) >= 4 + Len(data)
  <2>1. PICK r \in Nat : r = Len(data) % 2
    BY <1>4
  <2>2. Len(s) = 4 + Len(data) + r + style.spare
    BY Zenon, <1>3, <2>1
  <2> QED BY <1>4, <2>2
<1>7. e3 \in Nat /\ End4(b, style) = e3 + Len(s)
  BY <1>1, <1>2, EndsTyped DEF End4
<1>8. buf \in Seq(Octet) /\ Len(buf) \in Nat /\ Placed(buf, e3, s)
  BY <1>2, SectionsLaid
<1>9. e3 + 4 + c <= Len(buf)
  BY <1>4, <1>5, <1>6, <1>7, <1>8
<1>10. ASSUME c > 0
       PROVE  SubSeq(buf, e3 + 5, e3 + 4 + c) = SubSeq(data, 1, c)
  <2>1. PICK t : t = SubSeq(data, 1, c)
    OBVIOUS
  <2>2. t \in Seq(Octet) /\ Len(t) = c /\ \A i \in 1..c : t[i] = data[i]
    <3>1. /\ t \in Seq(Octet) /\ Len(t) = c - (1 - 1)
          /\ \A i \in 1..c - (1 - 1) : t[i] = data[1 - 1 + i]
      BY <1>4, <1>5, <1>10, <2>1, Part
    <3> QED BY <3>1
  <2>3. PICK p \in Nat : p = e3 + 4
    BY <1>7
  <2>4. e3 + 5 = p + 1 /\ e3 + 4 + c = p + Len(t) /\ p + Len(t) <= Len(buf)
    BY <1>7, <1>9, <2>2, <2>3
  <2>5. ASSUME NEW i \in 1..Len(t)
        PROVE  buf[p + i] = t[i]
    <3>1. i \in 1..Len(data) /\ 4 + i \in 1..Len(s) /\ i \in 1..c
      BY <1>4, <1>5, <1>6, <2>2
    <3>4. e3 + (4 + i) <= Len(buf) /\ e3 + (4 + i) = p + i
      <4>1. i \in 1..c /\ e3 \in Nat /\ Len(buf) \in Nat
        BY Zenon, <1>7, <1>8, <3>1
      <4>2. e3 + 4 + c <= Len(buf) /\ p = e3 + 4 /\ c \in Nat
        BY Zenon, <1>5, <1>9, <2>3
      <4> QED BY <4>1, <4>2
    <3>2. buf[e3 + (4 + i)] = s[4 + i]
      BY <1>8, <3>1, <3>4 DEF Placed
    <3>3. s[4 + i] = data[i] /\ t[i] = data[i]
      BY <1>3, <2>2, <3>1
    <3> QED BY Zenon, <3>2, <3>3, <3>4
  <2>6. SubSeq(buf, p + 1, p + Len(t)) = t
    BY <1>8, <1>10, <2>2, <2>4, <2>5, PartRead
  <2> QED BY Zenon, <2>1, <2>4, <2>6
<1> QED BY Zenon, <1>2, <1>5, <1>9, <1>10

(* The 7777 is there when the message is whole. *)
LEMMA EndRead ==
  ASSUME NEW b, NEW style, NEW buf, Got(buf, b, style), NEW sec, sec[6] = End4(b, style)
  PROVE  EndWhole(buf, sec) <=> Len(buf) >= End4(b, style) + 4
<1>1. PICK e \in Nat : e = End4(b, style)
  BY EndsTyped DEF Got
<1>2. buf \in Seq(Octet) /\ Len(buf) \in Nat /\ Placed(buf, e, Sevens)
  BY <1>1, SectionsLaid
<1>3. ASSUME e + 4 <= Len(buf)
      PROVE  SubSeq(buf, e + 1, e + 4) = Sevens
  <2>1. PICK t : t = Sevens
    OBVIOUS
  <2>2. t \in Seq(Octet) /\ Len(t) = 4
    BY <2>1, FixedTyped
  <2>3. \A i \in 1..Len(t) : buf[e + i] = t[i]
    BY <1>2, <1>3, <2>1, <2>2 DEF Placed
  <2>4. SubSeq(buf, e + 1, e + Len(t)) = t
    BY <1>2, <1>3, <2>2, <2>3, PartRead
  <2> QED BY <2>1, <2>2, <2>4
<1>4. sec[6] = e
  BY <1>1
<1> QED BY <1>1, <1>2, <1>3, <1>4 DEF EndWhole

(***************************************************************************)
(* Records: what a bulletin is after some of its members were assigned.    *)
(***************************************************************************)

Members == DOMAIN Fresh

(* The members of a bulletin. *)
LEMMA MembersAre ==
  Members =
    {"master_table_number", "data_category", "data_subcategory", "data_subcategory_local",
     "originating_centre", "originating_subcentre", "update_sequence_number", "rep_year",
     "clock", "rep_second", "tables", "datadesc", "subsets", "edition_number",
     "master_table_version_number", "master_table_version_number_local", "compression",
     "optional_section", "section_end"}
BY DEF Members, Fresh

(* Bulletins with the same members are the same. *)
LEMMA SameRecord ==
  ASSUME NEW b, NEW c, HasMembers(b), HasMembers(c), \A m \in Members : b[m] = c[m]
  PROVE  b = c
<1>1. [m \in Members |-> b[m]] = [m \in Members |-> c[m]]
  OBVIOUS
<1> QED BY Zenon, <1>1 DEF HasMembers, Members

(* What is read takes the place of what was there, member by member. *)
LEMMA Overlaid ==
  ASSUME NEW f, NEW b, HasMembers(b), DOMAIN f \subseteq Members
  PROVE  /\ HasMembers(Over(f, b))
         /\ \A m \in Members : (Over(f, b))[m] = IF m \in DOMAIN f THEN f[m] ELSE b[m]
<1>1. DOMAIN b = Members
  BY DEF HasMembers, Members
<1>2. DOMAIN f \cup DOMAIN b = Members
  BY <1>1
<1>3. Over(f, b) = [m \in Members |-> IF m \in DOMAIN f THEN f[m] ELSE b[m]]
  <2>1. Over(f, b) = [m \in DOMAIN f \cup DOMAIN b |-> IF m \in DOMAIN f THEN f[m] ELSE b[m]]
    BY DEF Over
  <2> QED BY <2>1, <1>2
<1>4. HasMembers(Over(f, b))
  BY <1>3 DEF HasMembers, Members
<1> QED BY <1>3, <1>4

(* A header has every member. *)
LEMMA HeaderMembers ==
  ASSUME NEW buf, NEW sec
  PROVE  HasMembers(HeaderOf(buf, sec))
<1>1. PICK h : h = HeaderOf(buf, sec)
  OBVIOUS
<1>2. DOMAIN h = Members
  BY <1>1, HeaderFixed DEF Members
<1>3. h = [m \in DOMAIN h |-> h[m]]
  BY <1>1 DEF HeaderOf
<1> QED BY Zenon, <1>1, <1>2, <1>3 DEF HasMembers, Members

(* The values that a centre can have, and the year that is guessed from that of the century. *)
Wide(b) == IF b.edition_number = 4 THEN 65536 ELSE 256
Guessed(year) == LET yy == year % 100 IN IF yy > 50 THEN 1900 + yy ELSE 2000 + yy

(* A message as it is read back: all of its members. *)
LEMMA CarriedMembers ==
  ASSUME NEW b, HasMembers(b), NEW style, NEW c, c = Carried(b, style)
  PROVE  /\ HasMembers(c)
         /\ c.master_table_number
              = IF b.edition_number = 4 /\ style = Own THEN 0 ELSE b.master_table_number
         /\ c.originating_centre = b.originating_centre % Wide(b)
         /\ c.originating_subcentre = b.originating_subcentre % Wide(b)
         /\ c.data_subcategory = IF b.edition_number = 4 THEN b.data_subcategory ELSE 255
         /\ c.rep_second = IF b.edition_number = 4 THEN b.rep_second ELSE 0
         /\ c.rep_year = IF b.edition_number = 4 THEN b.rep_year ELSE Guessed(b.rep_year)
         /\ c.optional_section = Kept2(b, style) /\ c.compression = style.compression
         /\ c.subsets = SubSeq(b.subsets, 1, Count3(b))
         /\ c.update_sequence_number = b.update_sequence_number
         /\ c.data_category = b.data_category
         /\ c.data_subcategory_local = b.data_subcategory_local
         /\ c.master_table_version_number = b.master_table_version_number
         /\ c.master_table_version_number_local = b.master_table_version_number_local
         /\ c.edition_number = b.edition_number /\ c.clock = b.clock
         /\ c.datadesc = b.datadesc /\ c.tables = b.tables /\ c.section_end = b.section_end
<1>a. PICK mtn : mtn = IF b.edition_number = 4 /\ style = Own THEN 0 ELSE b.master_table_number
  OBVIOUS
<1>c. PICK centre : centre = b.originating_centre % Wide(b)
  OBVIOUS
<1>d. PICK subcentre : subcentre = b.originating_subcentre % Wide(b)
  OBVIOUS
<1>e. PICK dsc : dsc = IF b.edition_number = 4 THEN b.data_subcategory ELSE 255
  OBVIOUS
<1>f. PICK second : second = IF b.edition_number = 4 THEN b.rep_second ELSE 0
  OBVIOUS
<1>g. PICK year : year = IF b.edition_number = 4 THEN b.rep_year ELSE Guessed(b.rep_year)
  OBVIOUS
<1>h. PICK opt, comp : opt = Kept2(b, style) /\ comp = style.compression
  OBVIOUS
<1>i. PICK subs : subs = SubSeq(b.subsets, 1, Count3(b))
  OBVIOUS
<1>2. PICK f : f = [master_table_number |-> mtn, originating_centre |-> centre,
                    originating_subcentre |-> subcentre, data_subcategory |-> dsc,
                    rep_second |-> second, rep_year |-> year, optional_section |-> opt,
                    compression |-> comp, subsets |-> subs]
  OBVIOUS
<1>3. c = Over(f, b)
  BY SMT, <1>a, <1>c, <1>d, <1>e, <1>f, <1>g, <1>h, <1>i, <1>2
    DEF Carried, Kept2, Count3, Guessed, Wide
<1>4. DOMAIN f = {"master_table_number", "originating_centre", "originating_subcentre",
                  "data_subcategory", "rep_second", "rep_year", "optional_section",
                  "compression", "subsets"}
  BY <1>2
<1>5. /\ HasMembers(c)
      /\ \A m \in Members : c[m] = IF m \in DOMAIN f THEN f[m] ELSE b[m]
  <2>1. DOMAIN f \subseteq Members
    BY <1>4, MembersAre
  <2> QED BY <2>1, <1>3, Overlaid
<1>6. /\ c.master_table_number = mtn /\ c.originating_centre = centre
      /\ c.originating_subcentre = subcentre /\ c.data_subcategory = dsc
      /\ c.rep_second = second /\ c.rep_year = year /\ c.optional_section = opt
      /\ c.compression = comp /\ c.subsets = subs
  BY <1>2, <1>4, <1>5, MembersAre
<1>7. /\ c.update_sequence_number = b.update_sequence_number
      /\ c.data_category = b.data_category
      /\ c.data_subcategory_local = b.data_subcategory_local
      /\ c.master_table_version_number = b.master_table_version_number
      /\ c.master_table_version_number_local = b.master_table_version_number_local
      /\ c.edition_number = b.edition_number /\ c.clock = b.clock
      /\ c.datadesc = b.datadesc /\ c.tables = b.tables /\ c.section_end = b.section_end
  BY <1>4, <1>5, MembersAre
<1> QED BY SMT, <1>a, <1>c, <1>d, <1>e, <1>f, <1>g, <1>h, <1>i, <1>5, <1>6, <1>7

(* A centre of two octets is kept as it is. *)
LEMMA CentreKept ==
  ASSUME NEW v \in Nat, v <= 65535
  PROVE  v % 65536 = v
BY SMT

(* The header that is read is that of what the message carries. *)
LEMMA HeaderRead ==
  ASSUME NEW b, NEW style, NEW buf, Got(buf, b, style), Len(buf) >= End4(b, style),
         NEW h, h = HeaderOf(buf, Sections(buf)), NEW c, c = Carried(b, style)
  PROVE  h = Over([tables |-> <<>>, subsets |-> <<>>, section_end |-> NoEnds], c)
<1>1. IsBulletin(b) /\ HasMembers(b) /\ style \in Style
  BY DEF Got, IsBulletin
<1>2. PICK e1 \in Nat, e2 \in Nat, e3 \in Nat, e4 \in Nat :
        /\ e1 = End1(b, style) /\ e2 = End2(b, style)
        /\ e3 = End3(b, style) /\ e4 = End4(b, style)
  BY <1>1, EndsTyped
<1>3. e1 <= e2 /\ e2 + 7 <= e3 /\ e3 + 4 <= e4
  BY <1>1, <1>2, EndsTyped
<1>4. Len(buf) \in Nat
  BY SectionsLaid
<1>5. Len(buf) >= e1 /\ Len(buf) >= e2 /\ Len(buf) >= e3
  BY <1>2, <1>3, <1>4
<1>6. PICK sec : sec = <<0, 8, e1, e2, e3, e4>>
  OBVIOUS
<1>7. Sections(buf) = sec
  BY <1>2, <1>6, SectionsRead
<1>8. sec[3] = e1 /\ sec[4] = e2 /\ sec[5] = e3
  BY <1>6
<1>9. h = HeaderOf(buf, sec)
  BY Zenon, <1>7
<1>10. HasMembers(h)
  BY Zenon, <1>9, HeaderMembers
<1>11. HasMembers(c)
  BY <1>1, CarriedMembers
<1>12. PICK f : f = [tables |-> <<>>, subsets |-> <<>>, section_end |-> NoEnds]
  OBVIOUS
<1>13. DOMAIN f = {"tables", "subsets", "section_end"}
  BY <1>12
<1>14. PICK r : r = Over(f, c)
  OBVIOUS
<1>15. HasMembers(r) /\ \A m \in Members : r[m] = IF m \in DOMAIN f THEN f[m] ELSE c[m]
  <2>1. DOMAIN f \subseteq Members
    BY <1>13, MembersAre
  <2> QED BY <2>1, <1>11, <1>14, Overlaid
<1>16. h.tables = <<>> /\ h.subsets = <<>> /\ h.section_end = NoEnds
  BY <1>9, HeaderFixed
<1>17. h.optional_section = c.optional_section
  <2>1. h.optional_section = OptionalSection(buf, sec)
    BY <1>9, HeaderFixed
  <2>2. OptionalSection(buf, sec) = Kept2(b, style)
    BY <1>2, <1>5, <1>8, KeptRead
  <2>3. c.optional_section = Kept2(b, style)
    BY <1>1, CarriedMembers
  <2> QED BY Zenon, <2>1, <2>2, <2>3
<1>18. h.compression = c.compression
  <2>1. h.compression = ((buf[sec[4] + 7] \div 64) % 2 = 1)
    BY <1>9, HeaderFixed
  <2>2. ((buf[e2 + 7] \div 64) % 2 = 1) = style.compression
    BY <1>2, <1>5, FlagsRead
  <2>3. c.compression = style.compression
    BY <1>1, CarriedMembers
  <2> QED BY Zenon, <1>8, <2>1, <2>2, <2>3
<1>19. h.datadesc = c.datadesc
  <2>1. h.datadesc = DataDescriptors(buf, sec)
    BY <1>9, HeaderFixed
  <2>2. DataDescriptors(buf, sec) = b.datadesc
    BY <1>2, <1>5, <1>8, DescriptorsRead
  <2>3. c.datadesc = b.datadesc
    BY <1>1, CarriedMembers
  <2> QED BY Zenon, <2>1, <2>2, <2>3
<1>20. h.edition_number = c.edition_number
  <2>1. h.edition_number = buf[8]
    BY <1>9, HeaderFixed
  <2>2. buf[8] = b.edition_number
    BY <1>2, <1>5, Section1Read
  <2>3. c.edition_number = b.edition_number
    BY <1>1, CarriedMembers
  <2> QED BY Zenon, <2>1, <2>2, <2>3
<1>21. h.master_table_number = buf[12]
  BY <1>9, HeaderFixed
<1>22. /\ c.update_sequence_number = b.update_sequence_number
       /\ c.data_category = b.data_category
       /\ c.data_subcategory_local = b.data_subcategory_local
       /\ c.master_table_version_number = b.master_table_version_number
       /\ c.master_table_version_number_local = b.master_table_version_number_local
       /\ c.clock = b.clock
  BY <1>1, CarriedMembers
<1>23. /\ c.originating_centre = b.originating_centre % Wide(b)
       /\ c.originating_subcentre = b.originating_subcentre % Wide(b)
  BY SMT, <1>1, CarriedMembers
<1>24. /\ c.master_table_number
              = IF b.edition_number = 4 /\ style = Own THEN 0 ELSE b.master_table_number
       /\ c.data_subcategory = IF b.edition_number = 4 THEN b.data_subcategory ELSE 255
       /\ c.rep_second = IF b.edition_number = 4 THEN b.rep_second ELSE 0
       /\ c.rep_year = IF b.edition_number = 4 THEN b.rep_year ELSE Guessed(b.rep_year)
  BY SMT, <1>1, CarriedMembers
<1> DEFINE Same1 == /\ h.originating_centre = c.originating_centre
                    /\ h.originating_subcentre = c.originating_subcentre
                    /\ h.update_sequence_number = c.update_sequence_number
                    /\ h.data_category = c.data_category
                    /\ h.data_subcategory = c.data_subcategory
                    /\ h.data_subcategory_local = c.data_subcategory_local
                    /\ h.master_table_version_number = c.master_table_version_number
                    /\ h.master_table_version_number_local = c.master_table_version_number_local
                    /\ h.rep_year = c.rep_year /\ h.clock = c.clock
                    /\ h.rep_second = c.rep_second
                    /\ h.master_table_number = c.master_table_number
<1>25. ASSUME b.edition_number = 4
       PROVE  Same1
  <2>1. /\ h.originating_centre = b.originating_centre
        /\ h.originating_subcentre = b.originating_subcentre
        /\ h.update_sequence_number = b.update_sequence_number
        /\ h.data_category = b.data_category /\ h.data_subcategory = b.data_subcategory
        /\ h.data_subcategory_local = b.data_subcategory_local
        /\ h.master_table_version_number = b.master_table_version_number
        /\ h.master_table_version_number_local = b.master_table_version_number_local
        /\ h.rep_year = b.rep_year /\ h.clock = b.clock /\ h.rep_second = b.rep_second
        /\ buf[12] = IF style = Own THEN 0 ELSE b.master_table_number
    BY SMT, <1>2, <1>5, <1>9, <1>25, Header4Read
  <2>2. c.originating_centre = b.originating_centre
        /\ c.originating_subcentre = b.originating_subcentre
    <3>1. Wide(b) = 65536
      BY SMT, <1>25 DEF Wide
    <3>2. /\ b.originating_centre \in Nat /\ b.originating_centre <= 65535
          /\ b.originating_subcentre \in Nat /\ b.originating_subcentre <= 65535
      BY SMT, <1>1, ShortsTyped
    <3>3. /\ b.originating_centre % 65536 = b.originating_centre
          /\ b.originating_subcentre % 65536 = b.originating_subcentre
      BY SMT, <3>2, CentreKept
    <3> QED BY SMT, <1>23, <3>1, <3>3
  <2>3. /\ c.master_table_number = IF style = Own THEN 0 ELSE b.master_table_number
        /\ c.data_subcategory = b.data_subcategory /\ c.rep_second = b.rep_second
        /\ c.rep_year = b.rep_year
    BY SMT, <1>24, <1>25
  <2>4. h.master_table_number = c.master_table_number
    BY SMT, <2>1, <2>3, <1>21
  <2>5. /\ h.data_subcategory = c.data_subcategory /\ h.rep_year = c.rep_year
        /\ h.rep_second = c.rep_second
    BY Zenon, <2>1, <2>3
  <2>6. /\ h.originating_centre = c.originating_centre
        /\ h.originating_subcentre = c.originating_subcentre
    BY Zenon, <2>1, <2>2
  <2>7. /\ h.update_sequence_number = c.update_sequence_number
        /\ h.data_category = c.data_category
        /\ h.data_subcategory_local = c.data_subcategory_local
        /\ h.master_table_version_number = c.master_table_version_number
        /\ h.master_table_version_number_local = c.master_table_version_number_local
        /\ h.clock = c.clock
    BY Zenon, <2>1, <1>22
  <2> QED BY Zenon, <2>4, <2>5, <2>6, <2>7
<1>26. ASSUME b.edition_number # 4
       PROVE  Same1
  <2>1. /\ h.update_sequence_number = b.update_sequence_number
        /\ h.data_category = b.data_category /\ h.data_subcategory = 255
        /\ h.data_subcategory_local = b.data_subcategory_local
        /\ h.master_table_version_number = b.master_table_version_number
        /\ h.master_table_version_number_local = b.master_table_version_number_local
        /\ h.clock = b.clock /\ h.rep_second = 0
        /\ buf[12] = b.master_table_number
    BY SMT, <1>2, <1>5, <1>9, <1>26, Header3Read
  <2>2. /\ h.originating_centre = b.originating_centre % 256
        /\ h.originating_subcentre = b.originating_subcentre % 256
        /\ h.rep_year = FullYear(YearOfCentury(b.rep_year))
    BY SMT, <1>2, <1>5, <1>9, <1>26, Header3Read
  <2>3. /\ c.originating_centre = h.originating_centre
        /\ c.originating_subcentre = h.originating_subcentre
    <3>1. Wide(b) = 256
      BY <1>26 DEF Wide
    <3> QED BY Zenon, <1>23, <2>2, <3>1
  <2>4. c.rep_year = h.rep_year
    <3>1. b.rep_year \in Nat
      BY <1>1, ShortsTyped
    <3>2. FullYear(YearOfCentury(b.rep_year)) = Guessed(b.rep_year)
      BY <3>1, YearRead DEF Guessed
    <3>3. c.rep_year = Guessed(b.rep_year)
      BY SMT, <1>24, <1>26
    <3> QED BY Zenon, <2>2, <3>2, <3>3
  <2>5. c.master_table_number = b.master_table_number /\ c.data_subcategory = 255
        /\ c.rep_second = 0
    BY SMT, <1>24, <1>26
  <2>6. /\ h.master_table_number = c.master_table_number
        /\ h.data_subcategory = c.data_subcategory /\ h.rep_second = c.rep_second
    BY Zenon, <2>1, <2>5, <1>21
  <2>7. /\ h.update_sequence_number = c.update_sequence_number
        /\ h.data_category = c.data_category
        /\ h.data_subcategory_local = c.data_subcategory_local
        /\ h.master_table_version_number = c.master_table_version_number
        /\ h.master_table_version_number_local = c.master_table_version_number_local
        /\ h.clock = c.clock
    BY Zenon, <2>1, <1>22
  <2> QED BY Zenon, <2>3, <2>4, <2>6, <2>7
<1>27. Same1
  BY Zenon, <1>25, <1>26
<1>28. \A m \in Members : h[m] = r[m]
  <2>1. \A m \in Members \ DOMAIN f : h[m] = c[m]
    BY SMT, <1>13, <1>17, <1>18, <1>19, <1>20, <1>27, MembersAre
  <2>2. \A m \in DOMAIN f : h[m] = f[m]
    BY SMT, <1>12, <1>13, <1>16
  <2> QED BY <1>15, <2>1, <2>2
<1>29. h = r
  BY Zenon, <1>10, <1>15, <1>28, SameRecord
<1> QED BY Zenon, <1>12, <1>14, <1>29

(* The offsets as they were laid out are those at which the sections end. *)
LEMMA LaidEnds ==
  ASSUME NEW b, IsBulletin(b), NEW style \in Style
  PROVE  LaidOut(b, style)
           = <<8, End1(b, style), End2(b, style), End3(b, style), End4(b, style),
               End4(b, style) + 4>>
<1>1. PICK s1, s2, s3, s4 :
        /\ s1 = Written1(b, style) /\ s2 = Written2(b, style)
        /\ s3 = Written3(b, style) /\ s4 = Written4(b, style)
  OBVIOUS
<1>2. PICK o, n, m : /\ o = Len(b.optional_section) /\ n = Len(b.datadesc)
                     /\ m = Len(b.subsets)
  OBVIOUS
<1>a. PICK r, q : r = o % 2 /\ q = m % 2
  OBVIOUS
<1>3. o \in Nat /\ r \in Nat /\ n \in Nat /\ m \in Nat /\ q \in Nat
  <2>1. o \in Nat /\ n \in Nat /\ m \in Nat
    BY <1>2, SequencesTyped
  <2>2. \A x \in Nat : x % 2 \in Nat
    OBVIOUS
  <2> QED BY Zenon, <1>a, <2>1, <2>2
<1>4. PICK l1, pads : l1 = Length1(b) /\ pads = Pads(style)
  OBVIOUS
<1>b. l1 \in Nat /\ pads \in Nat
  BY <1>4 DEF Length1, Pads
<1>c. PICK loc, spare : loc = style.local /\ spare = style.spare
  OBVIOUS
<1>d. loc \in Nat /\ spare \in Nat
  BY <1>c, StyleTyped
<1>5. Len(s1) = l1 + loc
  <2>1. Len(s1) = Length1(b) + style.local
    BY <1>1, Section1
  <2> QED BY Zenon, <2>1, <1>4, <1>c
<1>6. PICK l2 : l2 = IF o = 0 THEN 0 ELSE 4 + o + (IF style.exact THEN 0 ELSE r)
  OBVIOUS
<1>7. Len(s2) = l2 /\ l2 \in Nat
  <2>1. PICK kept : kept = Kept2(b, style)
    OBVIOUS
  <2>2. /\ kept \in Seq(Octet)
        /\ b.optional_section = <<>> => s2 = <<>>
        /\ b.optional_section # <<>> => Len(s2) = 4 + Len(kept)
    BY <1>1, <2>1, Section2
  <2>3. b.optional_section \in Seq(Octet)
    BY SequencesTyped
  <2>4. Len(kept) = o + (IF style.exact THEN 0 ELSE r)
    <3>1. CASE style.exact = TRUE
      <4>1. kept = b.optional_section
        BY <2>1, <3>1 DEF Kept2
      <4>2. Len(kept) = o
        BY Zenon, <4>1, <1>2
      <4>3. (IF style.exact THEN 0 ELSE r) = 0
        BY <3>1
      <4>4. o + 0 = o
        BY <1>3
      <4> QED BY Zenon, <4>2, <4>3, <4>4
    <3>2. CASE style.exact = FALSE
      <4>1. kept = Padded(b.optional_section)
        BY <2>1, <3>2 DEF Kept2
      <4>2. Len(kept) = o + r
        BY Zenon, <4>1, <1>2, <1>a, <2>3, PaddedTyped
      <4> QED BY <3>2, <4>2
    <3>3. style.exact \in BOOLEAN
      BY StyleTyped
    <3> QED BY <3>1, <3>2, <3>3
  <2>5. CASE b.optional_section = <<>>
    <3>1. o = 0 /\ s2 = <<>>
      BY <1>2, <2>2, <2>5
    <3> QED BY <1>6, <3>1
  <2>6. CASE b.optional_section # <<>>
    <3>1. o # 0
      BY <1>2, <2>3, <2>6
    <3>2. l2 = 4 + o + (IF style.exact THEN 0 ELSE r)
      BY <1>6, <3>1
    <3>3. Len(s2) = 4 + (o + (IF style.exact THEN 0 ELSE r))
      BY <2>2, <2>4, <2>6
    <3> QED BY <3>2, <3>3, <1>3
  <2> QED BY <2>5, <2>6
<1>8. Len(s3) = 7 + 2 * n + pads
  <2>1. PICK d : d = Descriptors(b.datadesc)
    OBVIOUS
  <2>2. Len(s3) = 7 + Len(d) + Pads(style) /\ Len(d) = 2 * Len(b.datadesc)
    BY <1>1, <2>1, Section3
  <2> QED BY Zenon, <2>2, <1>2, <1>4
<1>9. Len(s4) = 4 + m + q + spare
  <2>1. Len(s4) = 4 + Len(b.subsets) + (Len(b.subsets) % 2) + style.spare
    BY Zenon, <1>1, Section4
  <2> QED BY Zenon, <2>1, <1>2, <1>a, <1>c
<1>10. /\ End1(b, style) = 8 + Len(s1) /\ End2(b, style) = End1(b, style) + Len(s2)
       /\ End3(b, style) = End2(b, style) + Len(s3) /\ End4(b, style) = End3(b, style) + Len(s4)
  BY Zenon, <1>1 DEF End1, End2, End3, End4
<1>11. PICK l3, l4, k1 : l3 = 7 + 2 * n + pads /\ l4 = 4 + m + q + spare /\ k1 = l1 + loc
  OBVIOUS
<1>12. l3 \in Nat /\ l4 \in Nat /\ k1 \in Nat
  BY <1>3, <1>b, <1>d, <1>11
<1>13. /\ End1(b, style) = 8 + k1 /\ End2(b, style) = 8 + k1 + l2
       /\ End3(b, style) = 8 + k1 + l2 + l3 /\ End4(b, style) = 8 + k1 + l2 + l3 + l4
       /\ End4(b, style) + 4 = 12 + k1 + l2 + l3 + l4
  <2>1. Len(s1) = k1 /\ Len(s2) = l2 /\ Len(s3) = l3 /\ Len(s4) = l4
    BY Zenon, <1>5, <1>7, <1>8, <1>9, <1>11
  <2> QED BY <1>7, <1>10, <1>12, <2>1
<1>14. LaidOut(b, style) = <<8, 8 + k1, 8 + k1 + l2, 8 + k1 + l2 + l3, 8 + k1 + l2 + l3 + l4,
                             12 + k1 + l2 + l3 + l4>>
  BY SMT, <1>2, <1>a, <1>4, <1>c, <1>6, <1>11 DEF LaidOut, Length1, Pads
<1> QED BY Zenon, <1>13, <1>14

Bulletin(c, tables, subsets, ends) ==
  Over([tables |-> tables, subsets |-> subsets, section_end |-> ends], c)

(* A bulletin with other tables, subsets and ends. *)
LEMMA BulletinMembers ==
  ASSUME NEW c, HasMembers(c), NEW tables, NEW subsets, NEW ends,
         NEW r, r = Bulletin(c, tables, subsets, ends)
  PROVE  /\ HasMembers(r) /\ r.tables = tables /\ r.subsets = subsets /\ r.section_end = ends
         /\ \A m \in Members \ {"tables", "subsets", "section_end"} : r[m] = c[m]
<1>1. PICK f : f = [tables |-> tables, subsets |-> subsets, section_end |-> ends]
  OBVIOUS
<1>2. DOMAIN f = {"tables", "subsets", "section_end"} /\ f.tables = tables
      /\ f.subsets = subsets /\ f.section_end = ends
  BY <1>1
<1>3. r = Over(f, c)
  BY Zenon, <1>1 DEF Bulletin
<1>4. HasMembers(r) /\ \A m \in Members : r[m] = IF m \in DOMAIN f THEN f[m] ELSE c[m]
  <2>1. DOMAIN f \subseteq Members
    BY <1>2, MembersAre
  <2> QED BY <2>1, <1>3, Overlaid
<1>5. /\ r.tables = tables /\ r.subsets = subsets /\ r.section_end = ends
      /\ \A m \in Members \ {"tables", "subsets", "section_end"} : r[m] = c[m]
  BY <1>2, <1>4, MembersAre
<1> QED BY <1>4, <1>5

(* The tables that a bulletin needs do not depend on what was read of its data. *)
LEMMA TableIdKept ==
  ASSUME NEW c, HasMembers(c), NEW tables, NEW subsets, NEW ends,
         NEW r, r = Bulletin(c, tables, subsets, ends)
  PROVE  TableId(r) = TableId(c) /\ (CanLoad(r) <=> CanLoad(c))
<1>1. \A m \in Members \ {"tables", "subsets", "section_end"} : r[m] = c[m]
  BY BulletinMembers
<1>2. /\ r.originating_centre = c.originating_centre
      /\ r.originating_subcentre = c.originating_subcentre
      /\ r.master_table_number = c.master_table_number
      /\ r.master_table_version_number = c.master_table_version_number
      /\ r.master_table_version_number_local = c.master_table_version_number_local
  BY <1>1, MembersAre
<1> QED BY Zenon, <1>2 DEF TableId, CanLoad

(* What decode_header leaves in the bulletin, and what decode does. *)
LEMMA HeaderAsSent ==
  ASSUME NEW b, NEW style, NEW buf, Got(buf, b, style), Len(buf) >= End4(b, style),
         NEW c, c = Carried(b, style)
  PROVE  /\ Header(buf) = Bulletin(c, TableId(c), <<>>, NoEnds)
         /\ CanLoad(HeaderOf(buf, Sections(buf))) <=> CanLoad(b)
<1>1. HasMembers(b)
  BY DEF Got, IsBulletin
<1>2. HasMembers(c) /\ c.master_table_version_number = b.master_table_version_number
  BY <1>1, CarriedMembers
<1>3. PICK h : h = HeaderOf(buf, Sections(buf))
  OBVIOUS
<1>4. h = Bulletin(c, <<>>, <<>>, NoEnds)
  BY Zenon, <1>3, HeaderRead DEF Bulletin
<1>5. TableId(h) = TableId(c) /\ (CanLoad(h) <=> CanLoad(c))
  BY <1>2, <1>4, TableIdKept
<1>6. CanLoad(c) <=> CanLoad(b)
  BY Zenon, <1>2 DEF CanLoad
<1>7. PICK r, t : t = TableId(c) /\ r = Bulletin(c, t, <<>>, NoEnds)
  OBVIOUS
<1>8. HasMembers(h) /\ h.subsets = <<>> /\ h.section_end = NoEnds
      /\ \A m \in Members \ {"tables", "subsets", "section_end"} : h[m] = c[m]
  BY <1>2, <1>4, BulletinMembers
<1>9. HasMembers(r) /\ r.tables = t /\ r.subsets = <<>> /\ r.section_end = NoEnds
      /\ \A m \in Members \ {"tables", "subsets", "section_end"} : r[m] = c[m]
  BY <1>2, <1>7, BulletinMembers
<1>10. PICK g : g = [h EXCEPT !.tables = t]
  OBVIOUS
<1>11. HasMembers(g) /\ g.tables = t /\ \A m \in Members \ {"tables"} : g[m] = h[m]
  <2>1. DOMAIN h = Members /\ "tables" \in Members
    BY <1>8, MembersAre DEF HasMembers, Members
  <2>2. g = [m \in Members |-> IF m = "tables" THEN t ELSE h[m]]
    BY <1>10, <2>1
  <2>3. g = [m \in Members |-> g[m]]
    BY <2>2
  <2>4. HasMembers(g)
    BY Zenon, <2>3 DEF HasMembers, Members
  <2> QED BY <2>1, <2>2, <2>4
<1>12. g = r
  <2>1. \A m \in Members : g[m] = r[m]
    BY <1>8, <1>9, <1>11, MembersAre
  <2> QED BY Zenon, <2>1, <1>9, <1>11, SameRecord
<1>13. Header(buf) = g
  BY Zenon, <1>3, <1>5, <1>7, <1>10 DEF Header
<1> QED BY Zenon, <1>3, <1>5, <1>6, <1>7, <1>12, <1>13

(* decode makes of a whole message what was sent, less what its edition cannot carry. *)
LEMMA DecodedAsSent ==
  ASSUME NEW b, NEW style, NEW buf, Got(buf, b, style), Len(buf) >= End4(b, style),
         Count3(b) > 0, NEW sec, sec = Sections(buf), NEW c, c = Carried(b, style)
  PROVE  WithData(Header(buf), buf, sec)
           = Bulletin(c, TableId(c), c.subsets, LaidOut(b, style))
<1>1. IsBulletin(b) /\ HasMembers(b) /\ style \in Style
  BY DEF Got, IsBulletin
<1>2. HasMembers(c) /\ c.subsets = SubSeq(b.subsets, 1, Count3(b))
  BY <1>1, CarriedMembers
<1>3. PICK e1 \in Nat, e2 \in Nat, e3 \in Nat, e4 \in Nat :
        /\ e1 = End1(b, style) /\ e2 = End2(b, style)
        /\ e3 = End3(b, style) /\ e4 = End4(b, style)
  BY <1>1, EndsTyped
<1>4. sec = <<0, 8, e1, e2, e3, e4>>
  BY <1>3, SectionsRead
<1>5. /\ sec[2] = 8 /\ sec[3] = e1 /\ sec[4] = e2 /\ sec[5] = e3 /\ sec[6] = e4
  BY <1>4
<1>6. LaidOut(b, style) = <<8, e1, e2, e3, e4, e4 + 4>>
  BY Zenon, <1>1, <1>3, LaidEnds
<1>7. ExpectedSubsets(buf, sec) = Count3(b)
  <2>1. Len(buf) >= End3(b, style)
    <3>1. Len(buf) \in Nat
      BY SectionsLaid
    <3>2. e3 + 4 <= e4
      BY <1>1, <1>3, EndsTyped
    <3> QED BY <3>1, <3>2, <1>3
  <2>2. Number(buf, e2 + 4, 2) = Count3(b)
    BY <1>3, <2>1, FlagsRead
  <2> QED BY Zenon, <1>5, <2>2 DEF ExpectedSubsets
<1>8. SubSeq(buf, e3 + 5, e3 + 4 + Count3(b)) = c.subsets
  BY <1>2, <1>3, DataRead
<1>9. PICK h, t, s, e :
        /\ h = Header(buf) /\ t = TableId(c) /\ s = c.subsets /\ e = LaidOut(b, style)
  OBVIOUS
<1>10. h = Bulletin(c, t, <<>>, NoEnds)
  BY Zenon, <1>9, HeaderAsSent
<1>11. PICK f : f = [subsets |-> s, section_end |-> e]
  OBVIOUS
<1>12. WithData(h, buf, sec) = Over(f, h)
  BY Zenon, <1>5, <1>6, <1>7, <1>8, <1>9, <1>11 DEF WithData
<1>13. HasMembers(h) /\ h.tables = t
       /\ \A m \in Members \ {"tables", "subsets", "section_end"} : h[m] = c[m]
  BY <1>2, <1>10, BulletinMembers
<1>14. PICK r, w : r = Bulletin(c, t, s, e) /\ w = Over(f, h)
  OBVIOUS
<1>15. /\ HasMembers(r) /\ r.tables = t /\ r.subsets = s /\ r.section_end = e
       /\ \A m \in Members \ {"tables", "subsets", "section_end"} : r[m] = c[m]
  BY <1>2, <1>14, BulletinMembers
<1>16. DOMAIN f = {"subsets", "section_end"} /\ f.subsets = s /\ f.section_end = e
  BY <1>11
<1>17. /\ HasMembers(w)
       /\ \A m \in Members : w[m] = IF m \in DOMAIN f THEN f[m] ELSE h[m]
  <2>1. DOMAIN f \subseteq Members
    BY <1>16, MembersAre
  <2> QED BY <2>1, <1>13, <1>14, Overlaid
<1>18. \A m \in Members : w[m] = r[m]
  BY <1>13, <1>15, <1>16, <1>17, MembersAre
<1>19. w = r
  BY Zenon, <1>15, <1>17, <1>18, SameRecord
<1> QED BY Zenon, <1>9, <1>12, <1>14, <1>19

(* What is kept of the optional section is not too long. *)
LEMMA KeptTyped ==
  ASSUME NEW b, IsBulletin(b), NEW style \in Style
  PROVE  Kept2(b, style) \in Seq(Octet) /\ Len(Kept2(b, style)) <= Longest
<1>1. PICK o : o = b.optional_section
  OBVIOUS
<1>2. o \in Seq(Octet) /\ Len(o) <= Longest /\ Len(o) \in Nat
  BY <1>1, SequencesTyped
<1>3. Longest = 1048576
  BY SMT DEF Longest
<1>4. \A n \in Nat : n <= 1048576 => n + (n % 2) <= 1048576
  BY SMT
<1>5. /\ Padded(o) \in Seq(Octet) /\ Len(Padded(o)) <= Longest
  <2>1. Padded(o) \in Seq(Octet) /\ Len(Padded(o)) = Len(o) + (Len(o) % 2)
    BY <1>2, PaddedTyped
  <2> QED BY SMT, <2>1, <1>2, <1>3, <1>4
<1> QED BY SMT, <1>1, <1>2, <1>5 DEF Kept2

(* The year of a two-digit one is between 1951 and 2050. *)
LEMMA GuessedTyped ==
  ASSUME NEW year \in Nat
  PROVE  Guessed(year) \in 1951..2050
<1>1. PICK y : y = year % 100
  OBVIOUS
<1>2. y \in 0..99
  BY <1>1
<1>3. Guessed(year) = IF y > 50 THEN 1900 + y ELSE 2000 + y
  BY <1>1 DEF Guessed
<1> QED BY <1>2, <1>3

(* What a message can carry is a bulletin. *)
LEMMA CarriedTyped ==
  ASSUME NEW b, IsBulletin(b), NEW style \in Style, NEW c, c = Carried(b, style)
  PROVE  IsBulletin(c)
<1>1. HasMembers(b)
  BY DEF IsBulletin
<1>2. HasMembers(c)
  BY <1>1, CarriedMembers
<1>3. HasOctets(c)
  <2>1. /\ b.master_table_number \in Octet /\ b.data_category \in Octet
        /\ b.data_subcategory \in Octet /\ b.data_subcategory_local \in Octet
        /\ b.update_sequence_number \in Octet /\ b.rep_second \in Octet
        /\ b.edition_number \in Octet /\ b.master_table_version_number \in Octet
        /\ b.master_table_version_number_local \in Octet
    BY OctetsTyped
  <2>2. 0 \in Octet /\ 255 \in Octet
    BY SMT DEF Octet
  <2>3. /\ c.master_table_number \in Octet /\ c.data_subcategory \in Octet
        /\ c.rep_second \in Octet
    <3>1. /\ c.master_table_number
                = IF b.edition_number = 4 /\ style = Own THEN 0 ELSE b.master_table_number
          /\ c.data_subcategory = IF b.edition_number = 4 THEN b.data_subcategory ELSE 255
          /\ c.rep_second = IF b.edition_number = 4 THEN b.rep_second ELSE 0
      BY SMT, <1>1, CarriedMembers
    <3> QED BY <3>1, <2>1, <2>2
  <2>4. /\ c.update_sequence_number = b.update_sequence_number
        /\ c.data_category = b.data_category
        /\ c.data_subcategory_local = b.data_subcategory_local
        /\ c.master_table_version_number = b.master_table_version_number
        /\ c.master_table_version_number_local = b.master_table_version_number_local
        /\ c.edition_number = b.edition_number
    BY SMT, <1>1, CarriedMembers
  <2> QED BY SMT, <2>1, <2>3, <2>4 DEF HasOctets
<1>4. HasShorts(c)
  <2>1. /\ b.originating_centre \in Nat /\ b.originating_subcentre \in Nat
        /\ b.rep_year \in Nat /\ b.rep_year <= 65535
    BY SMT, ShortsTyped
  <2>2. \A v \in Nat : v % Wide(b) \in Short
    <3>1. \A v \in Nat : v % 65536 \in Short
      BY SMT DEF Short
    <3>2. \A v \in Nat : v % 256 \in Short
      BY SMT DEF Short
    <3>3. Wide(b) = 65536 \/ Wide(b) = 256
      BY SMT DEF Wide
    <3> QED BY SMT, <3>1, <3>2, <3>3
  <2>3. c.originating_centre \in Short /\ c.originating_subcentre \in Short
    <3>1. /\ c.originating_centre = b.originating_centre % Wide(b)
          /\ c.originating_subcentre = b.originating_subcentre % Wide(b)
      BY SMT, <1>1, CarriedMembers
    <3> QED BY SMT, <3>1, <2>1, <2>2
  <2>4. c.rep_year \in Short
    <3>1. c.rep_year = IF b.edition_number = 4 THEN b.rep_year ELSE Guessed(b.rep_year)
      BY SMT, <1>1, CarriedMembers
    <3>2. Guessed(b.rep_year) \in 1951..2050
      BY SMT, <2>1, GuessedTyped
    <3>3. Guessed(b.rep_year) \in Short
      BY SMT, <3>2 DEF Short
    <3>4. b.rep_year \in Short
      BY SMT, <2>1 DEF Short
    <3> QED BY SMT, <3>1, <3>3, <3>4
  <2> QED BY SMT, <2>3, <2>4 DEF HasShorts
<1>5. HasSequences(c)
  <2>1. /\ b.clock \in Seq(Octet) /\ Len(b.clock) = 4
        /\ b.datadesc \in Seq(Short) /\ Len(b.datadesc) <= Longest
        /\ b.subsets \in Seq(Octet) /\ Len(b.subsets) <= Longest /\ Len(b.subsets) \in Nat
    BY SequencesTyped
  <2>2. c.clock = b.clock /\ c.datadesc = b.datadesc
    BY SMT, <1>1, CarriedMembers
  <2>3. c.optional_section \in Seq(Octet) /\ Len(c.optional_section) <= Longest
    <3>1. c.optional_section = Kept2(b, style)
      BY SMT, <1>1, CarriedMembers
    <3> QED BY Zenon, <3>1, KeptTyped
  <2>4. c.subsets \in Seq(Octet) /\ Len(c.subsets) <= Longest
    <3>1. PICK n, s : n = Count3(b) /\ s = b.subsets
      OBVIOUS
    <3>2. n \in Nat /\ n <= Len(s)
      BY <3>1, CountTyped
    <3>3. c.subsets = SubSeq(s, 1, n)
      BY SMT, <1>1, <3>1, CarriedMembers
    <3>4. s \in Seq(Octet) /\ Len(s) \in Nat
      BY <2>1, <3>1
    <3>5. SubSeq(s, 1, n) \in Seq(Octet) /\ Len(SubSeq(s, 1, n)) = n
      BY <3>2, <3>4
    <3> QED BY SMT, <2>1, <3>1, <3>2, <3>3, <3>5, LongestBounds
  <2> QED BY Zenon, <2>1, <2>2, <2>3, <2>4 DEF HasSequences
<1>6. c.compression \in BOOLEAN
  <2>1. c.compression = style.compression
    BY SMT, <1>1, CarriedMembers
  <2> QED BY <2>1, StyleTyped
<1> QED BY Zenon, <1>2, <1>3, <1>4, <1>5, <1>6 DEF IsBulletin

(* A bulletin with other subsets is a bulletin. *)
LEMMA BulletinTyped ==
  ASSUME NEW c, IsBulletin(c), NEW tables, NEW subsets \in Seq(Octet), Len(subsets) <= Longest,
         NEW ends, NEW r, r = Bulletin(c, tables, subsets, ends)
  PROVE  IsBulletin(r)
<1>1. HasMembers(c)
  BY DEF IsBulletin
<1>2. /\ HasMembers(r) /\ r.subsets = subsets
      /\ \A m \in Members \ {"tables", "subsets", "section_end"} : r[m] = c[m]
  BY <1>1, BulletinMembers
<1>3. HasOctets(r)
  BY <1>2, MembersAre DEF IsBulletin, HasOctets
<1>4. HasShorts(r)
  BY <1>2, MembersAre DEF IsBulletin, HasShorts
<1>5. HasSequences(r)
  <2>1. /\ r.clock = c.clock /\ r.optional_section = c.optional_section
        /\ r.datadesc = c.datadesc
    BY <1>2, MembersAre
  <2> QED BY Zenon, <1>2, <2>1 DEF IsBulletin, HasSequences
<1>6. r.compression \in BOOLEAN
  BY <1>2, MembersAre DEF IsBulletin
<1> QED BY Zenon, <1>2, <1>3, <1>4, <1>5, <1>6 DEF IsBulletin

(***************************************************************************)
(* The invariant.                                                          *)
(***************************************************************************)

Held == {"encoded", "received", "cut", "decoded", "header", "undecoded"}

(* The program's bulletin. *)
BulletinInv ==
  /\ bulletin # None => IsBulletin(bulletin)
  /\ clearing => bulletin # None /\ last = "clearing"
  /\ last \in {"created", "cleared"} => bulletin.subsets = <<>>
  /\ last = "loaded" => CanLoad(bulletin)
  /\ bulletin # None /\ ~clearing => bulletin.subsets = <<>> \/ CanLoad(bulletin)

(* The message: what was written, or the beginning of it. *)
WireInv ==
  sent # None =>
    /\ Got(wire, sent.bulletin, sent.style) /\ CanLoad(sent.bulletin)
    /\ Len(wire) <= Len(Written(sent.bulletin, sent.style))
    /\ Len(wire) = Len(Written(sent.bulletin, sent.style)) =>
         wire = Written(sent.bulletin, sent.style)

(* What a decoder left of what was sent. *)
ReadInv ==
  /\ last \in Held => sent # None
  /\ last = "header" => bulletin = Bulletin(Message, TableId(Message), <<>>, NoEnds)
  /\ last = "decoded" =>
       /\ bulletin = Bulletin(Message, TableId(Message), Message.subsets,
                              LaidOut(sent.bulletin, sent.style))
       /\ Count3(sent.bulletin) > 0
       /\ Len(wire) >= End4(sent.bulletin, sent.style) + 4
  /\ last = "undecoded" =>
       \/ Len(wire) < End4(sent.bulletin, sent.style) + 4
       \/ Count3(sent.bulletin) = 0

(* A bulletin that some message can carry whole. *)
Lasting(b) ==
  Len(b.subsets) < SubsetLimit /\ (b.edition_number # 4 => b.rep_year \in 1951..2050)

RelayInv ==
  relayed => sent # None /\ sent.style = Own /\ Lasting(sent.bulletin)

BulletinsInv == BulletinInv /\ WireInv /\ ReadInv /\ RelayInv /\ ClearedIsFresh

(* A new bulletin is a bulletin. *)
LEMMA FreshTyped == IsBulletin(Fresh)
<1>1. HasMembers(Fresh)
  BY SMT DEF HasMembers, Fresh
<1>2. HasOctets(Fresh)
  <2>1. 0 \in Octet /\ 255 \in Octet /\ 4 \in Octet /\ 19 \in Octet
    BY SMT DEF Octet
  <2>2. /\ Fresh["master_table_number"] = 0 /\ Fresh["data_category"] = 255
        /\ Fresh["data_subcategory"] = 255 /\ Fresh["data_subcategory_local"] = 255
        /\ Fresh["update_sequence_number"] = 0 /\ Fresh["rep_second"] = 0
        /\ Fresh["edition_number"] = 4 /\ Fresh["master_table_version_number"] = 19
        /\ Fresh["master_table_version_number_local"] = 0
    BY SMT DEF Fresh
  <2> QED BY SMT, <2>1, <2>2 DEF HasOctets
<1>3. HasShorts(Fresh)
  <2>1. /\ Fresh["originating_centre"] = 65535 /\ Fresh["originating_subcentre"] = 65535
        /\ Fresh["rep_year"] = 0
    BY SMT DEF Fresh
  <2> QED BY SMT, <2>1 DEF HasShorts, Short
<1>4. HasSequences(Fresh)
  <2>1. 0 \in Octet /\ <<0, 0, 0, 0>> \in Seq(Octet) /\ Len(<<0, 0, 0, 0>>) = 4
    <3>1. 0 \in Octet
      BY SMT DEF Octet
    <3> QED BY <3>1
  <2>2. <<>> \in Seq(Octet) /\ <<>> \in Seq(Short) /\ Len(<<>>) = 0 /\ 0 <= Longest
    BY LongestBounds
  <2>3. Fresh.clock = <<0, 0, 0, 0>> /\ Fresh.optional_section = <<>>
        /\ Fresh.datadesc = <<>> /\ Fresh.subsets = <<>>
    BY SMT DEF Fresh
  <2> QED BY Zenon, <2>1, <2>2, <2>3 DEF HasSequences
<1>5. Fresh.compression \in BOOLEAN
  BY SMT DEF Fresh
<1> QED BY Zenon, <1>1, <1>2, <1>3, <1>4, <1>5 DEF IsBulletin

(* Setting a member leaves the others. *)
LEMMA MemberSet ==
  ASSUME NEW c, HasMembers(c), NEW m \in Members, NEW v, NEW g, g = [c EXCEPT ![m] = v]
  PROVE  HasMembers(g) /\ g[m] = v /\ \A k \in Members \ {m} : g[k] = c[k]
<1>1. DOMAIN c = Members
  BY DEF HasMembers, Members
<1>2. g = [k \in Members |-> IF k = m THEN v ELSE c[k]]
  BY <1>1
<1>3. g = [k \in Members |-> g[k]]
  BY <1>2
<1>4. HasMembers(g)
  BY Zenon, <1>3 DEF HasMembers, Members
<1> QED BY <1>2, <1>4

Filled == {"tables", "subsets", "datadesc", "section_end", "edition_number"}

(* A bulletin of which the members that calls fill were replaced. *)
LEMMA TypedFrom ==
  ASSUME NEW c, IsBulletin(c), NEW g, HasMembers(g),
         \A m \in Members \ Filled : g[m] = c[m],
         g.edition_number \in Octet,
         g.datadesc \in Seq(Short), Len(g.datadesc) <= Longest,
         g.subsets \in Seq(Octet), Len(g.subsets) <= Longest
  PROVE  IsBulletin(g)
<1>1. HasOctets(g)
  BY MembersAre DEF IsBulletin, HasOctets, Filled
<1>2. HasShorts(g)
  BY MembersAre DEF IsBulletin, HasShorts, Filled
<1>3. HasSequences(g)
  <2>1. g.clock = c.clock /\ g.optional_section = c.optional_section
    BY MembersAre DEF Filled
  <2> QED BY Zenon, <2>1 DEF IsBulletin, HasSequences
<1>4. g.compression \in BOOLEAN
  BY MembersAre DEF IsBulletin, Filled
<1> QED BY Zenon, <1>1, <1>2, <1>3, <1>4 DEF IsBulletin

Blank ==
  [master_table_number |-> 0, data_category |-> 255, data_subcategory |-> 255,
   data_subcategory_local |-> 255, originating_centre |-> 65535,
   originating_subcentre |-> 65535, update_sequence_number |-> 0, rep_year |-> 0,
   clock |-> <<0, 0, 0, 0>>, rep_second |-> 0, tables |-> <<>>, datadesc |-> <<>>,
   subsets |-> <<>>, edition_number |-> 4, master_table_version_number |-> 19,
   master_table_version_number_local |-> 0, compression |-> FALSE,
   optional_section |-> <<>>]

(* What clear sets, and to what. *)
LEMMA BlankMembers ==
  /\ DOMAIN Blank = Members \ {"section_end"}
  /\ \A m \in Members \ {"section_end"} : Blank[m] = Fresh[m]
<1>1. DOMAIN Blank = Members \ {"section_end"}
  BY SMT, MembersAre DEF Blank
<1>2. /\ Blank["master_table_number"] = Fresh["master_table_number"]
      /\ Blank["data_category"] = Fresh["data_category"]
      /\ Blank["data_subcategory"] = Fresh["data_subcategory"]
      /\ Blank["data_subcategory_local"] = Fresh["data_subcategory_local"]
      /\ Blank["originating_centre"] = Fresh["originating_centre"]
      /\ Blank["originating_subcentre"] = Fresh["originating_subcentre"]
      /\ Blank["update_sequence_number"] = Fresh["update_sequence_number"]
      /\ Blank["rep_year"] = Fresh["rep_year"] /\ Blank["clock"] = Fresh["clock"]
      /\ Blank["rep_second"] = Fresh["rep_second"] /\ Blank["tables"] = Fresh["tables"]
      /\ Blank["datadesc"] = Fresh["datadesc"] /\ Blank["subsets"] = Fresh["subsets"]
      /\ Blank["edition_number"] = Fresh["edition_number"]
      /\ Blank["master_table_version_number"] = Fresh["master_table_version_number"]
      /\ Blank["master_table_version_number_local"]
           = Fresh["master_table_version_number_local"]
      /\ Blank["compression"] = Fresh["compression"]
      /\ Blank["optional_section"] = Fresh["optional_section"]
  BY SMT DEF Blank, Fresh
<1> QED BY SMT, <1>1, <1>2, MembersAre

(* clear makes all members new ones but the ends of sections. *)
LEMMA ClearedMembers ==
  ASSUME NEW b, HasMembers(b), NEW c, c = Cleared(b)
  PROVE  /\ HasMembers(c) /\ c.section_end = b.section_end
         /\ \A m \in Members \ {"section_end"} : c[m] = Fresh[m]
<1>1. c = Over(Blank, b)
  BY SMT DEF Cleared, Blank
<1>2. DOMAIN Blank \subseteq Members
  BY Zenon, BlankMembers
<1>3. HasMembers(c) /\ \A m \in Members : c[m] = IF m \in DOMAIN Blank THEN Blank[m] ELSE b[m]
  BY <1>1, <1>2, Overlaid
<1>4. "section_end" \in Members
  BY MembersAre
<1> QED BY <1>3, <1>4, BlankMembers

(* What clear leaves is a bulletin. *)
LEMMA ClearedTyped ==
  ASSUME NEW b, HasMembers(b), NEW c, c = Cleared(b)
  PROVE  IsBulletin(c) /\ c.subsets = <<>>
<1>1. HasMembers(c) /\ \A m \in Members \ {"section_end"} : c[m] = Fresh[m]
  BY ClearedMembers
<1>2. /\ c.edition_number = Fresh.edition_number /\ c.datadesc = Fresh.datadesc
      /\ c.subsets = Fresh.subsets
  BY <1>1, MembersAre
<1>3. \A m \in Members \ Filled : c[m] = Fresh[m]
  BY <1>1 DEF Filled
<1>4. IsBulletin(Fresh) /\ Fresh.subsets = <<>>
  BY FreshTyped DEF Fresh
<1>5. Fresh.edition_number \in Octet
  BY <1>4, OctetsTyped
<1>6. /\ Fresh.datadesc \in Seq(Short) /\ Len(Fresh.datadesc) <= Longest
      /\ Fresh.subsets \in Seq(Octet) /\ Len(Fresh.subsets) <= Longest
  BY <1>4, SequencesTyped
<1> QED BY Zenon, <1>1, <1>2, <1>3, <1>4, <1>5, <1>6, TypedFrom

(* What is there is there in a cut as far as that goes. *)
LEMMA PlacedCut ==
  ASSUME NEW buf \in Seq(Octet), NEW n \in Nat, n <= Len(buf), NEW cut, cut = SubSeq(buf, 1, n),
         NEW pos \in Nat, NEW s, Len(s) \in Nat, Placed(buf, pos, s)
  PROVE  Placed(cut, pos, s)
<1>1. cut \in Seq(Octet) /\ Len(cut) = n /\ \A i \in 1..n : cut[i] = buf[i]
  BY SubSeqProperties
<1> QED BY <1>1 DEF Placed

(* A message that was cut is the beginning of what was written. *)
LEMMA GotCut ==
  ASSUME NEW b, NEW style, NEW buf, Got(buf, b, style), NEW n \in Nat, n <= Len(buf),
         NEW cut, cut = SubSeq(buf, 1, n)
  PROVE  Got(cut, b, style) /\ Len(cut) = n
<1>1. /\ IsBulletin(b) /\ Encodable(b) /\ style \in Style /\ Holds(buf, b, style)
  BY DEF Got
<1>2. PICK s1, s2, s3, s4, e, t, l :
        /\ s1 = Written1(b, style) /\ s2 = Written2(b, style)
        /\ s3 = Written3(b, style) /\ s4 = Written4(b, style)
        /\ e = b.edition_number /\ t = End4(b, style) + 4 /\ l = Octets(End4(b, style) + 4, 3)
  OBVIOUS
<1>3. /\ s1 \in Seq(Octet) /\ s2 \in Seq(Octet) /\ s3 \in Seq(Octet) /\ s4 \in Seq(Octet)
  BY SMT, <1>1, <1>2, SectionLengths
<1>4. /\ Len(s1) \in Nat /\ Len(s2) \in Nat /\ Len(s3) \in Nat /\ Len(s4) \in Nat
      /\ Len(Bufr) \in Nat /\ Len(Sevens) \in Nat /\ Len(<<e>>) \in Nat
  BY <1>3, FixedTyped
<1>5. Len(l) \in Nat
  <2>1. End4(b, style) + 4 \in Long
    BY <1>1, EndsTyped
  <2>2. l \in Seq(Octet)
    BY Zenon, <2>1, <1>2, LengthOctets
  <2> QED BY <2>2
<1>6. buf \in Seq(Octet) /\ LaidIn(buf, e, t, s1, s2, s3, s4)
  BY Zenon, <1>1, <1>2 DEF Holds
<1>7. /\ Placed(buf, 0, Bufr) /\ Placed(buf, 4, l) /\ Placed(buf, 7, <<e>>)
      /\ Placed(buf, 8, s1) /\ Placed(buf, 8 + Len(s1), s2)
      /\ Placed(buf, 8 + Len(s1) + Len(s2), s3)
      /\ Placed(buf, 8 + Len(s1) + Len(s2) + Len(s3), s4)
      /\ Placed(buf, 8 + Len(s1) + Len(s2) + Len(s3) + Len(s4), Sevens)
  BY Zenon, <1>2, <1>6 DEF LaidIn
<1>8. /\ 0 \in Nat /\ 4 \in Nat /\ 7 \in Nat /\ 8 \in Nat /\ 8 + Len(s1) \in Nat
      /\ 8 + Len(s1) + Len(s2) \in Nat /\ 8 + Len(s1) + Len(s2) + Len(s3) \in Nat
      /\ 8 + Len(s1) + Len(s2) + Len(s3) + Len(s4) \in Nat
  BY <1>4
<1>9. /\ Placed(cut, 0, Bufr) /\ Placed(cut, 4, l) /\ Placed(cut, 7, <<e>>)
      /\ Placed(cut, 8, s1) /\ Placed(cut, 8 + Len(s1), s2)
  BY Zenon, <1>4, <1>5, <1>6, <1>7, <1>8, PlacedCut
<1>10. /\ Placed(cut, 8 + Len(s1) + Len(s2), s3)
       /\ Placed(cut, 8 + Len(s1) + Len(s2) + Len(s3), s4)
       /\ Placed(cut, 8 + Len(s1) + Len(s2) + Len(s3) + Len(s4), Sevens)
  BY Zenon, <1>4, <1>6, <1>7, <1>8, PlacedCut
<1>11. LaidIn(cut, e, t, s1, s2, s3, s4)
  BY Zenon, <1>2, <1>9, <1>10 DEF LaidIn
<1>12. cut \in Seq(Octet) /\ Len(cut) = n
  BY <1>6, SubSeqProperties
<1> QED BY Zenon, <1>1, <1>2, <1>11, <1>12 DEF Got, Holds

(* What was written is got whole. *)
LEMMA GotWhole ==
  ASSUME NEW b, IsBulletin(b), Encodable(b), NEW style \in Style, NEW w, w = Written(b, style)
  PROVE  Got(w, b, style)
<1>1. w \in Seq(Octet) /\ (Placed(w, 0, w) => Holds(w, b, style))
  BY WrittenLaid
<1>2. Placed(w, 0, w)
  BY <1>1, PlacedSelf
<1> QED BY <1>1, <1>2 DEF Got

(* Setting the subsets leaves the other members. *)
LEMMA SubsetsSet ==
  ASSUME NEW c, HasMembers(c), NEW v, NEW g, g = [c EXCEPT !.subsets = v]
  PROVE  HasMembers(g) /\ g.subsets = v /\ \A k \in Members \ {"subsets"} : g[k] = c[k]
<1>1. PICK m : m = "subsets"
  OBVIOUS
<1>2. m \in Members
  BY <1>1, MembersAre
<1>3. g = [c EXCEPT ![m] = v]
  BY <1>1
<1>4. HasMembers(g) /\ g[m] = v /\ \A k \in Members \ {m} : g[k] = c[k]
  BY <1>2, <1>3, MemberSet
<1> QED BY <1>1, <1>4

(* Setting the tables leaves the other members. *)
LEMMA TablesSet ==
  ASSUME NEW c, HasMembers(c), NEW v, NEW g, g = [c EXCEPT !.tables = v]
  PROVE  HasMembers(g) /\ g.tables = v /\ \A k \in Members \ {"tables"} : g[k] = c[k]
<1>1. PICK m : m = "tables"
  OBVIOUS
<1>2. m \in Members
  BY <1>1, MembersAre
<1>3. g = [c EXCEPT ![m] = v]
  BY <1>1
<1>4. HasMembers(g) /\ g[m] = v /\ \A k \in Members \ {m} : g[k] = c[k]
  BY <1>2, <1>3, MemberSet
<1> QED BY <1>1, <1>4

(* Setting the edition leaves the other members. *)
LEMMA EditionSet ==
  ASSUME NEW c, HasMembers(c), NEW v, NEW g, g = [c EXCEPT !.edition_number = v]
  PROVE  HasMembers(g) /\ g.edition_number = v /\ \A k \in Members \ {"edition_number"} : g[k] = c[k]
<1>1. PICK m : m = "edition_number"
  OBVIOUS
<1>2. m \in Members
  BY <1>1, MembersAre
<1>3. g = [c EXCEPT ![m] = v]
  BY <1>1
<1>4. HasMembers(g) /\ g[m] = v /\ \A k \in Members \ {m} : g[k] = c[k]
  BY <1>2, <1>3, MemberSet
<1> QED BY <1>1, <1>4

(* Setting the ends of sections leaves the other members. *)
LEMMA EndsSet ==
  ASSUME NEW c, HasMembers(c), NEW v, NEW g, g = [c EXCEPT !.section_end = v]
  PROVE  HasMembers(g) /\ g.section_end = v /\ \A k \in Members \ {"section_end"} : g[k] = c[k]
<1>1. PICK m : m = "section_end"
  OBVIOUS
<1>2. m \in Members
  BY <1>1, MembersAre
<1>3. g = [c EXCEPT ![m] = v]
  BY <1>1
<1>4. HasMembers(g) /\ g[m] = v /\ \A k \in Members \ {m} : g[k] = c[k]
  BY <1>2, <1>3, MemberSet
<1> QED BY <1>1, <1>4

(* A bulletin is not the lack of one. *)
LEMMA NotNone ==
  ASSUME NEW b, HasMembers(b)
  PROVE  b # None
<1>1. DOMAIN b = Members /\ "tables" \in Members
  BY MembersAre DEF HasMembers, Members
<1>2. DOMAIN None = {}
  BY SMT DEF None
<1> QED BY Zenon, <1>1, <1>2

(* The count that is written is below the limit, where it wraps. *)
LEMMA CountBelow ==
  ASSUME NEW b, IsBulletin(b)
  PROVE  Count3(b) < SubsetLimit
<1>1. Len(b.subsets) \in Nat
  BY SequencesTyped
<1>2. SubsetLimit \in Nat /\ SubsetLimit > 0
  BY SMT, SectionsAssumption
<1> QED BY Zenon, <1>1, <1>2, ModBounds DEF Count3

(* What a message is decoded to. *)
LEMMA DecodedLasting ==
  ASSUME NEW b, IsBulletin(b), NEW style \in Style, NEW c, c = Carried(b, style),
         NEW tables, NEW ends, NEW r, r = Bulletin(c, tables, c.subsets, ends)
  PROVE  IsBulletin(r) /\ Lasting(r) /\ (CanLoad(r) <=> CanLoad(b))
<1>1. IsBulletin(c) /\ HasMembers(c) /\ HasMembers(b)
  BY CarriedTyped DEF IsBulletin
<1>2. c.subsets \in Seq(Octet) /\ Len(c.subsets) <= Longest
  BY <1>1, SequencesTyped
<1>3. IsBulletin(r)
  BY <1>1, <1>2, BulletinTyped
<1>4. r.subsets = c.subsets /\ r.edition_number = c.edition_number /\ r.rep_year = c.rep_year
      /\ r.master_table_version_number = c.master_table_version_number
  BY <1>1, BulletinMembers, MembersAre
<1>5. c.subsets = SubSeq(b.subsets, 1, Count3(b))
  BY <1>1, CarriedMembers
<1>6. Len(c.subsets) = Count3(b) /\ Count3(b) < SubsetLimit
  <2>1. b.subsets \in Seq(Octet)
    BY SequencesTyped
  <2>2. Count3(b) \in Nat /\ Count3(b) <= Len(b.subsets)
    BY CountTyped
  <2> QED BY <1>5, <2>1, <2>2, CountBelow, SubSeqProperties
<1>7. c.edition_number # 4 => c.rep_year \in 1951..2050
  <2>1. c.rep_year = IF b.edition_number = 4 THEN b.rep_year ELSE Guessed(b.rep_year)
    BY <1>1, CarriedMembers
  <2>2. c.edition_number = b.edition_number
    BY <1>1, CarriedMembers
  <2>3. b.rep_year \in Nat
    BY ShortsTyped
  <2>4. Guessed(b.rep_year) \in 1951..2050
    BY <2>3, GuessedTyped
  <2> QED BY SMT, <2>1, <2>2, <2>4
<1>8. Lasting(r)
  BY <1>4, <1>6, <1>7 DEF Lasting
<1>9. c.master_table_version_number = b.master_table_version_number
  BY <1>1, CarriedMembers
<1> QED BY <1>3, <1>4, <1>8, <1>9 DEF CanLoad

(* What decode_header makes of a message is a bulletin. *)
LEMMA HeaderTyped ==
  ASSUME NEW b, IsBulletin(b), NEW style \in Style, NEW c, c = Carried(b, style),
         NEW tables, NEW ends, NEW r, r = Bulletin(c, tables, <<>>, ends)
  PROVE  IsBulletin(r) /\ r.subsets = <<>>
<1>1. IsBulletin(c) /\ HasMembers(c)
  BY CarriedTyped DEF IsBulletin
<1>2. <<>> \in Seq(Octet) /\ Len(<<>>) <= Longest
  BY LongestBounds
<1>3. IsBulletin(r)
  BY <1>1, <1>2, BulletinTyped
<1>4. r.subsets = <<>>
  BY <1>1, BulletinMembers
<1> QED BY <1>3, <1>4

(***************************************************************************)
(* The steps.                                                              *)
(***************************************************************************)

(* There is nothing to say of the initial state. *)
LEMMA InvStarts == Init => BulletinsInv
BY DEF Init, BulletinsInv, BulletinInv, WireInv, ReadInv, RelayInv, ClearedIsFresh, Held

(* What was sent and what is on the wire go together. *)
LEMMA SameWire ==
  BulletinsInv /\ UNCHANGED <<wire, sent>> => WireInv'
BY Zenon DEF BulletinsInv, WireInv

(* What was relayed and what was sent go together. *)
LEMMA SameRelay ==
  BulletinsInv /\ UNCHANGED <<sent, relayed>> => RelayInv'
BY Zenon DEF BulletinsInv, RelayInv

(* After a call that reads nothing there is nothing to say of what was read. *)
LEMMA NothingRead ==
  last' \notin Held => ReadInv'
BY DEF ReadInv, Held

(* The constructor keeps the invariant. *)
LEMMA CreateKeeps ==
  ASSUME BulletinsInv, Create
  PROVE  BulletinsInv'
<1>1. BulletinInv'
  <2>1. bulletin' = Fresh /\ clearing' = clearing /\ last' = "created" /\ bulletin = None
    BY DEF Create
  <2>2. ~clearing
    BY <2>1 DEF BulletinsInv, BulletinInv
  <2>3. IsBulletin(Fresh) /\ Fresh.subsets = <<>>
    BY FreshTyped DEF Fresh
  <2> QED BY Zenon, <2>1, <2>2, <2>3 DEF BulletinInv
<1>2. WireInv' /\ RelayInv' /\ ReadInv'
  BY SameWire, SameRelay, NothingRead DEF Create, Held
<1>3. ClearedIsFresh'
  BY DEF Create, ClearedIsFresh
<1> QED BY <1>1, <1>2, <1>3 DEF BulletinsInv

(* What is known of a bulletin that a call may be made on. *)
LEMMA Had ==
  ASSUME BulletinsInv, Free
  PROVE  IsBulletin(bulletin) /\ HasMembers(bulletin) /\ bulletin # None /\ ~clearing
         /\ (bulletin.subsets = <<>> \/ CanLoad(bulletin))
BY DEF BulletinsInv, BulletinInv, Free, IsBulletin

(* clear, which first frees the infos, keeps the invariant. *)
LEMMA ClearTablesKeeps ==
  ASSUME BulletinsInv, ClearTables
  PROVE  BulletinsInv'
<1>1. BulletinInv'
  <2>1. IsBulletin(bulletin) /\ HasMembers(bulletin)
    BY Had DEF ClearTables
  <2>2. PICK c : c = Cleared(bulletin)
    OBVIOUS
  <2>3. IsBulletin(c) /\ HasMembers(c)
    BY <2>1, <2>2, ClearedTyped DEF IsBulletin
  <2>4. bulletin' = [c EXCEPT !.subsets = bulletin.subsets]
    BY <2>2 DEF ClearTables
  <2>6. HasMembers(bulletin') /\ (bulletin').subsets = bulletin.subsets
        /\ \A k \in Members \ {"subsets"} : (bulletin')[k] = c[k]
    BY <2>3, <2>4, SubsetsSet
  <2>7. /\ bulletin.subsets \in Seq(Octet) /\ Len(bulletin.subsets) <= Longest
        /\ c.datadesc \in Seq(Short) /\ Len(c.datadesc) <= Longest
    BY <2>1, <2>3, SequencesTyped
  <2>8. c.edition_number \in Octet
    BY <2>3, OctetsTyped
  <2>9. /\ (bulletin').edition_number = c.edition_number
        /\ (bulletin').datadesc = c.datadesc /\ (bulletin').subsets = bulletin.subsets
        /\ \A k \in Members \ Filled : (bulletin')[k] = c[k]
    BY <2>6, MembersAre DEF Filled
  <2>10. IsBulletin(bulletin')
    BY Zenon, <2>3, <2>6, <2>7, <2>8, <2>9, TypedFrom
  <2>11. bulletin' # None
    BY <2>6, NotNone
  <2>12. last' = "clearing" /\ clearing' = TRUE
    BY DEF ClearTables
  <2> QED BY Zenon, <2>10, <2>11, <2>12 DEF BulletinInv
<1>2. WireInv' /\ RelayInv'
  BY DEF ClearTables, WireInv, RelayInv
<1>3. ReadInv' /\ ClearedIsFresh'
  BY NothingRead DEF ClearTables, ClearedIsFresh, Held
<1> QED BY <1>1, <1>2, <1>3 DEF BulletinsInv

(* The rest of clear keeps the invariant. *)
LEMMA ClearSubsetsKeeps ==
  ASSUME BulletinsInv, ClearSubsets
  PROVE  BulletinsInv'
<1>1. clearing /\ bulletin' = Cleared(bulletin) /\ clearing' = FALSE /\ last' = "cleared"
  BY DEF ClearSubsets
<1>2. IsBulletin(bulletin) /\ HasMembers(bulletin)
  BY <1>1 DEF BulletinsInv, BulletinInv, IsBulletin
<1>3. IsBulletin(bulletin') /\ (bulletin').subsets = <<>>
  BY Zenon, <1>1, <1>2, ClearedTyped
<1>4. BulletinInv'
  BY Zenon, <1>1, <1>3 DEF BulletinInv
<1>5. ClearedIsFresh'
  <2>1. /\ HasMembers(bulletin') /\ bulletin'["section_end"] = bulletin["section_end"]
        /\ \A m \in Members \ {"section_end"} : (bulletin')[m] = Fresh[m]
    BY Zenon, <1>1, <1>2, ClearedMembers
  <2>2. PICK f : f = [Fresh EXCEPT !.section_end = (bulletin').section_end]
    OBVIOUS
  <2>3. HasMembers(Fresh) /\ "section_end" \in Members
    BY FreshTyped, MembersAre DEF IsBulletin
  <2>4. HasMembers(f) /\ f.section_end = (bulletin').section_end
        /\ \A m \in Members \ {"section_end"} : f[m] = Fresh[m]
    BY <2>2, <2>3, EndsSet
  <2>5. \A m \in Members : (bulletin')[m] = f[m]
    BY Zenon, <2>1, <2>4
  <2>6. bulletin' = f
    BY Zenon, <2>1, <2>4, <2>5, SameRecord
  <2> QED BY <2>2, <2>6 DEF ClearedIsFresh
<1>6. WireInv' /\ RelayInv' /\ ReadInv'
  BY SameWire, SameRelay, NothingRead DEF ClearSubsets, Held
<1> QED BY <1>4, <1>5, <1>6 DEF BulletinsInv

(* An action that leaves the message alone and does not read or clear. *)
LEMMA ProgramKeeps ==
  ASSUME BulletinsInv, BulletinInv', UNCHANGED <<wire, sent, relayed>>,
         last' \in {"created", "changed", "loaded", "refused", "filled"}
  PROVE  BulletinsInv'
<1>1. last' \notin Held /\ last' # "cleared"
  BY DEF Held
<1>2. WireInv' /\ RelayInv' /\ ReadInv'
  BY <1>1, SameWire, SameRelay, NothingRead
<1>3. ClearedIsFresh'
  BY <1>1 DEF ClearedIsFresh
<1> QED BY <1>2, <1>3 DEF BulletinsInv

(* Setting members of the header keeps the invariant. *)
LEMMA SetHeaderKeeps ==
  ASSUME BulletinsInv, NEW header \in Headers, SetHeader(header)
  PROVE  BulletinsInv'
<1>1. IsBulletin(bulletin) /\ HasMembers(bulletin) /\ ~clearing
  BY Had DEF SetHeader
<1>2. bulletin.subsets = <<>>
  BY <1>1 DEF SetHeader, BulletinsInv, BulletinInv
<1>3. IsBulletin(header) /\ HasMembers(header)
  BY ProgramsAssumption DEF IsBulletin
<1>4. PICK f : f = [tables |-> bulletin.tables, datadesc |-> bulletin.datadesc,
                    subsets |-> bulletin.subsets, section_end |-> bulletin.section_end]
  OBVIOUS
<1>5. PICK g : g = bulletin'
  OBVIOUS
<1>6. g = Over(f, header)
  BY <1>4, <1>5 DEF SetHeader
<1>7. DOMAIN f = {"tables", "datadesc", "subsets", "section_end"}
  BY <1>4
<1>8. f["datadesc"] = bulletin.datadesc /\ f["subsets"] = <<>>
  BY <1>2, <1>4
<1> HIDE <1>4
<1>9. DOMAIN f \subseteq Members
  BY <1>7, MembersAre
<1>10. HasMembers(g) /\ \A m \in Members : g[m] = IF m \in DOMAIN f THEN f[m] ELSE header[m]
  BY <1>3, <1>6, <1>9, Overlaid
<1>11. \A m \in (Members \ Filled) \cup {"edition_number"} : m \in Members /\ m \notin DOMAIN f
  BY <1>7, MembersAre DEF Filled
<1>12. /\ \A m \in Members \ Filled : g[m] = header[m]
       /\ g.edition_number = header.edition_number
  BY Zenon, <1>10, <1>11
<1>13. g.datadesc = bulletin.datadesc /\ g.subsets = <<>>
  BY <1>7, <1>8, <1>10, MembersAre
<1>14. header.edition_number \in Octet
  BY <1>3, OctetsTyped
<1>15. bulletin.datadesc \in Seq(Short) /\ Len(bulletin.datadesc) <= Longest
  BY <1>1, SequencesTyped
<1>16. <<>> \in Seq(Octet) /\ Len(<<>>) <= Longest
  BY LongestBounds
<1>17. IsBulletin(g)
  BY Zenon, <1>3, <1>10, <1>12, <1>13, <1>14, <1>15, <1>16, TypedFrom
<1>18. clearing' = clearing /\ last' = "changed"
  BY DEF SetHeader
<1>19. BulletinInv'
  BY Zenon, <1>1, <1>5, <1>13, <1>17, <1>18 DEF BulletinInv
<1> QED BY <1>18, <1>19, ProgramKeeps DEF SetHeader

(* Changing the edition keeps the invariant. *)
LEMMA ConvertKeeps ==
  ASSUME BulletinsInv, NEW edition \in 3..5, Convert(edition)
  PROVE  BulletinsInv'
<1>1. IsBulletin(bulletin) /\ HasMembers(bulletin) /\ ~clearing
      /\ (bulletin.subsets = <<>> \/ CanLoad(bulletin))
  BY Had DEF Convert
<1>2. PICK g : g = bulletin'
  OBVIOUS
<1>3. g = [bulletin EXCEPT !.edition_number = edition]
  BY <1>2 DEF Convert
<1>4. HasMembers(g) /\ g.edition_number = edition
      /\ \A k \in Members \ {"edition_number"} : g[k] = bulletin[k]
  BY <1>1, <1>3, EditionSet
<1>5. /\ \A m \in Members \ Filled : g[m] = bulletin[m]
      /\ g.datadesc = bulletin.datadesc /\ g.subsets = bulletin.subsets
      /\ g.master_table_version_number = bulletin.master_table_version_number
  BY <1>4, MembersAre DEF Filled
<1>6. edition \in Octet
  BY SMT DEF Octet
<1>7. /\ bulletin.datadesc \in Seq(Short) /\ Len(bulletin.datadesc) <= Longest
      /\ bulletin.subsets \in Seq(Octet) /\ Len(bulletin.subsets) <= Longest
  BY <1>1, SequencesTyped
<1>8. IsBulletin(g)
  BY Zenon, <1>1, <1>4, <1>5, <1>6, <1>7, TypedFrom
<1>9. CanLoad(g) <=> CanLoad(bulletin)
  BY <1>5 DEF CanLoad
<1>10. clearing' = clearing /\ last' = "changed"
  BY DEF Convert
<1>11. BulletinInv'
  BY Zenon, <1>1, <1>2, <1>5, <1>8, <1>9, <1>10 DEF BulletinInv
<1> QED BY <1>10, <1>11, ProgramKeeps DEF Convert

(* load_tables keeps the invariant. *)
LEMMA LoadTablesKeeps ==
  ASSUME BulletinsInv, LoadTables
  PROVE  BulletinsInv'
<1>1. IsBulletin(bulletin) /\ HasMembers(bulletin) /\ ~clearing
      /\ (bulletin.subsets = <<>> \/ CanLoad(bulletin))
  BY Had DEF LoadTables
<1>2. clearing' = clearing /\ UNCHANGED <<wire, sent, relayed>>
  BY DEF LoadTables
<1>3. CASE CanLoad(bulletin)
  <2>1. PICK g : g = bulletin'
    OBVIOUS
  <2>2. g = [bulletin EXCEPT !.tables = TableId(bulletin)]
    BY <1>3, <2>1 DEF LoadTables
  <2>3. HasMembers(g) /\ \A k \in Members \ {"tables"} : g[k] = bulletin[k]
    BY <1>1, <2>2, TablesSet
  <2>4. /\ \A m \in Members \ Filled : g[m] = bulletin[m]
        /\ g.datadesc = bulletin.datadesc /\ g.subsets = bulletin.subsets
        /\ g.master_table_version_number = bulletin.master_table_version_number
        /\ g.edition_number = bulletin.edition_number
    BY <2>3, MembersAre DEF Filled
  <2>5. bulletin.edition_number \in Octet
    BY <1>1, OctetsTyped
  <2>6. /\ bulletin.datadesc \in Seq(Short) /\ Len(bulletin.datadesc) <= Longest
        /\ bulletin.subsets \in Seq(Octet) /\ Len(bulletin.subsets) <= Longest
    BY <1>1, SequencesTyped
  <2>7. IsBulletin(g)
    BY Zenon, <1>1, <2>3, <2>4, <2>5, <2>6, TypedFrom
  <2>8. CanLoad(g)
    BY <1>3, <2>4 DEF CanLoad
  <2>9. last' = "loaded"
    BY <1>3 DEF LoadTables
  <2>10. BulletinInv'
    BY Zenon, <1>1, <1>2, <2>1, <2>7, <2>8, <2>9 DEF BulletinInv
  <2> QED BY <1>2, <2>9, <2>10, ProgramKeeps
<1>4. CASE ~CanLoad(bulletin)
  <2>1. bulletin' = bulletin /\ last' = "refused"
    BY <1>4 DEF LoadTables
  <2>2. BulletinInv'
    BY Zenon, <1>1, <1>2, <2>1 DEF BulletinInv
  <2> QED BY <1>2, <2>1, <2>2, ProgramKeeps
<1> QED BY <1>3, <1>4

(* Filling descriptors and subsets keeps the invariant. *)
LEMMA FillKeeps ==
  ASSUME BulletinsInv, NEW datadesc \in DataDescs, NEW subsets \in Subsets,
         Fill(datadesc, subsets)
  PROVE  BulletinsInv'
<1>1. IsBulletin(bulletin) /\ HasMembers(bulletin) /\ ~clearing
  BY Had DEF Fill
<1>2. CanLoad(bulletin)
  BY <1>1 DEF Fill, BulletinsInv, BulletinInv
<1>3. PICK f : f = [datadesc |-> datadesc, subsets |-> subsets]
  OBVIOUS
<1>4. PICK g : g = bulletin'
  OBVIOUS
<1>5. g = Over(f, bulletin)
  BY <1>3, <1>4 DEF Fill
<1>6. DOMAIN f = {"datadesc", "subsets"} /\ f["datadesc"] = datadesc /\ f["subsets"] = subsets
  BY <1>3
<1> HIDE <1>3
<1>7. DOMAIN f \subseteq Members
  BY <1>6, MembersAre
<1>8. HasMembers(g) /\ \A m \in Members : g[m] = IF m \in DOMAIN f THEN f[m] ELSE bulletin[m]
  BY <1>1, <1>5, <1>7, Overlaid
<1>9. \A m \in (Members \ Filled) \cup {"edition_number", "master_table_version_number"} :
         m \in Members /\ m \notin DOMAIN f
  BY <1>6, MembersAre DEF Filled
<1>10. /\ \A m \in Members \ Filled : g[m] = bulletin[m]
       /\ g.edition_number = bulletin.edition_number
       /\ g.master_table_version_number = bulletin.master_table_version_number
  BY Zenon, <1>8, <1>9
<1>11. g.datadesc = datadesc /\ g.subsets = subsets
  BY <1>6, <1>8, MembersAre
<1>12. bulletin.edition_number \in Octet
  BY <1>1, OctetsTyped
<1>13. /\ datadesc \in Seq(Short) /\ Len(datadesc) <= Longest
       /\ subsets \in Seq(Octet) /\ Len(subsets) <= Longest
  BY Zenon, ProgramsAssumption
<1>14. IsBulletin(g)
  BY Zenon, <1>1, <1>8, <1>10, <1>11, <1>12, <1>13, TypedFrom
<1>15. CanLoad(g)
  BY <1>2, <1>10 DEF CanLoad
<1>16. clearing' = clearing /\ last' = "filled"
  BY DEF Fill
<1>17. BulletinInv'
  BY Zenon, <1>1, <1>4, <1>14, <1>15, <1>16 DEF BulletinInv
<1> QED BY <1>16, <1>17, ProgramKeeps DEF Fill

(* The message is new, and the bulletin is that it was written from. *)
LEMMA WrittenKeeps ==
  ASSUME BulletinsInv, Free, Encodable(bulletin), NEW style \in Style,
         wire' = Written(bulletin, style), sent' = [bulletin |-> bulletin, style |-> style]
  PROVE  WireInv'
<1>1. IsBulletin(bulletin) /\ (bulletin.subsets = <<>> \/ CanLoad(bulletin))
  BY Had
<1>2. CanLoad(bulletin)
  BY <1>1 DEF Encodable
<1>3. (sent').bulletin = bulletin /\ (sent').style = style
  OBVIOUS
<1>4. PICK w : w = wire'
  OBVIOUS
<1>5. w = Written(bulletin, style)
  BY <1>4
<1>6. Got(w, bulletin, style)
  BY Zenon, <1>1, <1>5, GotWhole
<1>7. w \in Seq(Octet)
  BY Zenon, <1>6 DEF Got, Holds
<1>8. Len(w) <= Len(w)
  BY <1>7
<1> QED BY Zenon, <1>2, <1>3, <1>4, <1>5, <1>6, <1>8 DEF WireInv

(* encode keeps the invariant: what is on the wire was written from the bulletin. *)
LEMMA EncodeKeeps ==
  ASSUME BulletinsInv, EncodeCall
  PROVE  BulletinsInv'
<1>1. Free /\ UNCHANGED <<bulletin, clearing>>
  BY DEF EncodeCall
<1>2. IsBulletin(bulletin) /\ ~clearing /\ (bulletin.subsets = <<>> \/ CanLoad(bulletin))
  BY <1>1, Had
<1>3. CASE Encodable(bulletin)
  <2>1. /\ wire' = Encode(bulletin) /\ sent' = [bulletin |-> bulletin, style |-> Own]
        /\ relayed' = (last = "decoded") /\ last' = "encoded"
    BY <1>3 DEF EncodeCall
  <2>2. Own \in Style /\ wire' = Written(bulletin, Own)
    BY <2>1, OwnStyle DEF Written
  <2>3. WireInv'
    BY Zenon, <1>1, <1>3, <2>1, <2>2, WrittenKeeps
  <2>4. BulletinInv'
    BY Zenon, <1>1, <1>2, <2>1 DEF BulletinInv
  <2>5. ReadInv' /\ ClearedIsFresh'
    <3>1. sent' # None
      BY SMT, <2>1 DEF None
    <3> QED BY <2>1, <3>1 DEF ReadInv, ClearedIsFresh
  <2>6. RelayInv'
    <3>1. (sent').bulletin = bulletin /\ (sent').style = Own /\ sent' # None
      BY <2>1 DEF None
    <3>2. ASSUME last = "decoded" PROVE Lasting(bulletin)
      <4>1. sent # None /\ bulletin = Bulletin(Message, TableId(Message), Message.subsets,
                                                LaidOut(sent.bulletin, sent.style))
        BY <3>2 DEF BulletinsInv, ReadInv, Held
      <4>2. Got(wire, sent.bulletin, sent.style)
        BY <4>1 DEF BulletinsInv, WireInv
      <4>3. IsBulletin(sent.bulletin) /\ sent.style \in Style
        BY Zenon, <4>2 DEF Got
      <4>4. PICK c : c = Carried(sent.bulletin, sent.style)
        OBVIOUS
      <4>5. PICK ends : ends = LaidOut(sent.bulletin, sent.style)
        OBVIOUS
      <4>6. bulletin = Bulletin(c, TableId(c), c.subsets, ends)
        BY Zenon, <4>1, <4>4, <4>5 DEF Message
      <4> QED BY <4>3, <4>4, <4>6, DecodedLasting
    <3> QED BY Zenon, <2>1, <3>1, <3>2 DEF RelayInv
  <2> QED BY <2>3, <2>4, <2>5, <2>6 DEF BulletinsInv
<1>4. CASE ~Encodable(bulletin)
  <2>1. last' = "refused" /\ UNCHANGED <<wire, sent, relayed>>
    BY <1>4 DEF EncodeCall
  <2>2. BulletinInv'
    BY Zenon, <1>1, <1>2, <2>1 DEF BulletinInv
  <2> QED BY <2>1, <2>2, ProgramKeeps
<1> QED BY <1>3, <1>4

(* Another program that sends the same keeps the invariant. *)
LEMMA ReceiveKeeps ==
  ASSUME BulletinsInv, NEW style \in Styles, Receive(style)
  PROVE  BulletinsInv'
<1>1. /\ Free /\ last = "filled" /\ Encodable(bulletin)
      /\ wire' = Foreign(bulletin, style) /\ sent' = [bulletin |-> bulletin, style |-> style]
      /\ relayed' = FALSE /\ last' = "received" /\ UNCHANGED <<bulletin, clearing>>
  BY DEF Receive
<1>2. IsBulletin(bulletin) /\ ~clearing /\ (bulletin.subsets = <<>> \/ CanLoad(bulletin))
  BY <1>1, Had
<1>3. style \in Style /\ style # Own
  BY Zenon, ProgramsAssumption
<1>4. wire' = Written(bulletin, style)
  BY Zenon, <1>1, <1>3 DEF Written
<1>5. WireInv'
  BY Zenon, <1>1, <1>3, <1>4, WrittenKeeps
<1>6. BulletinInv'
  BY Zenon, <1>1, <1>2 DEF BulletinInv
<1>7. ReadInv' /\ ClearedIsFresh' /\ RelayInv'
  <2>1. sent' # None
    BY SMT, <1>1 DEF None
  <2> QED BY <1>1, <2>1 DEF ReadInv, ClearedIsFresh, RelayInv
<1> QED BY <1>5, <1>6, <1>7 DEF BulletinsInv

(* A message cut short keeps the invariant. *)
LEMMA CutKeeps ==
  ASSUME BulletinsInv, NEW n \in 0..Len(wire), Cut(n)
  PROVE  BulletinsInv'
<1>1. /\ Free /\ last \in {"encoded", "received"} /\ n < Len(wire)
      /\ wire' = SubSeq(wire, 1, n) /\ last' = "cut"
      /\ UNCHANGED <<bulletin, clearing, sent, relayed>>
  BY DEF Cut
<1>2. IsBulletin(bulletin) /\ ~clearing /\ (bulletin.subsets = <<>> \/ CanLoad(bulletin))
  BY <1>1, Had
<1>3. sent # None
  BY <1>1 DEF BulletinsInv, ReadInv, Held
<1>4. PICK b : b = sent.bulletin
  OBVIOUS
<1>5. PICK style : style = sent.style
  OBVIOUS
<1>6. PICK cut : cut = wire'
  OBVIOUS
<1>7. /\ Got(wire, b, style) /\ CanLoad(b) /\ Len(wire) <= Len(Written(b, style))
  BY <1>3, <1>4, <1>5 DEF BulletinsInv, WireInv
<1>8. wire \in Seq(Octet)
  BY Zenon, <1>7 DEF Got, Holds
<1>9. Len(Written(b, style)) \in Nat
  BY <1>7, WrittenLaid DEF Got
<1>10. n \in Nat /\ n < Len(wire) /\ cut = SubSeq(wire, 1, n)
  BY <1>1, <1>6, <1>8
<1>11. Got(cut, b, style) /\ Len(cut) = n
  <2>1. PICK buf : buf = wire
    OBVIOUS
  <2>2. Got(buf, b, style) /\ n \in Nat /\ n <= Len(buf) /\ cut = SubSeq(buf, 1, n)
    BY <1>7, <1>8, <1>10, <2>1
  <2>3. Got(SubSeq(buf, 1, n), b, style)
    BY Zenon, <2>2, GotCut
  <2>4. Len(SubSeq(buf, 1, n)) = n
    BY <1>7, <1>8, <2>1, <2>2, SubSeqProperties
  <2> QED BY Zenon, <2>2, <2>3, <2>4
<1>12. Len(cut) < Len(Written(b, style))
  BY <1>7, <1>8, <1>9, <1>10, <1>11
<1>13. (sent').bulletin = b /\ (sent').style = style
  BY <1>1, <1>4, <1>5
<1>14. Len(cut) <= Len(Written(b, style)) /\ Len(cut) # Len(Written(b, style))
  BY <1>9, <1>10, <1>11, <1>12
<1>15. WireInv'
  BY Zenon, <1>6, <1>7, <1>11, <1>13, <1>14 DEF WireInv
<1>16. BulletinInv'
  BY Zenon, <1>1, <1>2 DEF BulletinInv
<1>17. ReadInv' /\ ClearedIsFresh'
  BY <1>1, <1>3 DEF ReadInv, ClearedIsFresh
<1>18. RelayInv'
  BY <1>1, SameRelay
<1> QED BY <1>15, <1>16, <1>17, <1>18 DEF BulletinsInv

(* What a decoder has before it. *)
LEMMA Arrived ==
  ASSUME BulletinsInv, CanDecode
  PROVE  /\ sent # None /\ Got(wire, sent.bulletin, sent.style) /\ CanLoad(sent.bulletin)
         /\ IsBulletin(sent.bulletin) /\ sent.style \in Style
         /\ Len(wire) \in Nat /\ End4(sent.bulletin, sent.style) \in Nat
<1>1. sent # None
  BY DEF CanDecode, BulletinsInv, ReadInv, Held
<1>2. Got(wire, sent.bulletin, sent.style) /\ CanLoad(sent.bulletin)
  BY <1>1 DEF BulletinsInv, WireInv
<1>3. IsBulletin(sent.bulletin) /\ sent.style \in Style /\ Holds(wire, sent.bulletin, sent.style)
  BY Zenon, <1>2 DEF Got
<1>4. wire \in Seq(Octet)
  BY Zenon, <1>3 DEF Holds
<1>5. End4(sent.bulletin, sent.style) \in Nat
  BY <1>3, EndsTyped
<1> QED BY <1>1, <1>2, <1>3, <1>4, <1>5

(* The header is whole when the message is, down to section 4; and there are tables for it, as
   there were for what it was written from. *)
LEMMA HeaderAccepted ==
  ASSUME BulletinsInv, CanDecode
  PROVE  (HeaderWhole(wire) /\ CanLoad(HeaderOf(wire, Sections(wire))))
           <=> Len(wire) >= End4(sent.bulletin, sent.style)
<1>1. Got(wire, sent.bulletin, sent.style) /\ CanLoad(sent.bulletin)
  BY Arrived
<1>2. HeaderWhole(wire) <=> Len(wire) >= End4(sent.bulletin, sent.style)
  BY Zenon, <1>1, HeaderWholeRead
<1>3. ASSUME Len(wire) >= End4(sent.bulletin, sent.style)
      PROVE  CanLoad(HeaderOf(wire, Sections(wire)))
  BY Zenon, <1>1, <1>3, HeaderAsSent
<1> QED BY Zenon, <1>2, <1>3

(* A decoding that throws keeps the invariant: the message was not whole, or empty. *)
LEMMA RefuseKeeps ==
  ASSUME BulletinsInv, CanDecode, Refuse,
         Len(wire) < End4(sent.bulletin, sent.style) + 4 \/ Count3(sent.bulletin) = 0
  PROVE  BulletinsInv'
<1>1. /\ last' = "undecoded" /\ UNCHANGED <<bulletin, clearing, infos, wire, sent, relayed>>
  BY DEF Refuse
<1>2. IsBulletin(bulletin) /\ ~clearing /\ (bulletin.subsets = <<>> \/ CanLoad(bulletin))
  BY Had DEF CanDecode
<1>3. BulletinInv'
  BY Zenon, <1>1, <1>2 DEF BulletinInv
<1>4. WireInv' /\ RelayInv'
  BY <1>1, SameWire, SameRelay
<1>5. sent # None
  BY Arrived
<1>6. ReadInv'
  BY Zenon, <1>1, <1>5 DEF ReadInv
<1>7. ClearedIsFresh'
  BY <1>1 DEF ClearedIsFresh
<1> QED BY <1>3, <1>4, <1>6, <1>7 DEF BulletinsInv

(* decode_header keeps the invariant. *)
LEMMA DecodeHeaderKeeps ==
  ASSUME BulletinsInv, DecodeHeader
  PROVE  BulletinsInv'
<1> DEFINE accepted == HeaderWhole(wire) /\ CanLoad(HeaderOf(wire, Sections(wire)))
<1>1. CanDecode
  BY DEF DecodeHeader
<1>2. PICK b : b = sent.bulletin
  OBVIOUS
<1>3. PICK style : style = sent.style
  OBVIOUS
<1>4. sent # None /\ Got(wire, b, style) /\ IsBulletin(b) /\ style \in Style
      /\ Len(wire) \in Nat /\ End4(b, style) \in Nat
  BY <1>1, <1>2, <1>3, Arrived
<1>5. accepted <=> Len(wire) >= End4(b, style)
  BY <1>1, <1>2, <1>3, HeaderAccepted
<1>6. CASE accepted
  <2>1. bulletin' = Header(wire) /\ last' = "header" /\ UNCHANGED <<clearing, wire, sent, relayed>>
    BY <1>6 DEF DecodeHeader
  <2>2. PICK c : c = Carried(b, style)
    OBVIOUS
  <2>3. bulletin' = Bulletin(c, TableId(c), <<>>, NoEnds)
    BY Zenon, <1>4, <1>5, <1>6, <2>1, <2>2, HeaderAsSent
  <2>4. IsBulletin(bulletin') /\ (bulletin').subsets = <<>>
    BY <1>4, <2>2, <2>3, HeaderTyped
  <2>5. BulletinInv'
    <3>1. ~clearing
      BY <1>1, Had DEF CanDecode
    <3> QED BY Zenon, <2>1, <2>4, <3>1 DEF BulletinInv
  <2>6. Message' = c
    BY Zenon, <1>2, <1>3, <2>1, <2>2 DEF Message
  <2>7. ReadInv'
    BY Zenon, <1>4, <2>1, <2>3, <2>6 DEF ReadInv
  <2>8. WireInv' /\ RelayInv'
    BY <2>1, SameWire, SameRelay
  <2>9. ClearedIsFresh'
    BY <2>1 DEF ClearedIsFresh
  <2> QED BY <2>5, <2>7, <2>8, <2>9 DEF BulletinsInv
<1>7. CASE ~accepted
  <2>1. Refuse
    BY <1>7 DEF DecodeHeader
  <2>2. Len(wire) < End4(b, style) + 4
    BY <1>4, <1>5, <1>7
  <2> QED BY Zenon, <1>1, <1>2, <1>3, <2>1, <2>2, RefuseKeeps
<1> QED BY <1>6, <1>7

(* decode keeps the invariant. *)
LEMMA DecodeKeeps ==
  ASSUME BulletinsInv, Decode
  PROVE  BulletinsInv'
<1> DEFINE accepted == HeaderWhole(wire) /\ CanLoad(HeaderOf(wire, Sections(wire)))
<1>1. CanDecode
  BY DEF Decode
<1>2. PICK b : b = sent.bulletin
  OBVIOUS
<1>3. PICK style : style = sent.style
  OBVIOUS
<1>4. sent # None /\ Got(wire, b, style) /\ IsBulletin(b) /\ style \in Style /\ CanLoad(b)
      /\ Len(wire) \in Nat /\ End4(b, style) \in Nat
  BY <1>1, <1>2, <1>3, Arrived
<1>5. accepted <=> Len(wire) >= End4(b, style)
  BY <1>1, <1>2, <1>3, HeaderAccepted
<1>6. CASE ~accepted
  <2>1. Refuse
    BY <1>6 DEF Decode
  <2>2. Len(wire) < End4(b, style) + 4
    BY <1>4, <1>5, <1>6
  <2> QED BY Zenon, <1>1, <1>2, <1>3, <2>1, <2>2, RefuseKeeps
<1>7. CASE accepted
  <2>1. PICK sec : sec = Sections(wire)
    OBVIOUS
  <2>2. Len(wire) >= End4(b, style)
    BY Zenon, <1>5, <1>7
  <2>3. sec = <<0, 8, End1(b, style), End2(b, style), End3(b, style), End4(b, style)>>
    BY Zenon, <1>4, <2>1, <2>2, SectionsRead
  <2>4. sec[4] = End2(b, style) /\ sec[5] = End3(b, style) /\ sec[6] = End4(b, style)
    BY <2>3
  <2>5. ExpectedSubsets(wire, sec) = Count3(b)
    <3>1. Len(wire) >= End3(b, style)
      BY <1>4, <2>2, EndsTyped
    <3>2. Number(wire, sec[4] + 4, 2) = Count3(b)
      BY <1>4, <2>4, <3>1, FlagsRead
    <3> QED BY Zenon, <3>2 DEF ExpectedSubsets
  <2>6. DataWhole(wire, sec)
    <3>1. sec[5] + 4 + Count3(b) <= Len(wire)
      BY <1>4, <2>2, <2>4, DataRead
    <3> QED BY Zenon, <2>5, <3>1 DEF DataWhole
  <2>7. EndWhole(wire, sec) <=> Len(wire) >= End4(b, style) + 4
    BY Zenon, <1>4, <2>4, EndRead
  <2>8. Count3(b) \in Nat
    BY <1>4, CountTyped
  <2>9. CASE Count3(b) > 0 /\ Len(wire) >= End4(b, style) + 4
    <3>1. /\ bulletin' = WithData(Header(wire), wire, sec) /\ last' = "decoded"
          /\ UNCHANGED <<clearing, wire, sent, relayed>>
      BY Zenon, <1>7, <2>1, <2>5, <2>6, <2>7, <2>9 DEF Decode
    <3>2. PICK c : c = Carried(b, style)
      OBVIOUS
    <3>3. bulletin' = Bulletin(c, TableId(c), c.subsets, LaidOut(b, style))
      BY Zenon, <1>4, <2>1, <2>2, <2>9, <3>1, <3>2, DecodedAsSent
    <3>4. IsBulletin(bulletin') /\ (CanLoad(bulletin') <=> CanLoad(b))
      <4>1. PICK ends : ends = LaidOut(b, style)
        OBVIOUS
      <4>2. bulletin' = Bulletin(c, TableId(c), c.subsets, ends)
        BY Zenon, <3>3, <4>1
      <4> QED BY <1>4, <3>2, <4>2, DecodedLasting
    <3>5. BulletinInv'
      <4>1. ~clearing
        BY <1>1, Had DEF CanDecode
      <4> QED BY Zenon, <1>4, <3>1, <3>4, <4>1 DEF BulletinInv
    <3>6. Message' = c
      BY Zenon, <1>2, <1>3, <3>1, <3>2 DEF Message
    <3>7. ReadInv'
      BY Zenon, <1>2, <1>3, <1>4, <2>9, <3>1, <3>3, <3>6 DEF ReadInv
    <3>8. WireInv' /\ RelayInv'
      BY <3>1, SameWire, SameRelay
    <3>9. ClearedIsFresh'
      BY <3>1 DEF ClearedIsFresh
    <3> QED BY <3>5, <3>7, <3>8, <3>9 DEF BulletinsInv
  <2>10. CASE ~(Count3(b) > 0 /\ Len(wire) >= End4(b, style) + 4)
    <3>1. Refuse
      BY Zenon, <1>7, <2>1, <2>5, <2>6, <2>7, <2>10 DEF Decode
    <3>2. Len(wire) < End4(b, style) + 4 \/ Count3(b) = 0
      BY <1>4, <2>8, <2>10
    <3> QED BY Zenon, <1>1, <1>2, <1>3, <3>1, <3>2, RefuseKeeps
  <2> QED BY <2>9, <2>10
<1> QED BY <1>6, <1>7

(* A step that changes nothing keeps the invariant. *)
LEMMA SameKeeps ==
  ASSUME BulletinsInv, UNCHANGED vars
  PROVE  BulletinsInv'
<1>1. UNCHANGED <<bulletin, clearing, wire, sent, relayed, last>>
  BY DEF vars
<1>2. Message' = Message
  BY Zenon, <1>1 DEF Message
<1>3. BulletinInv' /\ ClearedIsFresh'
  BY Zenon, <1>1 DEF BulletinsInv, BulletinInv, ClearedIsFresh
<1>4. WireInv' /\ RelayInv'
  BY <1>1, SameWire, SameRelay
<1>5. ReadInv'
  BY Zenon, <1>1, <1>2 DEF BulletinsInv, ReadInv
<1> QED BY <1>3, <1>4, <1>5 DEF BulletinsInv

(* Every step keeps the invariant. *)
LEMMA InvKept == BulletinsInv /\ [Next]_vars => BulletinsInv'
<1> SUFFICES ASSUME BulletinsInv, [Next]_vars PROVE BulletinsInv'
  OBVIOUS
<1>1. CASE Create
  BY <1>1, CreateKeeps
<1>2. CASE ClearTables
  BY <1>2, ClearTablesKeeps
<1>3. CASE ClearSubsets
  BY <1>3, ClearSubsetsKeeps
<1>4. CASE LoadTables
  BY <1>4, LoadTablesKeeps
<1>5. CASE EncodeCall
  BY <1>5, EncodeKeeps
<1>6. CASE \E header \in Headers : SetHeader(header)
  BY <1>6, SetHeaderKeeps
<1>7. CASE \E edition \in 3..5 : Convert(edition)
  BY <1>7, ConvertKeeps
<1>8. CASE \E datadesc \in DataDescs, subsets \in Subsets : Fill(datadesc, subsets)
  BY <1>8, FillKeeps
<1>9. CASE \E style \in Styles : Receive(style)
  BY <1>9, ReceiveKeeps
<1>10. CASE \E n \in 0..Len(wire) : Cut(n)
  BY <1>10, CutKeeps
<1>11. CASE DecodeHeader
  BY <1>11, DecodeHeaderKeeps
<1>12. CASE Decode
  BY <1>12, DecodeKeeps
<1>13. CASE UNCHANGED vars
  BY <1>13, SameKeeps
<1> QED
  BY <1>1, <1>2, <1>3, <1>4, <1>5, <1>6, <1>7, <1>8, <1>9, <1>10, <1>11, <1>12, <1>13
     DEF Next

(* bulletin.cc, bufr/decoder.cc, bufr/bufr_encoder.cc: the members of a bulletin keep their
   widths, and what the last call left is known from the message that was written. *)
THEOREM BulletinsInvariant == Spec => []BulletinsInv
BY InvStarts, InvKept, PTL DEF Spec

(***************************************************************************)
(* What the invariant says of the properties that are checked.             *)
(***************************************************************************)

(* bulletin.cc, bufr/decoder.cc, bufr/bufr_encoder.cc: what is decoded is what was written, less
   what an edition or this library cannot carry; of every bulletin whose members have the widths
   of bulletin.h, in every style, cut or whole. *)
THEOREM DecodedAsWritten == Spec => []ReadsBack
<1>1. BulletinsInv => ReadsBack
  BY DEF BulletinsInv, ReadInv, ReadsBack, Bulletin
<1> QED BY <1>1, BulletinsInvariant, PTL

(* bulletin.cc: clear leaves nothing of the last message but the ends of its sections. *)
THEOREM ClearedAsNew == Spec => []ClearedIsFresh
<1>1. BulletinsInv => ClearedIsFresh
  BY DEF BulletinsInv
<1> QED BY <1>1, BulletinsInvariant, PTL

(* bufr/decoder.cc, bufr/input.cc: no proper beginning of a message is decoded, and every whole
   message is, wherever other programs put their spare octets. *)
THEOREM WholeIsDecoded == Spec => []DecodesWhole
<1>1. ASSUME BulletinsInv PROVE DecodesWhole
  <2>1. CASE last \in {"decoded", "undecoded"}
    <3>1. PICK b : b = sent.bulletin
      OBVIOUS
    <3>2. PICK style : style = sent.style
      OBVIOUS
    <3>3. sent # None
      BY <1>1, <2>1 DEF BulletinsInv, ReadInv, Held
    <3>4. Got(wire, b, style)
      BY <1>1, <3>1, <3>2, <3>3 DEF BulletinsInv, WireInv
    <3>5. IsBulletin(b) /\ style \in Style /\ Holds(wire, b, style)
      BY Zenon, <3>4 DEF Got
    <3>6. wire \in Seq(Octet)
      BY Zenon, <3>5 DEF Holds
    <3>7. Len(wire) \in Nat /\ End4(b, style) \in Nat
      BY <3>5, <3>6, EndsTyped
    <3>8. End4(b, style) >= 26
      BY <3>5, EndsTyped
    <3>9. Len(wire) >= 8 => Number(wire, 4, 3) = End4(b, style) + 4
      BY <3>5, LeadRead
    <3>10. last = "decoded" => Len(wire) >= End4(b, style) + 4
      BY <1>1, <3>1, <3>2 DEF BulletinsInv, ReadInv
    <3>11. last = "undecoded" => Len(wire) < End4(b, style) + 4 \/ Count3(b) = 0
      BY <1>1, <3>1, <3>2 DEF BulletinsInv, ReadInv
    <3>12. last = "decoded" => Len(wire) >= 8 /\ Len(wire) >= Number(wire, 4, 3)
      BY <3>7, <3>8, <3>9, <3>10
    <3>13. last = "undecoded" =>
             ~(Len(wire) >= 8 /\ Len(wire) >= Number(wire, 4, 3))
               \/ Len(sent.bulletin.subsets) % SubsetLimit = 0
      <4>1. Len(wire) < End4(b, style) + 4 => ~(Len(wire) >= End4(b, style) + 4)
        BY <3>7
      <4> QED BY Zenon, <3>1, <3>9, <3>11, <4>1 DEF Count3
    <3> QED BY Zenon, <3>12, <3>13 DEF DecodesWhole
  <2>2. CASE last \notin {"decoded", "undecoded"}
    BY <2>2 DEF DecodesWhole
  <2> QED BY <2>1, <2>2
<1> QED BY <1>1, BulletinsInvariant, PTL

(***************************************************************************)
(* What is written a second time.                                          *)
(***************************************************************************)

(* What was padded is not padded again. *)
LEMMA PaddedOnce ==
  ASSUME NEW s \in Seq(Octet), NEW p, p = Padded(s)
  PROVE  Padded(p) = p /\ (p = <<>> <=> s = <<>>)
<1>1. p \in Seq(Octet) /\ Len(p) = Len(s) + (Len(s) % 2) /\ Len(s) \in Nat
  BY PaddedTyped
<1>2. Len(p) % 2 # 1
  BY <1>1
<1>3. Padded(p) = p
  BY Zenon, <1>2 DEF Padded
<1>4. (p = <<>> <=> Len(p) = 0) /\ (s = <<>> <=> Len(s) = 0)
  BY <1>1, EmptySeq
<1>5. Len(p) = 0 <=> Len(s) = 0
  BY <1>1
<1> QED BY <1>3, <1>4, <1>5

(* Fewer subsets than the limit are all kept. *)
LEMMA WholeKept ==
  ASSUME NEW s \in Seq(Octet), Len(s) < SubsetLimit
  PROVE  SubSeq(s, 1, Len(s) % SubsetLimit) = s
<1>1. SubsetLimit \in Nat /\ Len(s) \in Nat
  BY SMT, SectionsAssumption
<1>2. Len(s) % SubsetLimit = Len(s)
  BY <1>1
<1>3. SubSeq(s, 1, Len(s)) = s
  BY SubSeqProperties, SeqEqual
<1> QED BY <1>2, <1>3

(* The low octet of a low octet. *)
LEMMA LowOnce ==
  ASSUME NEW v \in Nat
  PROVE  (v % 256) % 256 = v % 256
OBVIOUS

(* A year that was guessed is guessed again. *)
LEMMA GuessedKept ==
  ASSUME NEW year \in 1951..2050
  PROVE  Guessed(year) = year
<1>1. CASE year < 2000
  <2>1. year % 100 = year - 1900
    BY <1>1
  <2> QED BY <1>1, <2>1 DEF Guessed
<1>2. CASE year >= 2000
  <2>1. year % 100 = year - 2000
    BY <1>2
  <2> QED BY <1>2, <2>1 DEF Guessed
<1> QED BY <1>1, <1>2

(* Section 1 of an old edition depends on low octets only. *)
LEMMA SameEd3 ==
  ASSUME NEW b, NEW r, r.master_table_number = b.master_table_number,
         r.originating_subcentre % 256 = b.originating_subcentre % 256,
         r.originating_centre % 256 = b.originating_centre % 256,
         r.update_sequence_number = b.update_sequence_number, HasOptional(r) = HasOptional(b),
         r.data_category = b.data_category,
         r.data_subcategory_local = b.data_subcategory_local,
         r.master_table_version_number = b.master_table_version_number,
         r.master_table_version_number_local = b.master_table_version_number_local,
         r.rep_year = b.rep_year, r.clock = b.clock
  PROVE  Sec1ed3(r) = Sec1ed3(b)
<1>1. PICK m : m =
    <<b.master_table_number, b.originating_subcentre % 256, b.originating_centre % 256,
      b.update_sequence_number, HasOptional(b), b.data_category,
      b.data_subcategory_local, b.master_table_version_number,
      b.master_table_version_number_local, YearOfCentury(b.rep_year)>>
  OBVIOUS
<1>2. m = <<r.master_table_number, r.originating_subcentre % 256,
        r.originating_centre % 256, r.update_sequence_number, HasOptional(r),
        r.data_category, r.data_subcategory_local, r.master_table_version_number,
        r.master_table_version_number_local, YearOfCentury(r.rep_year)>>
  BY <1>1
<1>3. PICK k : k = <<(b.rep_year \div 100) % 256>>
  OBVIOUS
<1>4. k = <<(r.rep_year \div 100) % 256>>
  BY <1>3
<1>5. PICK h : h = Octets(18, 3)
  OBVIOUS
<1>6. Sec1ed3(b) = h \o m \o b.clock \o k
  BY Zenon, <1>1, <1>3, <1>5 DEF Sec1ed3
<1>7. Sec1ed3(r) = h \o m \o r.clock \o k
  BY Zenon, <1>2, <1>4, <1>5 DEF Sec1ed3
<1> QED BY Zenon, <1>6, <1>7

(* A bulletin that was decoded, when the one it was written from was decoded too. *)
LEMMA WrittenOnce ==
  ASSUME NEW b, IsBulletin(b), Lasting(b), NEW c, c = Carried(b, Own),
         NEW tables, NEW ends, NEW r, r = Bulletin(c, tables, c.subsets, ends)
  PROVE  Encode(r) = Encode(b)
<1>1. HasMembers(b) /\ HasMembers(c)
  BY CarriedMembers DEF IsBulletin
<1>2. /\ r.edition_number = b.edition_number
      /\ r.update_sequence_number = b.update_sequence_number
      /\ r.data_category = b.data_category
      /\ r.data_subcategory_local = b.data_subcategory_local
      /\ r.master_table_version_number = b.master_table_version_number
      /\ r.master_table_version_number_local = b.master_table_version_number_local
      /\ r.clock = b.clock /\ r.datadesc = b.datadesc
  <2>1. \A m \in Members \ {"tables", "subsets", "section_end"} : r[m] = c[m]
    BY <1>1, BulletinMembers
  <2>2. /\ r.edition_number = c.edition_number
        /\ r.update_sequence_number = c.update_sequence_number
        /\ r.data_category = c.data_category
        /\ r.data_subcategory_local = c.data_subcategory_local
        /\ r.master_table_version_number = c.master_table_version_number
        /\ r.master_table_version_number_local = c.master_table_version_number_local
        /\ r.clock = c.clock /\ r.datadesc = c.datadesc
    BY <2>1, MembersAre
  <2> QED BY <1>1, <2>2, CarriedMembers
<1>3. /\ r.master_table_number = c.master_table_number
      /\ r.originating_centre = c.originating_centre
      /\ r.originating_subcentre = c.originating_subcentre
      /\ r.data_subcategory = c.data_subcategory /\ r.rep_second = c.rep_second
      /\ r.rep_year = c.rep_year /\ r.optional_section = c.optional_section
      /\ r.subsets = c.subsets
  BY <1>1, BulletinMembers, MembersAre
<1>4. r.subsets = b.subsets
  <2>1. c.subsets = SubSeq(b.subsets, 1, Len(b.subsets) % SubsetLimit)
    BY <1>1, CarriedMembers DEF Count3
  <2>2. b.subsets \in Seq(Octet) /\ Len(b.subsets) < SubsetLimit
    BY SequencesTyped DEF Lasting
  <2> QED BY Zenon, <1>3, <2>1, <2>2, WholeKept
<1>5. PICK o : o = b.optional_section
  OBVIOUS
<1>6. r.optional_section = Padded(o) /\ o \in Seq(Octet)
  <2>1. c.optional_section = Kept2(b, Own)
    BY <1>1, CarriedMembers
  <2> QED BY <1>3, <1>5, <2>1, OwnStyle, SequencesTyped DEF Kept2
<1>7. Padded(r.optional_section) = Padded(o)
      /\ (r.optional_section = <<>> <=> o = <<>>)
  BY Zenon, <1>6, PaddedOnce
<1>8. HasOptional(r) = HasOptional(b)
  BY <1>5, <1>7 DEF HasOptional
<1>9. Sec2(r) = Sec2(b)
  BY Zenon, <1>5, <1>7 DEF Sec2
<1>10. Sec3(r) = Sec3(b)
  BY Zenon, <1>2, <1>4 DEF Sec3
<1>11. Sec4(r) = Sec4(b)
  BY Zenon, <1>4 DEF Sec4
<1>12. b.originating_centre \in Nat /\ b.originating_centre <= 65535
       /\ b.originating_subcentre \in Nat /\ b.originating_subcentre <= 65535
  BY ShortsTyped
<1>13. CASE b.edition_number = 4
  <2>1. c.originating_centre = b.originating_centre % 65536
        /\ c.originating_subcentre = b.originating_subcentre % 65536
    BY SMT, <1>1, <1>13, CarriedMembers DEF Wide
  <2>2. b.originating_centre % 65536 = b.originating_centre
        /\ b.originating_subcentre % 65536 = b.originating_subcentre
    BY SMT, <1>12, CentreKept
  <2>3. r.originating_centre = b.originating_centre
        /\ r.originating_subcentre = b.originating_subcentre
    BY SMT, <1>3, <2>1, <2>2
  <2> HIDE <1>12, <2>1, <2>2
  <2>4. r.data_subcategory = b.data_subcategory /\ r.rep_second = b.rep_second
        /\ r.rep_year = b.rep_year
    BY <1>1, <1>3, <1>13, CarriedMembers
  <2>5. Sec1ed4(r) = Sec1ed4(b)
    BY Zenon, <1>2, <1>8, <2>3, <2>4 DEF Sec1ed4
  <2>6. Sec1(r) = Sec1(b)
    BY Zenon, <1>2, <1>13, <2>5 DEF Sec1
  <2> QED BY Zenon, <1>2, <1>9, <1>10, <1>11, <2>6 DEF Encode, Assembled
<1>14. CASE b.edition_number # 4
  <2>1. c.originating_centre = b.originating_centre % 256
        /\ c.originating_subcentre = b.originating_subcentre % 256
    BY SMT, <1>1, <1>14, CarriedMembers DEF Wide
  <2>2. r.originating_centre % 256 = b.originating_centre % 256
        /\ r.originating_subcentre % 256 = b.originating_subcentre % 256
    BY SMT, <1>3, <1>12, <2>1, LowOnce
  <2>3. r.master_table_number = b.master_table_number
    BY <1>1, <1>3, <1>14, CarriedMembers
  <2>4. r.rep_year = b.rep_year
    <3>1. r.rep_year = Guessed(b.rep_year)
      BY <1>1, <1>3, <1>14, CarriedMembers
    <3>2. b.rep_year \in 1951..2050
      BY <1>14 DEF Lasting
    <3> QED BY <3>1, <3>2, GuessedKept
  <2>5. Sec1ed3(r) = Sec1ed3(b)
    BY <1>2, <1>8, <2>2, <2>3, <2>4, SameEd3
  <2>6. Sec1(r) = Sec1(b)
    BY Zenon, <1>2, <1>14, <2>5 DEF Sec1
  <2> QED BY Zenon, <1>2, <1>9, <1>10, <1>11, <2>6 DEF Encode, Assembled
<1> QED BY <1>13, <1>14

(* bulletin.cc, bufr/bufr_encoder.cc: a message that was decoded and encoded again is a fixed
   point of decoding and encoding: no relay after the first one changes an octet. *)
THEOREM RelaySettles == Spec => []Settled
<1>1. ASSUME BulletinsInv PROVE Settled
  <2>1. SUFFICES ASSUME last = "decoded", relayed PROVE Encode(bulletin) = wire
    BY DEF Settled
  <2>2. PICK b : b = sent.bulletin
    OBVIOUS
  <2>3. sent # None /\ sent.style = Own /\ Lasting(b)
    BY <1>1, <2>1, <2>2 DEF BulletinsInv, RelayInv
  <2>4. /\ Got(wire, b, Own) /\ Len(wire) <= Len(Written(b, Own))
        /\ Len(wire) = Len(Written(b, Own)) => wire = Written(b, Own)
    BY <1>1, <2>2, <2>3 DEF BulletinsInv, WireInv
  <2>5. IsBulletin(b) /\ Own \in Style /\ Holds(wire, b, Own)
    BY Zenon, <2>4 DEF Got
  <2>6. wire = Encode(b)
    <3>1. Len(wire) >= End4(b, Own) + 4
      BY <1>1, <2>1, <2>2, <2>3 DEF BulletinsInv, ReadInv
    <3>2. Len(Written(b, Own)) = End4(b, Own) + 4
      <4>1. Len(Written(b, Own)) = End4(b, Own) + 4 + 0 /\ End4(b, Own) \in Nat
        BY <2>5, WrittenLaid, OwnStyle, EndsTyped
      <4> QED BY <4>1
    <3>3. Len(wire) \in Nat /\ End4(b, Own) \in Nat
      BY <2>5, EndsTyped DEF Holds
    <3>4. Len(wire) = Len(Written(b, Own))
      BY <2>4, <3>1, <3>2, <3>3
    <3> QED BY Zenon, <2>4, <3>4 DEF Written
  <2>7. PICK c : c = Carried(b, Own)
    OBVIOUS
  <2>8. PICK ends : ends = LaidOut(b, Own)
    OBVIOUS
  <2>9. bulletin = Bulletin(c, TableId(c), c.subsets, ends)
    <3>1. bulletin = Bulletin(Message, TableId(Message), Message.subsets,
                              LaidOut(sent.bulletin, sent.style))
      BY <1>1, <2>1 DEF BulletinsInv, ReadInv
    <3> QED BY Zenon, <2>2, <2>3, <2>7, <2>8, <3>1 DEF Message
  <2>10. Encode(bulletin) = Encode(b)
    BY <2>3, <2>5, <2>7, <2>9, WrittenOnce
  <2> QED BY <2>6, <2>10
<1> QED BY <1>1, BulletinsInvariant, PTL

(***************************************************************************)
(* What diff counts.                                                       *)
(***************************************************************************)

(* A count of flags is zero when none is set. *)
LEMMA NoneIsOne ==
  ASSUME NEW D, IsFiniteSet(D), NEW flags, DOMAIN flags = D
  PROVE  Ones(flags) \in Nat /\ (Ones(flags) = 0 <=> \A i \in D : ~flags[i])
<1>1. PICK S : S = {i \in D : flags[i]}
  OBVIOUS
<1>2. S \in SUBSET D
  BY <1>1
<1>3. IsFiniteSet(S)
  BY <1>2, FS_Subset
<1>4. Cardinality(S) \in Nat /\ (Cardinality(S) = 0 <=> S = {})
  BY <1>3, FS_CardinalityType, FS_EmptySet
<1>5. S = {} <=> \A i \in D : ~flags[i]
  BY Zenon, <1>1
<1>6. Ones(flags) = Cardinality(S)
  BY Zenon, <1>1 DEF Ones
<1> QED BY <1>4, <1>5, <1>6

Compared == ComparedAlways \cup ComparedDetails

(* diff compares finitely many members. *)
LEMMA ComparedFinite == IsFiniteSet(Compared)
<1>1. IsFiniteSet({}) /\ \A S, x : IsFiniteSet(S) => IsFiniteSet(S \cup {x})
  BY FS_EmptySet, FS_AddElement
<1>2. IsFiniteSet(ComparedDetails)
  <2>1. ComparedDetails = ((({} \cup {"edition_number"}) \cup {"master_table_version_number"})
                            \cup {"master_table_version_number_local"})
                            \cup {"optional_section"}
    BY DEF ComparedDetails
  <2> QED BY Zenon, <1>1, <2>1
<1>3. IsFiniteSet(ComparedAlways)
  <2>1. PICK S : S = (((({} \cup {"master_table_number"}) \cup {"data_category"})
                         \cup {"data_subcategory"}) \cup {"data_subcategory_local"})
                         \cup {"originating_centre"}
    OBVIOUS
  <2>2. IsFiniteSet(S)
    BY Zenon, <1>1, <2>1
  <2>3. IsFiniteSet((((((S \cup {"originating_subcentre"}) \cup {"update_sequence_number"})
                          \cup {"rep_year"}) \cup {"rep_second"}) \cup {"tables"}))
    BY Zenon, <1>1, <2>2
  <2>4. ComparedAlways =
          (((((S \cup {"originating_subcentre"}) \cup {"update_sequence_number"})
               \cup {"rep_year"}) \cup {"rep_second"}) \cup {"tables"})
    BY <2>1 DEF ComparedAlways
  <2> QED BY Zenon, <2>3, <2>4
<1> QED BY <1>2, <1>3, FS_Union DEF Compared

(* Sequences that differ at no place, and in length by nothing. *)
LEMMA NoPlace ==
  ASSUME NEW S, NEW s \in Seq(S), NEW t \in Seq(S), Len(s) = Len(t)
  PROVE  (\A i \in DOMAIN s : ~(s[i] # t[i])) <=> s = t
<1>1. ASSUME \A i \in DOMAIN s : ~(s[i] # t[i]) PROVE s = t
  <2>1. \A i \in 1..Len(s) : s[i] = t[i]
    BY <1>1
  <2> QED BY <2>1, SeqEqual
<1> QED BY <1>1

(* A sequence has finitely many places. *)
LEMMA PlacesFinite ==
  ASSUME NEW S, NEW s \in Seq(S)
  PROVE  IsFiniteSet(DOMAIN s)
<1>1. DOMAIN s = 1..Len(s) /\ 1 \in Int /\ Len(s) \in Int
  OBVIOUS
<1>2. IsFiniteSet(1..Len(s))
  BY <1>1, FS_Interval
<1> QED BY <1>1, <1>2

(* diff of descriptors is zero for the same ones only. *)
LEMMA NoDescriptorDiffers ==
  ASSUME NEW b1, IsBulletin(b1), NEW b2, IsBulletin(b2)
  PROVE  /\ DiffDataDesc(b1, b2) \in Nat
         /\ DiffDataDesc(b1, b2) = 0 <=> b1.datadesc = b2.datadesc
<1>1. PICK s : s = b1.datadesc
  OBVIOUS
<1>2. PICK t : t = b2.datadesc
  OBVIOUS
<1>3. s \in Seq(Short) /\ t \in Seq(Short)
  BY <1>1, <1>2, SequencesTyped
<1>4. CASE Len(s) # Len(t)
  <2>1. DiffDataDesc(b1, b2) = 1
    BY Zenon, <1>1, <1>2, <1>4 DEF DiffDataDesc
  <2> QED BY <1>1, <1>2, <1>4, <2>1
<1>5. CASE Len(s) = Len(t)
  <2>1. PICK flags : flags = [i \in DOMAIN s |-> s[i] # t[i]]
    OBVIOUS
  <2>2. DiffDataDesc(b1, b2) = Ones(flags)
    BY Zenon, <1>1, <1>2, <1>5, <2>1 DEF DiffDataDesc
  <2>3. IsFiniteSet(DOMAIN s)
    BY <1>3, PlacesFinite
  <2>4. DOMAIN flags = DOMAIN s /\ \A i \in DOMAIN s : flags[i] <=> s[i] # t[i]
    BY Zenon, <2>1
  <2>5. Ones(flags) \in Nat /\ (Ones(flags) = 0 <=> \A i \in DOMAIN s : ~flags[i])
    BY Zenon, <2>3, <2>4, NoneIsOne
  <2>6. (\A i \in DOMAIN s : ~(s[i] # t[i])) <=> s = t
    BY Zenon, <1>3, <1>5, NoPlace
  <2> QED BY Zenon, <1>1, <1>2, <2>2, <2>4, <2>5, <2>6
<1> QED BY <1>4, <1>5

(* diff of subsets is zero for the same ones only, if they have the same tables. *)
LEMMA NoSubsetDiffers ==
  ASSUME NEW b1, IsBulletin(b1), NEW b2, IsBulletin(b2)
  PROVE  /\ DiffSubsets(b1, b2) \in Nat
         /\ b1.tables = b2.tables =>
              (DiffSubsets(b1, b2) = 0 <=> b1.subsets = b2.subsets)
<1>1. PICK s : s = b1.subsets
  OBVIOUS
<1>2. PICK t : t = b2.subsets
  OBVIOUS
<1>3. s \in Seq(Octet) /\ t \in Seq(Octet)
  BY <1>1, <1>2, SequencesTyped
<1>4. CASE Len(s) # Len(t)
  <2>1. DiffSubsets(b1, b2) = 1
    BY Zenon, <1>1, <1>2, <1>4 DEF DiffSubsets
  <2> QED BY <1>1, <1>2, <1>4, <2>1
<1>5. CASE Len(s) = Len(t)
  <2>1. PICK flags : flags = [i \in DOMAIN s |-> b1.tables # b2.tables \/ s[i] # t[i]]
    OBVIOUS
  <2>2. DiffSubsets(b1, b2) = Ones(flags)
    BY Zenon, <1>1, <1>2, <1>5, <2>1 DEF DiffSubsets
  <2>3. IsFiniteSet(DOMAIN s)
    BY <1>3, PlacesFinite
  <2>4. DOMAIN flags = DOMAIN s
        /\ \A i \in DOMAIN s : flags[i] <=> b1.tables # b2.tables \/ s[i] # t[i]
    BY Zenon, <2>1
  <2>5. Ones(flags) \in Nat /\ (Ones(flags) = 0 <=> \A i \in DOMAIN s : ~flags[i])
    BY Zenon, <2>3, <2>4, NoneIsOne
  <2>6. (\A i \in DOMAIN s : ~(s[i] # t[i])) <=> s = t
    BY Zenon, <1>3, <1>5, NoPlace
  <2> QED BY Zenon, <1>1, <1>2, <2>2, <2>4, <2>5, <2>6
<1> QED BY <1>4, <1>5

(* diff of the clocks is zero for the same ones only. *)
LEMMA NoClockDiffers ==
  ASSUME NEW b1, IsBulletin(b1), NEW b2, IsBulletin(b2),
         NEW n, n = Ones([i \in 1..4 |-> b1.clock[i] # b2.clock[i]])
  PROVE  n \in Nat /\ (n = 0 <=> b1.clock = b2.clock)
<1>1. PICK s : s = b1.clock
  OBVIOUS
<1>2. PICK t : t = b2.clock
  OBVIOUS
<1>3. s \in Seq(Octet) /\ t \in Seq(Octet) /\ Len(s) = 4 /\ Len(t) = 4
  BY <1>1, <1>2, SequencesTyped
<1>4. DOMAIN s = 1..4
  BY <1>3
<1>5. PICK flags : flags = [i \in DOMAIN s |-> s[i] # t[i]]
  OBVIOUS
<1>6. n = Ones(flags)
  BY Zenon, <1>1, <1>2, <1>4, <1>5
<1>7. IsFiniteSet(DOMAIN s)
  BY <1>3, PlacesFinite
<1>8. DOMAIN flags = DOMAIN s /\ \A i \in DOMAIN s : flags[i] <=> s[i] # t[i]
  BY Zenon, <1>5
<1>9. Ones(flags) \in Nat /\ (Ones(flags) = 0 <=> \A i \in DOMAIN s : ~flags[i])
  BY Zenon, <1>7, <1>8, NoneIsOne
<1>10. (\A i \in DOMAIN s : ~(s[i] # t[i])) <=> s = t
  <2>1. Len(s) = Len(t)
    BY <1>3
  <2> QED BY Zenon, <1>3, <2>1, NoPlace
<1> QED BY Zenon, <1>1, <1>2, <1>6, <1>8, <1>9, <1>10

(* The members that diff compares, and the data: all but two. *)
LEMMA NothingDiffers ==
  ASSUME NEW b1, IsBulletin(b1), NEW b2, IsBulletin(b2)
  PROVE  Diff(b1, b2) = 0
           <=> \A m \in Members \ {"compression", "section_end"} : b1[m] = b2[m]
<1>1. PICK flags : flags = [f \in Compared |-> b1[f] # b2[f]]
  OBVIOUS
<1>2. Ones(flags) \in Nat /\ (Ones(flags) = 0 <=> \A f \in Compared : b1[f] = b2[f])
  <2>1. DOMAIN flags = Compared /\ \A f \in Compared : flags[f] <=> b1[f] # b2[f]
    BY Zenon, <1>1
  <2>2. Ones(flags) \in Nat /\ (Ones(flags) = 0 <=> \A f \in Compared : ~flags[f])
    BY Zenon, <2>1, ComparedFinite, NoneIsOne
  <2> QED BY Zenon, <2>1, <2>2
<1>3. PICK n : n = Ones([i \in 1..4 |-> b1.clock[i] # b2.clock[i]])
  OBVIOUS
<1>4. n \in Nat /\ (n = 0 <=> b1.clock = b2.clock)
  BY <1>3, NoClockDiffers
<1>5. PICK o : o = IF Len(b1.optional_section) # Len(b2.optional_section) THEN 1 ELSE 0
  OBVIOUS
<1>6. o \in Nat /\ (b1.optional_section = b2.optional_section => o = 0)
  BY <1>5
<1>7. PICK d : d = DiffDataDesc(b1, b2)
  OBVIOUS
<1>8. d \in Nat /\ (d = 0 <=> b1.datadesc = b2.datadesc)
  BY <1>7, NoDescriptorDiffers
<1>9. PICK x : x = DiffSubsets(b1, b2)
  OBVIOUS
<1>10. x \in Nat /\ (b1.tables = b2.tables => (x = 0 <=> b1.subsets = b2.subsets))
  BY <1>9, NoSubsetDiffers
<1>11. PICK f : f = Ones(flags)
  OBVIOUS
<1>12. Diff(b1, b2) = f + n + o + d + x
  BY Zenon, <1>1, <1>3, <1>5, <1>7, <1>9, <1>11 DEF Diff, Compared
<1>13. Diff(b1, b2) = 0 <=> f = 0 /\ n = 0 /\ o = 0 /\ d = 0 /\ x = 0
  <2>1. f \in Nat /\ n \in Nat /\ o \in Nat /\ d \in Nat /\ x \in Nat
    BY <1>2, <1>4, <1>6, <1>8, <1>10, <1>11
  <2>2. f + n + o + d + x = 0 <=> f = 0 /\ n = 0 /\ o = 0 /\ d = 0 /\ x = 0
    BY <2>1
  <2> QED BY Zenon, <1>12, <2>2
<1>14. "tables" \in Compared /\ "optional_section" \in Compared
  BY DEF Compared, ComparedAlways, ComparedDetails
<1>15. Members \ {"compression", "section_end"}
         = Compared \cup {"clock", "datadesc", "subsets"}
  BY MembersAre DEF Compared, ComparedAlways, ComparedDetails
<1>16. Diff(b1, b2) = 0
         <=> /\ \A m \in Compared : b1[m] = b2[m]
             /\ b1.clock = b2.clock /\ b1.datadesc = b2.datadesc /\ b1.subsets = b2.subsets
  <2>1. (\A m \in Compared : b1[m] = b2[m]) =>
          b1.tables = b2.tables /\ b1.optional_section = b2.optional_section
    BY <1>14
  <2>2. f = 0 <=> \A m \in Compared : b1[m] = b2[m]
    BY Zenon, <1>2, <1>11
  <2> QED BY Zenon, <1>4, <1>6, <1>8, <1>10, <1>13, <2>1, <2>2
<1>17. (\A m \in Compared \cup {"clock", "datadesc", "subsets"} : b1[m] = b2[m])
         <=> /\ \A m \in Compared : b1[m] = b2[m]
             /\ b1.clock = b2.clock /\ b1.datadesc = b2.datadesc /\ b1.subsets = b2.subsets
  OBVIOUS
<1> QED BY Zenon, <1>15, <1>16, <1>17

(* bulletin.cc, diff: it tells of a loss exactly when something was lost, of any two bulletins:
   the one that was sent, and what was decoded of it. *)
THEOREM DiffTellsLosses == Spec => []LossesNoted
<1>1. ASSUME BulletinsInv PROVE LossesNoted
  <2>1. SUFFICES ASSUME last = "decoded"
        PROVE LET kept(b) == Over([compression |-> FALSE, section_end |-> NoEnds], b)
              IN Diff(sent.bulletin, bulletin) = 0 <=> kept(sent.bulletin) = kept(bulletin)
    BY DEF LossesNoted
  <2>2. sent # None /\ Got(wire, sent.bulletin, sent.style)
    BY <1>1, <2>1 DEF BulletinsInv, ReadInv, WireInv, Held
  <2>3. PICK b1 : b1 = sent.bulletin
    OBVIOUS
  <2>4. PICK b2 : b2 = bulletin
    OBVIOUS
  <2>5. IsBulletin(b1) /\ HasMembers(b1)
    BY <2>2, <2>3 DEF Got, IsBulletin
  <2>6. IsBulletin(b2) /\ HasMembers(b2)
    <3>1. PICK c : c = Carried(sent.bulletin, sent.style)
      OBVIOUS
    <3>2. PICK ends : ends = LaidOut(sent.bulletin, sent.style)
      OBVIOUS
    <3>3. b2 = Bulletin(c, TableId(c), c.subsets, ends)
      BY Zenon, <1>1, <2>1, <2>4, <3>1, <3>2 DEF BulletinsInv, ReadInv, Message
    <3>4. IsBulletin(sent.bulletin) /\ sent.style \in Style
      BY Zenon, <2>2 DEF Got
    <3>5. IsBulletin(b2)
      BY <3>1, <3>3, <3>4, DecodedLasting
    <3> QED BY <3>5 DEF IsBulletin
  <2>7. PICK f : f = [compression |-> FALSE, section_end |-> NoEnds]
    OBVIOUS
  <2>8. DOMAIN f = {"compression", "section_end"}
    BY <2>7
  <2>9. DOMAIN f \subseteq Members
    BY <2>8, MembersAre
  <2>10. /\ HasMembers(Over(f, b1)) /\ HasMembers(Over(f, b2))
         /\ \A m \in Members : (Over(f, b1))[m] = IF m \in DOMAIN f THEN f[m] ELSE b1[m]
         /\ \A m \in Members : (Over(f, b2))[m] = IF m \in DOMAIN f THEN f[m] ELSE b2[m]
    BY Zenon, <2>5, <2>6, <2>9, Overlaid
  <2>11. ASSUME \A m \in Members \ {"compression", "section_end"} : b1[m] = b2[m]
         PROVE  Over(f, b1) = Over(f, b2)
    <3>1. \A m \in Members : (Over(f, b1))[m] = (Over(f, b2))[m]
      BY Zenon, <2>8, <2>10, <2>11
    <3> QED BY Zenon, <2>10, <3>1, SameRecord
  <2>12. ASSUME Over(f, b1) = Over(f, b2)
         PROVE  \A m \in Members \ {"compression", "section_end"} : b1[m] = b2[m]
    BY Zenon, <2>8, <2>10, <2>12
  <2>13. Diff(b1, b2) = 0 <=> Over(f, b1) = Over(f, b2)
    BY Zenon, <2>5, <2>6, <2>11, <2>12, NothingDiffers
  <2> QED BY Zenon, <2>3, <2>4, <2>7, <2>13
<1> QED BY <1>1, BulletinsInvariant, PTL
=============================================================================
