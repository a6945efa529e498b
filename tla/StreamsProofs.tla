--------------------------- MODULE StreamsProofs ----------------------------
(* What read gives back is framed in the file, nothing is passed over, and what was
   written is read, for every file. *)
EXTENDS Streams, SequenceTheorems, TLAPS

Message == [at: Nat, bytes: Seq(Byte)]
InMessage == pc \in {"head", "rest", "scan"}

(* The inductive invariant, in parts.  The messages given back. *)
GivenType == received \in Seq(Message)

(* Nothing is read while the file is written. *)
NotYet == pc = "write" => received = <<>> /\ pos = 0

(* The search begins where the last message ends, and goes forward. *)
Forward ==
  /\ pc = "call" => LastEnd = pos
  /\ pc = "seek" => LastEnd + got <= pos
  /\ InMessage => LastEnd <= offset

(* got is how much of the signature was just read. *)
Matched ==
  pc = "seek" =>
    /\ buf = <<>>
    /\ got < Len(Signature[format])
    /\ \A k \in 1..got : file[pos - got + k] = Signature[format][k]

(* buf is what is between offset and the read position. *)
Taken ==
  /\ InMessage => Occurs(buf, offset) /\ offset + Len(buf) = pos
  /\ pc = "head" => Len(buf) = 4
  /\ pc = "rest" => Len(buf) = 8
  /\ pc = "scan" => got < Len(Target)

ReadInv == TypeOK /\ GivenType /\ NotYet /\ Forward /\ Matched /\ Taken /\ Framed

(* Where a search is under way there is no signature behind the bytes of the
   one that may have begun. *)
Searched == Clear /\ pc = "seek" => NothingIn(LastEnd, pos - got)

----------------------------------------------------------------------------
(* The signatures are short sequences of bytes. *)
LEMMA Signatures ==
  ASSUME NEW f \in Formats
  PROVE  /\ Signature[f] \in Seq(Byte)
         /\ Len(Signature[f]) \in {4, 6}
         /\ f = "bufr" => Len(Signature[f]) = 4
<1>1. CASE f = "bufr"
  <2>1. Signature[f] = <<66, 85, 70, 82>>
    BY <1>1 DEF Signature
  <2> QED
    BY <2>1, <1>1 DEF Byte
<1>2. CASE f = "crex"
  <2>1. Signature[f] = <<67, 82, 69, 88, 43, 43>>
    BY <1>2 DEF Signature
  <2> QED
    BY <2>1, <1>2 DEF Byte
<1> QED
  BY <1>1, <1>2 DEF Formats

(* The end of CREX, without its first byte, is eight bytes. *)
LEMMA Targets == Target \in Seq(Byte) /\ Len(Target) = 8
BY DEF Target, Byte, Plus, CR, LF, Seven

(* A piece of the file is the bytes that it is made of. *)
LEMMA PieceOfFile ==
  ASSUME file \in Seq(Byte), NEW p \in Nat, NEW n \in Nat, p + n <= Len(file)
  PROVE  /\ SubSeq(file, p + 1, p + n) \in Seq(Byte)
         /\ Len(SubSeq(file, p + 1, p + n)) = n
         /\ \A k \in 1..n : SubSeq(file, p + 1, p + n)[k] = file[p + k]
<1> DEFINE sub == SubSeq(file, p + 1, p + n)
<1>1. \A i \in p + 1..p + n : file[i] \in Byte
  BY ElementOfSeq
<1>2. /\ sub \in Seq(Byte)
      /\ Len(sub) = IF p + 1 <= p + n THEN p + n - (p + 1) + 1 ELSE 0
      /\ \A i \in 1..p + n - (p + 1) + 1 : sub[i] = file[p + 1 + i - 1]
  <2>1. p + 1 \in Int /\ p + n \in Int
    OBVIOUS
  <2> QED
    BY <2>1, <1>1, SubSeqProperties
<1> QED
  BY <1>2

(* What is at a position of the file, byte by byte. *)
LEMMA OccursAt ==
  ASSUME NEW what \in Seq(Byte), NEW p \in Nat, file \in Seq(Byte)
  PROVE  Occurs(what, p) <=>
           /\ p + Len(what) <= Len(file)
           /\ \A k \in 1..Len(what) : file[p + k] = what[k]
<1> DEFINE sub == SubSeq(file, p + 1, p + Len(what))
<1>1. SUFFICES ASSUME p + Len(what) <= Len(file)
               PROVE  sub = what <=> \A k \in 1..Len(what) : file[p + k] = what[k]
  BY DEF Occurs
<1>2. Len(what) \in Nat
  BY LenProperties
<1>3. /\ sub \in Seq(Byte)
      /\ Len(sub) = Len(what)
      /\ \A i \in 1..Len(what) : sub[i] = file[p + i]
  BY <1>1, <1>2, PieceOfFile
<1>4. (\A i \in 1..Len(what) : sub[i] = what[i]) => sub = what
  BY <1>3, SeqEqual
<1> HIDE DEF sub
<1> QED
  BY <1>3, <1>4

\* more is what comes next in the file.
Follows(more) == \A k \in 1..Len(more) : more[k] = file[pos + k]

(* What is read next goes on with what was taken. *)
LEMMA GoOn ==
  ASSUME TypeOK, Occurs(buf, offset), offset + Len(buf) = pos,
         NEW more \in Seq(Byte), pos + Len(more) <= Len(file),
         Follows(more)
  PROVE  /\ buf \o more \in Seq(Byte)
         /\ Len(buf \o more) = Len(buf) + Len(more)
         /\ Occurs(buf \o more, offset)
<1>1. /\ file \in Seq(Byte) /\ buf \in Seq(Byte)
      /\ Len(file) \in Nat /\ Len(buf) \in Nat /\ Len(more) \in Nat
      /\ offset \in Nat /\ pos \in Nat
  BY LenProperties DEF TypeOK
<1>2. /\ buf \o more \in Seq(Byte)
      /\ Len(buf \o more) = Len(buf) + Len(more)
      /\ \A i \in 1..Len(buf) + Len(more) :
           (buf \o more)[i] = IF i <= Len(buf) THEN buf[i] ELSE more[i - Len(buf)]
  BY <1>1, ConcatProperties
<1>3. \A k \in 1..Len(buf) : file[offset + k] = buf[k]
  BY <1>1, OccursAt
<1>4. ASSUME NEW k \in 1..Len(buf) + Len(more)
      PROVE  file[offset + k] = (buf \o more)[k]
  <2>1. CASE k <= Len(buf)
    BY <1>1, <1>2, <1>3, <2>1
  <2>2. CASE k > Len(buf)
    <3>1. k - Len(buf) \in 1..Len(more) /\ pos + (k - Len(buf)) = offset + k
      BY <1>1, <2>2
    <3>2. more[k - Len(buf)] = file[offset + k]
      BY <3>1 DEF Follows
    <3> QED
      BY <1>1, <1>2, <2>2, <3>2
  <2> QED
    BY <1>1, <2>1, <2>2
<1>5. offset + Len(buf \o more) <= Len(file)
  BY <1>1, <1>2
<1>6. \A k \in 1..Len(buf \o more) : file[offset + k] = (buf \o more)[k]
  BY <1>2, <1>4
<1>7. Occurs(buf \o more, offset)
  <2> DEFINE all == buf \o more
  <2>1. all \in Seq(Byte) /\ offset \in Nat /\ file \in Seq(Byte)
    BY <1>1, <1>2
  <2> HIDE DEF all
  <2>2. Occurs(all, offset) <=> /\ offset + Len(all) <= Len(file)
                                /\ \A k \in 1..Len(all) : file[offset + k] = all[k]
    BY <2>1, OccursAt
  <2> QED
    BY <1>5, <1>6, <2>2 DEF all
<1> QED
  BY <1>2, <1>7

(* A read of n bytes that are there. *)
LEMMA UpcomingBytes ==
  ASSUME TypeOK, NEW n \in Nat, n <= Left
  PROVE  /\ Upcoming(n) \in Seq(Byte)
         /\ Len(Upcoming(n)) = n
         /\ Follows(Upcoming(n))
<1>1. file \in Seq(Byte) /\ pos \in Nat /\ pos + n <= Len(file)
  BY LenProperties DEF TypeOK, Left
<1> QED
  BY <1>1, PieceOfFile DEF Upcoming, Follows

(* What is said of the messages given back is not disturbed by reading on. *)
LEMMA GivenStays ==
  ASSUME ReadInv, UNCHANGED <<file, received>>, pos' \in Nat, pos' >= pos
  PROVE  GivenType' /\ Framed' /\ LastEnd' = LastEnd
<1>1. GivenType'
  BY DEF ReadInv, GivenType
<1>2. LastEnd' = LastEnd
  BY DEF LastEnd, From, EndOf
<1>3. Framed'
  <2> SUFFICES ASSUME NEW i \in DOMAIN received
               PROVE  /\ Occurs(received[i].bytes, received[i].at)'
                      /\ EndOf(received[i]) <= (IF i = Len(received) THEN pos' ELSE received[i + 1].at)
    BY DEF Framed, EndOf
  <2>1. /\ Occurs(received[i].bytes, received[i].at)
        /\ EndOf(received[i]) <= (IF i = Len(received) THEN pos ELSE received[i + 1].at)
    BY DEF ReadInv, Framed
  <2>2. EndOf(received[i]) \in Nat /\ pos \in Nat
    <3>1. received[i] \in Message
      BY ElementOfSeq, LenProperties DEF ReadInv, GivenType
    <3>2. received[i].at \in Nat /\ Len(received[i].bytes) \in Nat
      BY <3>1, LenProperties DEF Message
    <3>3. Len(file) \in Nat
      BY LenProperties DEF ReadInv, TypeOK
    <3> QED
      BY <3>2, <3>3 DEF EndOf, ReadInv, TypeOK
  <2> QED
    BY <2>1, <2>2 DEF Occurs
<1> QED
  BY <1>1, <1>2, <1>3

(* A message that is given back. *)
LEMMA GivenGrows ==
  ASSUME ReadInv, InMessage, UNCHANGED file,
         NEW bytes \in Seq(Byte), Occurs(bytes, offset),
         Return(bytes),
         pos' = offset + Len(bytes)
  PROVE  /\ GivenType' /\ Framed' /\ LastEnd' = pos'
         /\ Len(received') = Len(received) + 1
         /\ \A i \in DOMAIN received : received'[i] = received[i]
         /\ received'[Len(received) + 1].at = offset
         /\ Len(received) \in Nat /\ DOMAIN received = 1..Len(received)
<1> DEFINE m == [at |-> offset, bytes |-> bytes]
<1>1. m \in Message /\ Len(bytes) \in Nat /\ offset \in Nat
  BY LenProperties DEF Message, ReadInv, TypeOK
<1>2. received \in Seq(Message) /\ Len(received) \in Nat /\ DOMAIN received = 1..Len(received)
  BY LenProperties DEF ReadInv, GivenType
<1>3. /\ received' \in Seq(Message)
      /\ Len(received') = Len(received) + 1
      /\ \A i \in 1..Len(received) : received'[i] = received[i]
      /\ received'[Len(received) + 1] = m
  BY <1>1, <1>2, AppendProperties DEF Return
<1>4. LastEnd' = pos'
  <2>1. Len(received') + 1 # 1 /\ Len(received') + 1 - 1 = Len(received) + 1
    BY <1>2, <1>3
  <2>2. LastEnd' = m.at + Len(m.bytes)
    BY <2>1, <1>3 DEF LastEnd, From, EndOf
  <2> QED
    BY <2>2
<1>5. Framed'
  <2>0. Len(received) \in Nat
    BY <1>2
  <2>1. DOMAIN received' = 1..Len(received) + 1
    BY <1>3, LenProperties
  <2> SUFFICES ASSUME NEW i \in 1..Len(received) + 1
               PROVE  /\ Occurs(received'[i].bytes, received'[i].at)
                      /\ EndOf(received'[i]) <= (IF i = Len(received) + 1 THEN pos' ELSE received'[i + 1].at)
    BY <2>1, <1>3 DEF Framed, EndOf, Occurs
  <2>4. CASE i = Len(received) + 1
    BY <2>4, <1>1, <1>3 DEF EndOf
  <2>2. CASE i < Len(received)
    <3>1. i \in 1..Len(received) /\ i + 1 \in 1..Len(received) /\ i # Len(received) + 1 /\ i # Len(received)
      BY <2>0, <2>2
    <3>2. Occurs(received[i].bytes, received[i].at) /\ EndOf(received[i]) <= received[i + 1].at
      BY <3>1, <1>2 DEF ReadInv, Framed
    <3> QED
      BY <3>1, <3>2, <1>3
  <2>3. CASE i = Len(received)
    <3>1. i \in 1..Len(received) /\ i + 1 = Len(received) + 1 /\ i # Len(received) + 1
      BY <2>3, <1>2
    <3>2. Occurs(received[i].bytes, received[i].at)
      BY <3>1, <1>2 DEF ReadInv, Framed
    <3>3. EndOf(received[i]) <= offset
      <4>1. LastEnd = EndOf(received[i])
        BY <3>1, <2>3, <1>2 DEF LastEnd, From
      <4> QED
        BY <4>1 DEF ReadInv, Forward
    <3> QED
      BY <3>1, <3>2, <3>3, <1>3
  <2>5. i < Len(received) \/ i = Len(received) \/ i = Len(received) + 1
    BY <2>0
  <2> QED
    BY <2>2, <2>3, <2>4, <2>5
<1> QED
  BY <1>2, <1>3, <1>4, <1>5 DEF GivenType

----------------------------------------------------------------------------
(* Nothing has been read at the start. *)
LEMMA InitRead == Init => ReadInv
<1> SUFFICES ASSUME Init PROVE ReadInv
  OBVIOUS
<1>1. /\ file = <<>> /\ buf = <<>> /\ received = <<>> /\ pc = "write"
      /\ pos = 0 /\ got = 0 /\ offset = 0 /\ pieces = 0 /\ format \in Formats
  BY DEF Init
<1>2. TypeOK
  <2>1. file \in Seq(Byte) /\ buf \in Seq(Byte) /\ Len(file) = 0
    BY <1>1, EmptySeq
  <2>2. pieces \in 0..MaxPieces /\ pos \in 0..Len(file) /\ offset \in 0..Len(file)
    BY <1>1, <2>1, StreamsAssumption DEF StreamsAssumption
  <2>3. got \in 0..Len(Target)
    BY <1>1, Targets
  <2> QED
    BY <1>1, <2>1, <2>2, <2>3 DEF TypeOK
<1>3. GivenType
  BY <1>1, EmptySeq DEF GivenType
<1>4. NotYet /\ Forward /\ Matched /\ Taken
  BY <1>1 DEF NotYet, Forward, Matched, Taken, InMessage
<1>5. Framed
  BY <1>1 DEF Framed
<1> QED
  BY <1>2, <1>3, <1>4, <1>5 DEF ReadInv

(* While the file is written, there is nothing else. *)
LEMMA PutKeeps ==
  ASSUME ReadInv, NEW bytes \in Seq(Byte), Put(bytes)
  PROVE  ReadInv'
<1>1. /\ pc = "write" /\ pc' = "write"
      /\ received = <<>> /\ received' = <<>>
      /\ pos = 0 /\ pos' = 0
  BY DEF Put, ReadInv, NotYet
<1>2. /\ file' \in Seq(Byte)
      /\ Len(file') \in Nat /\ Len(file) \in Nat /\ Len(file) <= Len(file')
  <2>1. file \in Seq(Byte) /\ file' = file \o bytes
    BY DEF Put, ReadInv, TypeOK
  <2>2. file' \in Seq(Byte) /\ Len(file') = Len(file) + Len(bytes)
    BY <2>1, ConcatProperties
  <2>3. Len(file) \in Nat /\ Len(bytes) \in Nat
    BY <2>1, LenProperties
  <2> QED
    BY <2>2, <2>3
<1>3. TypeOK'
  <2>1. pieces' \in 0..MaxPieces
    BY StreamsAssumption DEF StreamsAssumption, Put, ReadInv, TypeOK
  <2>2. pos' \in 0..Len(file') /\ offset' \in 0..Len(file')
    BY <1>1, <1>2 DEF Put, ReadInv, TypeOK
  <2>3. /\ format' \in Formats
        /\ got' \in 0..Len(Target)
        /\ buf' \in Seq(Byte)
    BY DEF Put, ReadInv, TypeOK
  <2> QED
    BY <1>1, <1>2, <2>1, <2>2, <2>3 DEF TypeOK
<1>4. GivenType' /\ Framed'
  BY <1>1, EmptySeq DEF GivenType, Framed
<1>5. NotYet' /\ Forward' /\ Matched' /\ Taken'
  BY <1>1 DEF NotYet, Forward, Matched, Taken, InMessage
<1> QED
  BY <1>3, <1>4, <1>5 DEF ReadInv

(* What a program writes is bytes. *)
LEMMA BytesWritten ==
  ASSUME NEW msg \in Seq(Byte), NEW eol \in Seq(Byte), NEW k \in Cuts \cup {0}
  PROVE  (IF k = 0 THEN msg \o eol ELSE SubSeq(msg, 1, Len(msg) - k)) \in Seq(Byte)
<1>1. msg \o eol \in Seq(Byte)
  BY ConcatProperties
<1>2. SubSeq(msg, 1, Len(msg) - k) \in Seq(Byte)
  <2>1. k \in Nat /\ Len(msg) \in Nat
    BY StreamsAssumption, LenProperties DEF StreamsAssumption
  <2>2. \A i \in 1..Len(msg) - k : msg[i] \in Byte
    BY <2>1, ElementOfSeq
  <2>3. 1 \in Int /\ Len(msg) - k \in Int
    BY <2>1
  <2> QED
    BY <2>2, <2>3, SubSeqProperties
<1> QED
  BY <1>1, <1>2

(* A BUFR message is bytes. *)
LEMMA BufrBytes ==
  ASSUME NEW body \in BufrBodies
  PROVE  BufrMessage(body) \in Seq(Byte)
<1>1. body \in Seq(Byte) /\ 12 + Len(body) \in Byte
  <2>1. body \in Seq(Byte)
    BY StreamsAssumption DEF StreamsAssumption
  <2>2. Len(body) < 244
    BY StreamsAssumption DEF StreamsAssumption
  <2>3. Len(body) \in Nat
    BY <2>1, LenProperties
  <2>4. \A n \in Nat : n < 244 => 12 + n \in 0..255
    OBVIOUS
  <2>5. 12 + Len(body) \in Byte
    BY <2>2, <2>3, <2>4 DEF Byte
  <2> QED
    BY <2>1, <2>5
<1>2. <<0, 0, 12 + Len(body), 4>> \in Seq(Byte)
  BY <1>1 DEF Byte
<1>3. <<Seven, Seven, Seven, Seven>> \in Seq(Byte)
  BY DEF Byte, Seven
<1>4. Signature.bufr \in Seq(Byte)
  BY DEF Signature, Byte
<1>5. Signature.bufr \o <<0, 0, 12 + Len(body), 4>> \in Seq(Byte)
  BY <1>2, <1>4, ConcatProperties
<1>6. Signature.bufr \o <<0, 0, 12 + Len(body), 4>> \o body \in Seq(Byte)
  BY <1>1, <1>5, ConcatProperties
<1> QED
  BY <1>3, <1>6, ConcatProperties DEF BufrMessage

(* A CREX message is bytes. *)
LEMMA CrexBytes ==
  ASSUME NEW body \in CrexBodies
  PROVE  CrexMessage(body) \in Seq(Byte) /\ CrexEol \in Seq(Byte)
<1>1. body \in Seq(Byte)
  BY StreamsAssumption DEF StreamsAssumption
<1>2. CrexEnd \in Seq(Byte) /\ CrexEol \in Seq(Byte)
  BY DEF CrexEnd, CrexEol, Byte, Plus, CR, LF, Seven
<1>3. Signature.crex \in Seq(Byte)
  BY DEF Signature, Byte
<1>4. Signature.crex \o body \in Seq(Byte)
  BY <1>1, <1>3, ConcatProperties
<1> QED
  BY <1>2, <1>4, ConcatProperties DEF CrexMessage

(* Writing leaves what was read where it is. *)
LEMMA WritingKeeps ==
  ASSUME ReadInv, PutExtra \/ BufrWrite \/ CrexWrite
  PROVE  ReadInv'
<1>1. CASE PutExtra
  <2>1. PICK bytes \in Extra : Put(bytes)
    BY <1>1 DEF PutExtra
  <2>2. bytes \in Seq(Byte)
    BY StreamsAssumption DEF StreamsAssumption
  <2> QED
    BY <2>1, <2>2, PutKeeps
<1>2. CASE BufrWrite
  <2>1. PICK body \in BufrBodies, k \in Cuts \cup {0} :
             Write("bufr", BufrMessage(body), <<>>, k)
    BY <1>2 DEF BufrWrite
  <2>2. BufrMessage(body) \in Seq(Byte) /\ <<>> \in Seq(Byte)
    BY BufrBytes, EmptySeq
  <2> QED
    BY <2>1, <2>2, BytesWritten, PutKeeps DEF Write
<1>3. CASE CrexWrite
  <2>1. PICK body \in CrexBodies, k \in Cuts \cup {0} :
             Write("crex", CrexMessage(body), CrexEol, k)
    BY <1>3 DEF CrexWrite
  <2>2. CrexMessage(body) \in Seq(Byte) /\ CrexEol \in Seq(Byte)
    BY CrexBytes
  <2> QED
    BY <2>1, <2>2, BytesWritten, PutKeeps DEF Write
<1> QED
  BY <1>1, <1>2, <1>3

(* Opening a file keeps the invariant. *)
LEMMA OpenKeeps ==
  ASSUME ReadInv, Open
  PROVE  ReadInv'
<1>1. /\ pc = "write" /\ pc' = "call" /\ received = <<>> /\ pos = 0
      /\ UNCHANGED <<file, pieces, format, pos, got, buf, offset, received>>
  BY DEF Open, written, ReadInv, NotYet
<1>2. TypeOK'
  BY <1>1 DEF ReadInv, TypeOK
<1>3. GivenType' /\ Framed' /\ LastEnd' = LastEnd
  BY <1>1, GivenStays DEF ReadInv, TypeOK
<1>4. LastEnd = 0
  BY <1>1 DEF LastEnd, From
<1>5. NotYet' /\ Forward' /\ Matched' /\ Taken'
  BY <1>1, <1>3, <1>4 DEF NotYet, Forward, Matched, Taken, InMessage
<1> QED
  BY <1>2, <1>3, <1>5 DEF ReadInv

(* A call of read keeps the invariant and begins after the last message. *)
LEMMA CallKeeps ==
  ASSUME ReadInv, Call
  PROVE  ReadInv' /\ Searched'
<1>1. /\ pc = "call" /\ pc' = "seek" /\ buf' = <<>> /\ got' = 0
      /\ UNCHANGED <<file, pieces, format, pos, offset, received>>
  BY DEF Call, Reading, written
<1>2. 0 < Len(Signature[format])
  <2>1. Len(Signature[format]) \in {4, 6}
    BY Signatures DEF ReadInv, TypeOK
  <2>2. \A n \in {4, 6} : 0 < n
    OBVIOUS
  <2> QED
    BY <2>1, <2>2
<1>3. pos \in Nat /\ LastEnd = pos
  <2>1. Len(file) \in Nat
    BY LenProperties DEF ReadInv, TypeOK
  <2> QED
    BY <1>1, <2>1 DEF ReadInv, TypeOK, Forward
<1>4. TypeOK'
  <2>1. buf' \in Seq(Byte)
    BY <1>1, EmptySeq
  <2>2. got' \in 0..Len(Target) /\ got' < Len(Signature[format])
    BY <1>1, <1>2, Targets
  <2> QED
    BY <1>1, <2>1, <2>2 DEF ReadInv, TypeOK
<1>5. GivenType' /\ Framed' /\ LastEnd' = LastEnd
  BY <1>1, <1>3, GivenStays
<1>6. NotYet' /\ Forward' /\ Taken'
  BY <1>1, <1>3, <1>5 DEF NotYet, Forward, Taken, InMessage
<1>7. Matched'
  <2>1. \A k \in 1..got' : FALSE
    BY <1>1
  <2> QED
    BY <1>1, <1>2, <2>1 DEF Matched
<1>8. Searched'
  BY <1>1, <1>3, <1>5 DEF Searched, NothingIn
<1> QED
  BY <1>4, <1>5, <1>6, <1>7, <1>8 DEF ReadInv

----------------------------------------------------------------------------
(* The end of the last message is an offset. *)
LEMMA LastEndIsNat ==
  ASSUME ReadInv
  PROVE  LastEnd \in Nat
<1>1. Len(received) \in Nat /\ DOMAIN received = 1..Len(received)
  BY LenProperties DEF ReadInv, GivenType
<1>2. CASE Len(received) = 0
  BY <1>2 DEF LastEnd, From
<1>3. CASE Len(received) > 0
  <2>1. Len(received) \in DOMAIN received /\ LastEnd = EndOf(received[Len(received)])
    BY <1>1, <1>3 DEF LastEnd, From
  <2>2. received[Len(received)] \in Message
    BY <2>1, <1>1, ElementOfSeq DEF ReadInv, GivenType
  <2>3. received[Len(received)].at \in Nat /\ received[Len(received)].bytes \in Seq(Byte)
    BY <2>2 DEF Message
  <2>4. Len(received[Len(received)].bytes) \in Nat
    BY <2>3, LenProperties
  <2> QED
    BY <2>1, <2>3, <2>4 DEF EndOf
<1> QED
  BY <1>1, <1>2, <1>3

(* What is known of the numbers of a search. *)
LEMMA SeekNumbers ==
  ASSUME ReadInv, pc = "seek"
  PROVE  /\ Signature[format] \in Seq(Byte) /\ file \in Seq(Byte)
         /\ Len(Signature[format]) \in {4, 6} /\ Len(file) \in Nat
         /\ pos \in Nat /\ got \in Nat /\ pos - got \in Nat
         /\ got < Len(Signature[format]) /\ pos <= Len(file)
         /\ LastEnd \in Nat /\ LastEnd <= pos - got
<1>1. /\ Signature[format] \in Seq(Byte) /\ file \in Seq(Byte)
      /\ Len(Signature[format]) \in {4, 6} /\ Len(file) \in Nat
  BY Signatures, LenProperties DEF ReadInv, TypeOK
<1>2. got \in Nat /\ got < Len(Signature[format])
  BY Targets DEF ReadInv, TypeOK, Matched
<1>3. pos \in Nat /\ pos <= Len(file)
  BY <1>1 DEF ReadInv, TypeOK
<1>4. LastEnd \in Nat
  BY LastEndIsNat
<1>5. LastEnd + got <= pos
  BY DEF ReadInv, Forward
<1>6. pos - got \in Nat /\ LastEnd <= pos - got
  BY <1>2, <1>3, <1>4, <1>5
<1> QED
  BY <1>1, <1>2, <1>3, <1>4, <1>6

(* A byte that matches is one more of the signature. *)
LEMMA OneMoreMatched ==
  ASSUME ReadInv, pc = "seek", Left > 0, NextByte = Signature[format][got + 1]
  PROVE  /\ \A k \in 1..got + 1 : file[pos - got + k] = Signature[format][k]
         /\ got + 1 = Len(Signature[format]) => Occurs(Signature[format], pos - got)
<1> DEFINE sig == Signature[format]
           start == pos - got
<1>1. /\ sig \in Seq(Byte) /\ file \in Seq(Byte) /\ start \in Nat
      /\ pos \in Nat /\ got \in Nat /\ start + got = pos
      /\ Len(file) \in Nat /\ pos < Len(file)
  BY SeekNumbers DEF Left
<1>2. \A k \in 1..got : file[start + k] = sig[k]
  BY DEF ReadInv, Matched
<1>3. file[pos + 1] = sig[got + 1]
  BY DEF NextByte
<1> HIDE DEF sig, start
<1>4. \A k \in 1..got + 1 : file[start + k] = sig[k]
  <2> TAKE k \in 1..got + 1
  <2>1. k \in 1..got \/ (k = got + 1 /\ start + k = pos + 1)
    BY <1>1
  <2> QED
    BY <2>1, <1>2, <1>3
<1>5. got + 1 = Len(sig) => Occurs(sig, start)
  <2>1. sig \in Seq(Byte) /\ start \in Nat /\ file \in Seq(Byte)
    BY <1>1
  <2>2. Occurs(sig, start) <=> /\ start + Len(sig) <= Len(file)
                               /\ \A k \in 1..Len(sig) : file[start + k] = sig[k]
    BY <2>1, OccursAt
  <2>3. start + (got + 1) <= Len(file)
    BY <1>1
  <2> QED
    BY <1>4, <2>2, <2>3
<1> QED
  BY <1>4, <1>5 DEF sig, start

(* The search.  Where a byte does not match, no signature begins among the
   bytes that did, if it is not the case that one begins another. *)
LEMMA NoneBegun ==
  ASSUME ReadInv, Clear, pc = "seek", Left > 0, NextByte # Signature[format][got + 1],
         NEW p \in pos - got..pos
  PROVE  ~Occurs(Signature[format], p)
<1> DEFINE sig == Signature[format]
           start == pos - got
<1>1. /\ sig \in Seq(Byte) /\ file \in Seq(Byte)
      /\ Len(sig) \in Nat /\ Len(file) \in Nat
  BY Signatures, LenProperties DEF ReadInv, TypeOK
<1>2. /\ pos \in Nat /\ got \in Nat /\ got < Len(sig) /\ pos < Len(file)
      /\ start \in Nat
  <2>1. got \in Nat
    BY Targets DEF ReadInv, TypeOK
  <2>2. pos \in Nat /\ pos < Len(file) /\ got < Len(sig)
    BY <1>1 DEF ReadInv, TypeOK, Matched, Left
  <2>3. LastEnd \in Nat
    BY LastEndIsNat
  <2>4. LastEnd + got <= pos
    BY DEF ReadInv, Forward
  <2> QED
    BY <2>1, <2>2, <2>3, <2>4
<1>3. \A k \in 1..got : file[start + k] = sig[k]
  BY DEF ReadInv, Matched
<1>4. file[pos + 1] # sig[got + 1]
  BY DEF NextByte
<1> HIDE DEF sig, start
<1>5. p \in Nat /\ p >= start /\ p <= pos /\ start + got = pos
  BY <1>2 DEF start
<1>6. CASE p = start
  <2>1. Occurs(sig, p) => \A k \in 1..Len(sig) : file[p + k] = sig[k]
    BY <1>1, <1>5, OccursAt
  <2>2. got + 1 \in 1..Len(sig) /\ start + (got + 1) = pos + 1
    BY <1>1, <1>2, <1>5
  <2> QED
    BY <1>4, <1>6, <2>1, <2>2 DEF sig
<1>7. CASE p > start
  <2> DEFINE n == p - start
             first == SubSeq(sig, 1, n)
  <2>1. n \in 1..Len(sig) - 1 /\ n <= p /\ p - n = start /\ n <= got /\ n \in Nat
    BY <1>1, <1>2, <1>5, <1>7
  <2> HIDE DEF n
  <2>2. first \in Seq(Byte) /\ Len(first) = n /\ \A i \in 1..n : first[i] = sig[i]
    <3>1. \A i \in 1..n : sig[i] \in Byte
      BY <1>1, <2>1, ElementOfSeq
    <3>2. /\ first \in Seq(Byte)
          /\ Len(first) = IF 1 <= n THEN n - 1 + 1 ELSE 0
          /\ \A i \in 1..n - 1 + 1 : first[i] = sig[1 + i - 1]
      <4>1. 1 \in Int /\ n \in Int
        BY <2>1
      <4> QED
        BY <3>1, <4>1, SubSeqProperties
    <3> QED
      BY <3>2, <2>1
  <2> HIDE DEF first
  <2>3. Occurs(first, start)
    <3>1. start + Len(first) <= Len(file)
      BY <1>1, <1>2, <1>5, <2>1, <2>2
    <3>2. \A k \in 1..Len(first) : file[start + k] = first[k]
      <4> SUFFICES ASSUME NEW k \in 1..n PROVE file[start + k] = first[k]
        BY <2>2
      <4>1. k \in 1..got
        BY <1>2, <2>1
      <4> QED
        BY <4>1, <1>3, <2>2
    <3> QED
      BY <1>1, <1>2, <2>2, <3>1, <3>2, OccursAt
  <2>4. p \in Positions
    BY <1>1, <1>2, <1>5 DEF Positions
  <2>5. Occurs(sig, p) => ~Occurs(SubSeq(sig, 1, n), p - n)
    BY <2>1, <2>4 DEF Clear, sig
  <2> QED
    BY <2>1, <2>3, <2>5 DEF first, sig
<1> QED
  BY <1>2, <1>5, <1>6, <1>7

(* A step of the search for a signature keeps the invariant. *)
LEMMA SeekKeeps ==
  ASSUME ReadInv, Seek
  PROVE  ReadInv'
<1> DEFINE sig == Signature[format]
           n == SeekStep(sig, got, NextByte)
<1>1. /\ pc = "seek" /\ Left > 0 /\ pos' = pos + 1
      /\ UNCHANGED <<file, pieces, format, received>>
  BY DEF Seek, Reading, written
<1>2. /\ sig \in Seq(Byte) /\ file \in Seq(Byte)
      /\ Len(sig) \in {4, 6} /\ Len(file) \in Nat
      /\ pos \in Nat /\ got \in Nat /\ pos - got \in Nat
      /\ got < Len(sig) /\ pos <= Len(file)
      /\ LastEnd \in Nat /\ LastEnd <= pos - got
  BY <1>1, SeekNumbers
<1>3. pos < Len(file)
  BY <1>1, <1>2 DEF Left
<1>4. GivenType' /\ Framed' /\ LastEnd' = LastEnd
  BY <1>1, <1>2, GivenStays
<1>5. NotYet'
  BY <1>1 DEF Seek, NotYet
<1>6. n = IF NextByte = sig[got + 1] THEN got + 1 ELSE 0
  BY DEF SeekStep
<1>7. IF n < Len(sig)
      THEN got' = n /\ UNCHANGED <<pc, buf, offset>>
      ELSE /\ pc' = IF format = "bufr" THEN "head" ELSE "scan"
           /\ buf' = buf \o sig
           /\ offset' = pos' - Len(sig)
           /\ got' = 0
  BY DEF Seek
<1>8. n = got + 1 => \A k \in 1..got + 1 : file[pos - got + k] = sig[k]
  BY <1>1, <1>2, <1>6, OneMoreMatched
<1>9. n \in Nat /\ n <= got + 1 /\ (n = 0 \/ n = got + 1)
  BY <1>2, <1>6
<1>10. n = got + 1 /\ got + 1 = Len(sig) => Occurs(sig, pos - got)
  BY <1>1, <1>2, <1>6, OneMoreMatched
<1> HIDE DEF n, sig
<1>11. CASE n < Len(sig)
  <2>1. got' = n /\ UNCHANGED <<pc, buf, offset>>
    BY <1>7, <1>11
  <2>2. TypeOK'
    <3>1. got' \in 0..Len(Target)
      <4>1. \A m \in {4, 6}, x \in Nat : x < m => x \in 0..8
        OBVIOUS
      <4>2. n \in 0..8
        BY <1>2, <1>9, <1>11, <4>1
      <4> QED
        BY <2>1, <4>2, Targets
    <3>2. pos' \in 0..Len(file)
      BY <1>1, <1>2, <1>3
    <3>3. got' < Len(Signature[format])
      BY <1>11, <2>1 DEF sig
    <3> QED
      BY <1>1, <2>1, <3>1, <3>2, <3>3 DEF ReadInv, TypeOK
  <2>3. Forward'
    <3>1. LastEnd' + got' <= pos'
      BY <1>1, <1>2, <1>4, <1>9, <2>1
    <3> QED
      BY <1>1, <2>1, <3>1 DEF Forward, InMessage
  <2>4. Matched'
    <3>1. \A k \in 1..got' : file[pos' - got' + k] = Signature[format][k]
      <4>1. CASE n = 0
        BY <4>1, <2>1
      <4>2. CASE n = got + 1
        <5>1. pos' - got' = pos - got
          BY <4>2, <1>1, <1>2, <2>1
        <5> QED
          BY <4>2, <5>1, <1>8, <2>1 DEF sig
      <4> QED
        BY <1>9, <4>1, <4>2
    <3>2. buf = <<>>
      BY <1>1 DEF ReadInv, Matched
    <3> QED
      BY <1>1, <1>11, <2>1, <3>1, <3>2 DEF Matched, sig
  <2>5. Taken'
    BY <1>1, <2>1 DEF Taken, InMessage
  <2> QED
    BY <1>4, <1>5, <2>2, <2>3, <2>4, <2>5 DEF ReadInv
<1>12. CASE ~(n < Len(sig))
  <2>1. n = got + 1 /\ Len(sig) = got + 1
    BY <1>2, <1>9, <1>12
  <2>2. /\ pc' = IF format = "bufr" THEN "head" ELSE "scan"
        /\ buf' = buf \o sig /\ offset' = pos' - Len(sig) /\ got' = 0
    BY <1>7, <1>12
  <2>3. buf' = sig
    <3>1. buf = <<>>
      BY <1>1 DEF ReadInv, Matched
    <3> QED
      BY <3>1, <2>2, <1>2, ConcatEmptySeq
  <2>4. offset' = pos - got
    BY <1>1, <1>2, <2>1, <2>2
  <2>5. TypeOK'
    <3>1. got' \in 0..Len(Target)
      BY <2>2, Targets
    <3>2. pos' \in 0..Len(file) /\ offset' \in 0..Len(file)
      BY <1>1, <1>2, <1>3, <2>4
    <3>3. buf' \in Seq(Byte)
      BY <1>2, <2>3
    <3>4. pc' \in {"head", "scan"}
      BY <2>2
    <3> QED
      BY <1>1, <3>1, <3>2, <3>3, <3>4 DEF ReadInv, TypeOK
  <2>6. Forward'
    <3>1. LastEnd' <= offset' /\ pc' # "call" /\ pc' # "seek"
      BY <1>2, <1>4, <2>2, <2>4
    <3> QED
      BY <3>1 DEF Forward
  <2>7. Matched'
    BY <2>2 DEF Matched
  <2>8. Taken'
    <3>1. Occurs(buf, offset)'
      BY <1>1, <1>10, <2>1, <2>3, <2>4 DEF Occurs
    <3>2. offset' + Len(buf') = pos'
      BY <1>1, <1>2, <2>1, <2>3, <2>4
    <3>3. got' < Len(Target)
      BY <2>2, Targets
    <3>4. pc' = "head" => Len(buf') = 4
      BY <2>2, <2>3, Signatures DEF sig, ReadInv, TypeOK
    <3>5. pc' # "rest"
      BY <2>2
    <3> QED
      BY <3>1, <3>2, <3>3, <3>4, <3>5 DEF Taken
  <2> QED
    BY <1>4, <1>5, <2>5, <2>6, <2>7, <2>8 DEF ReadInv
<1> QED
  BY <1>11, <1>12

----------------------------------------------------------------------------
(* Where read gives up, what was given back stays. *)
LEMMA StopKeeps ==
  ASSUME ReadInv, pc' \in {"none", "throw"},
         UNCHANGED <<file, pieces, format, got, offset, received>>,
         buf' \in Seq(Byte), pos' \in pos..Len(file)
  PROVE  ReadInv'
<1>1. pos \in Nat /\ pos' \in Nat /\ pos' >= pos /\ pos' \in 0..Len(file)
  <2>1. Len(file) \in Nat
    BY LenProperties DEF ReadInv, TypeOK
  <2>2. pos \in 0..Len(file)
    BY DEF ReadInv, TypeOK
  <2> QED
    BY <2>1, <2>2
<1>2. TypeOK'
  BY <1>1 DEF ReadInv, TypeOK
<1>3. GivenType' /\ Framed'
  BY <1>1, GivenStays
<1>4. NotYet' /\ Forward' /\ Matched' /\ Taken'
  BY DEF NotYet, Forward, Matched, Taken, InMessage
<1> QED
  BY <1>2, <1>3, <1>4 DEF ReadInv

(* Offsets, lengths and the buffer are what they should be. *)
LEMMA Numbers ==
  ASSUME ReadInv
  PROVE  /\ pos \in Nat /\ Len(file) \in Nat /\ pos <= Len(file)
         /\ Len(buf) \in Nat /\ offset \in Nat /\ Left \in Nat
         /\ buf \in Seq(Byte)
<1>1. Len(file) \in Nat /\ Len(buf) \in Nat
  BY LenProperties DEF ReadInv, TypeOK
<1>2. pos \in Nat /\ pos <= Len(file) /\ offset \in Nat
  BY <1>1 DEF ReadInv, TypeOK
<1>3. Left \in Nat
  BY <1>1, <1>2 DEF Left
<1> QED
  BY <1>1, <1>2, <1>3 DEF ReadInv, TypeOK

(* Reading on makes the buffer a longer piece of the file. *)
LEMMA TakeMore ==
  ASSUME ReadInv, InMessage, NEW n \in Nat, n <= Left
  PROVE  /\ buf \o Upcoming(n) \in Seq(Byte)
         /\ Len(buf \o Upcoming(n)) = Len(buf) + n
         /\ Occurs(buf \o Upcoming(n), offset)
         /\ offset + Len(buf \o Upcoming(n)) = pos + n
         /\ pos + n <= Len(file)
<1>1. TypeOK /\ Occurs(buf, offset) /\ offset + Len(buf) = pos
  BY DEF ReadInv, Taken
<1>2. pos + n <= Len(file) /\ Len(buf) \in Nat /\ pos \in Nat /\ offset \in Nat
  BY Numbers DEF Left
<1>3. Upcoming(n) \in Seq(Byte) /\ Len(Upcoming(n)) = n /\ Follows(Upcoming(n))
  BY <1>1, UpcomingBytes
<1>4. /\ buf \o Upcoming(n) \in Seq(Byte)
      /\ Len(buf \o Upcoming(n)) = Len(buf) + n
      /\ Occurs(buf \o Upcoming(n), offset)
  BY <1>1, <1>2, <1>3, GoOn
<1> QED
  BY <1>1, <1>2, <1>4

(* A read that finds fewer bytes than it needs. *)
LEMMA ShortRead ==
  ASSUME ReadInv, NEW n \in Nat, NEW next, Fetch(n, next), ~(n <= Left),
         UNCHANGED <<file, pieces, format, got, offset, received>>
  PROVE  ReadInv'
<1>1. pos' = Len(file) /\ pc' = "throw" /\ buf' = buf
  BY DEF Fetch
<1>2. pos' \in pos..Len(file) /\ buf' \in Seq(Byte)
  BY <1>1, Numbers
<1> QED
  BY <1>1, <1>2, StopKeeps

(* Reading the head of a BUFR message keeps the invariant. *)
LEMMA HeadKeeps ==
  ASSUME ReadInv, ReadHead
  PROVE  ReadInv'
<1>1. /\ pc = "head" /\ Fetch(4, "rest") /\ InMessage
      /\ UNCHANGED <<file, pieces, format, got, offset, received>>
  BY DEF ReadHead, Reading, written, InMessage
<1>2. CASE ~(4 <= Left)
  BY <1>1, <1>2, ShortRead
<1>3. CASE 4 <= Left
  <2>1. pos' = pos + 4 /\ buf' = buf \o Upcoming(4) /\ pc' = "rest"
    BY <1>1, <1>3 DEF Fetch
  <2>2. /\ buf' \in Seq(Byte) /\ Len(buf') = Len(buf) + 4
        /\ Occurs(buf', offset) /\ offset + Len(buf') = pos'
        /\ pos' <= Len(file)
    BY <1>1, <1>3, <2>1, TakeMore
  <2>3. pos' \in Nat /\ pos' >= pos /\ pos' \in 0..Len(file)
    BY <2>1, <2>2, Numbers
  <2>4. TypeOK'
    BY <1>1, <2>1, <2>2, <2>3 DEF ReadInv, TypeOK
  <2>5. GivenType' /\ Framed' /\ LastEnd' = LastEnd
    BY <1>1, <2>3, GivenStays
  <2>6. NotYet' /\ Matched'
    BY <2>1 DEF NotYet, Matched
  <2>7. Forward'
    BY <1>1, <2>1, <2>5 DEF ReadInv, Forward, InMessage
  <2>8. Taken'
    <3>1. Occurs(buf, offset)'
      BY <1>1, <2>2 DEF Occurs
    <3>2. Len(buf) = 4
      BY <1>1 DEF ReadInv, Taken
    <3> QED
      BY <1>1, <2>1, <2>2, <3>1, <3>2 DEF Taken
  <2> QED
    BY <2>4, <2>5, <2>6, <2>7, <2>8 DEF ReadInv
<1> QED
  BY <1>2, <1>3

(* A message that is complete. *)
LEMMA ReturnKeeps ==
  ASSUME ReadInv, InMessage, pc' = "call", Return(buf'),
         UNCHANGED <<file, pieces, format, offset>>, got' \in 0..Len(Target),
         buf' \in Seq(Byte), Occurs(buf', offset), offset + Len(buf') = pos',
         pos' \in 0..Len(file)
  PROVE  ReadInv'
<1>1. GivenType' /\ Framed' /\ LastEnd' = pos'
  <2>1. PICK bytes : bytes = buf'
    OBVIOUS
  <2>2. /\ bytes \in Seq(Byte) /\ Occurs(bytes, offset)
        /\ Return(bytes) /\ pos' = offset + Len(bytes)
    BY <2>1 DEF Return
  <2> QED
    BY <2>2, GivenGrows
<1>2. TypeOK'
  BY DEF ReadInv, TypeOK
<1>3. NotYet' /\ Matched' /\ Taken'
  BY DEF NotYet, Matched, Taken, InMessage
<1>4. Forward'
  BY <1>1 DEF Forward, InMessage
<1> QED
  BY <1>1, <1>2, <1>3, <1>4 DEF ReadInv

(* What is left to read of a message is a number. *)
LEMMA RestLength ==
  ASSUME ReadInv, pc = "rest", ~(DeclaredLength(buf) < MinLength)
  PROVE  DeclaredLength(buf) - 8 \in Nat
<1>1. buf \in Seq(Byte) /\ Len(buf) = 8
  BY DEF ReadInv, TypeOK, Taken
<1>2. buf[5] \in Byte /\ buf[6] \in Byte /\ buf[7] \in Byte
  <2>1. 5 \in 1..Len(buf) /\ 6 \in 1..Len(buf) /\ 7 \in 1..Len(buf)
    BY <1>1
  <2> QED
    BY <1>1, <2>1, ElementOfSeq
<1>3. \A a, b, c \in Byte : a * 65536 + b * 256 + c \in Nat
  BY DEF Byte
<1>4. DeclaredLength(buf) \in Nat
  BY <1>2, <1>3 DEF DeclaredLength
<1>5. \A d \in Nat : ~(d < 12) => d - 8 \in Nat
  OBVIOUS
<1> QED
  BY <1>4, <1>5 DEF MinLength

(* Reading the rest of a BUFR message keeps the invariant. *)
LEMMA RestKeeps ==
  ASSUME ReadInv, ReadRest
  PROVE  ReadInv'
<1> DEFINE len == DeclaredLength(buf)
<1>1. /\ pc = "rest" /\ InMessage
      /\ UNCHANGED <<file, pieces, format, got, offset>>
  BY DEF ReadRest, Reading, written, InMessage
<1>2. CASE len < MinLength
  <2>1. pc' = "throw" /\ UNCHANGED <<pos, buf, received>>
    BY <1>2 DEF ReadRest
  <2>2. pos' \in pos..Len(file) /\ buf' \in Seq(Byte)
    BY <2>1, Numbers
  <2> QED
    BY <1>1, <2>1, <2>2, StopKeeps
<1>3. CASE ~(len < MinLength)
  <2>1. /\ Fetch(len - 8, "call")
        /\ IF len - 8 <= Left THEN Return(buf') ELSE UNCHANGED received
    BY <1>3 DEF ReadRest
  <2>2. len - 8 \in Nat
    BY <1>1, <1>3, RestLength
  <2> HIDE DEF len
  <2>3. CASE ~(len - 8 <= Left)
    BY <1>1, <2>1, <2>2, <2>3, ShortRead
  <2>4. CASE len - 8 <= Left
    <3>1. pos' = pos + (len - 8) /\ buf' = buf \o Upcoming(len - 8) /\ pc' = "call"
      BY <2>1, <2>4 DEF Fetch
    <3>2. /\ buf' \in Seq(Byte) /\ Occurs(buf', offset)
          /\ offset + Len(buf') = pos' /\ pos' <= Len(file)
      BY <1>1, <2>2, <2>4, <3>1, TakeMore
    <3>3. pos' \in 0..Len(file)
      BY <2>2, <3>1, <3>2, Numbers
    <3>4. got' \in 0..Len(Target)
      BY <1>1 DEF ReadInv, TypeOK
    <3> QED
      BY <1>1, <2>1, <2>4, <3>1, <3>2, <3>3, <3>4, ReturnKeeps
  <2> QED
    BY <2>3, <2>4
<1> QED
  BY <1>2, <1>3

(* The automaton of the end of a CREX message stays inside its target, though
   it may go on by two. *)
LEMMA ScanBound ==
  ASSUME NEW n \in 0..7, NEW c
  PROVE  ScanStep(n, c) \in 0..8
<1>1. Target[n + 1] = LF => n = 3
  <2>1. n \in {0, 1, 2, 3, 4, 5, 6, 7}
    OBVIOUS
  <2>2. /\ Target[1] = 43 /\ Target[2] = 43 /\ Target[3] = 13 /\ Target[4] = 10
        /\ Target[5] = 55 /\ Target[6] = 55 /\ Target[7] = 55 /\ Target[8] = 55
    BY DEF Target, Plus, CR, LF, Seven
  <2> QED
    BY <2>1, <2>2 DEF LF
<1>2. ScanStep(n, c) \in {n, n + 1, 0} \/ (Target[n + 1] = LF /\ ScanStep(n, c) = n + 2)
  BY DEF ScanStep
<1> QED
  BY <1>1, <1>2

(* One byte more of a CREX message. *)
LEMMA ScanTakes ==
  ASSUME ReadInv, Scan
  PROVE  /\ buf' \in Seq(Byte) /\ Occurs(buf', offset)
         /\ offset + Len(buf') = pos'
         /\ pos' \in Nat /\ pos' >= pos /\ pos' \in 0..Len(file)
<1>0. /\ pc = "scan" /\ Left > 0 /\ InMessage
      /\ pos' = pos + 1
      /\ buf' = Append(buf, NextByte)
  BY DEF Scan, InMessage
<1>1. /\ pos \in Nat /\ Len(buf) \in Nat /\ Len(file) \in Nat /\ offset \in Nat
      /\ buf \in Seq(Byte) /\ pos + 1 <= Len(file)
  BY <1>0, Numbers DEF Left
<1>2. TypeOK /\ Occurs(buf, offset) /\ offset + Len(buf) = pos
  BY <1>0 DEF ReadInv, Taken
<1>3. NextByte \in Byte
  <2>1. pos + 1 \in 1..Len(file) /\ file \in Seq(Byte)
    BY <1>1, <1>2 DEF TypeOK
  <2> QED
    BY <2>1, ElementOfSeq DEF NextByte
<1> DEFINE more == <<NextByte>>
<1>4. more \in Seq(Byte) /\ Len(more) = 1 /\ Follows(more)
  BY <1>3 DEF Follows, NextByte
<1>5. buf' = buf \o more
  BY <1>0, <1>1, <1>3, AppendIsConcat
<1> HIDE DEF more
<1>6. /\ buf \o more \in Seq(Byte)
      /\ Len(buf \o more) = Len(buf) + 1
      /\ Occurs(buf \o more, offset)
  BY <1>1, <1>2, <1>4, GoOn
<1>7. offset + Len(buf') = pos'
  <2>1. Len(buf') = Len(buf) + 1
    BY <1>5, <1>6
  <2>2. offset + (Len(buf) + 1) = pos + 1
    BY <1>1, <1>2
  <2> QED
    BY <1>0, <2>1, <2>2
<1>8. pos' \in Nat /\ pos' >= pos /\ pos' \in 0..Len(file)
  BY <1>0, <1>1
<1> QED
  BY <1>5, <1>6, <1>7, <1>8

(* A step of the search for the end of CREX keeps the invariant. *)
LEMMA ScanKeeps ==
  ASSUME ReadInv, Scan
  PROVE  ReadInv'
<1>1. /\ pc = "scan" /\ Left > 0 /\ InMessage
      /\ pos' = pos + 1
      /\ buf' = Append(buf, NextByte)
      /\ got' = ScanStep(got, NextByte)
      /\ UNCHANGED <<file, pieces, format, offset>>
  BY DEF Scan, Reading, written, InMessage
<1>2. got' \in 0..8
  <2>1. got \in 0..7
    BY <1>1, Targets DEF ReadInv, TypeOK, Taken
  <2> QED
    BY <1>1, <2>1, ScanBound
<1>3. /\ buf' \in Seq(Byte) /\ Occurs(buf', offset)
      /\ offset + Len(buf') = pos'
      /\ pos' \in Nat /\ pos' >= pos /\ pos' \in 0..Len(file)
  BY ScanTakes
<1>4. CASE got' = Len(Target)
  <2>1. pc' = "call" /\ Return(buf')
    BY <1>4 DEF Scan
  <2> QED
    BY <1>1, <1>2, <1>3, <2>1, Targets, ReturnKeeps
<1>5. CASE got' # Len(Target)
  <2>1. UNCHANGED <<pc, received>>
    BY <1>5 DEF Scan
  <2>2. TypeOK'
    BY <1>1, <1>2, <1>3, <2>1, Targets DEF ReadInv, TypeOK
  <2>3. GivenType' /\ Framed' /\ LastEnd' = LastEnd
    BY <1>1, <1>3, <2>1, GivenStays
  <2>4. NotYet' /\ Matched'
    BY <1>1, <2>1 DEF NotYet, Matched
  <2>5. Forward'
    BY <1>1, <2>1, <2>3 DEF ReadInv, Forward, InMessage
  <2>6. Taken'
    <3>1. Occurs(buf, offset)'
      BY <1>1, <1>3 DEF Occurs
    <3>2. got' < Len(Target)
      BY <1>2, <1>5, Targets
    <3> QED
      BY <1>1, <1>3, <2>1, <3>1, <3>2 DEF Taken
  <2> QED
    BY <2>2, <2>3, <2>4, <2>5, <2>6 DEF ReadInv
<1> QED
  BY <1>4, <1>5

----------------------------------------------------------------------------
(* Every step keeps the invariant. *)
LEMMA NextRead == ReadInv /\ [Next]_vars => ReadInv'
<1> SUFFICES ASSUME ReadInv, [Next]_vars PROVE ReadInv'
  OBVIOUS
<1>1. CASE PutExtra \/ BufrWrite \/ CrexWrite
  BY <1>1, WritingKeeps
<1>2. CASE Open
  BY <1>2, OpenKeeps
<1>3. CASE Call
  BY <1>3, CallKeeps
<1>4. CASE Seek
  BY <1>4, SeekKeeps
<1>5. CASE SeekEnd \/ ScanEnd
  <2>1. /\ pc' \in {"none", "throw"}
        /\ UNCHANGED <<file, pieces, format, got, offset, received, buf, pos>>
    BY <1>5 DEF SeekEnd, ScanEnd, Reading, written
  <2>2. buf' \in Seq(Byte) /\ pos' \in pos..Len(file)
    BY <2>1, Numbers
  <2> QED
    BY <2>1, <2>2, StopKeeps
<1>6. CASE ReadHead
  BY <1>6, HeadKeeps
<1>7. CASE ReadRest
  BY <1>7, RestKeeps
<1>8. CASE Scan
  BY <1>8, ScanKeeps
<1>9. CASE Over \/ UNCHANGED vars
  <2>1. UNCHANGED <<file, sent, pieces, format, pc, pos, got, buf, offset, received>>
    BY <1>9 DEF Over, vars, written
  <2> QED
    BY <2>1 DEF ReadInv, TypeOK, GivenType, NotYet, Forward, Matched, Taken, Framed,
                InMessage, LastEnd, From, EndOf, Occurs
<1> QED
  BY <1>1, <1>2, <1>3, <1>4, <1>5, <1>6, <1>7, <1>8, <1>9 DEF Next

(* read never goes outside the file, nor its automata outside of what they look
   for, whatever the file. *)
THEOREM StreamsTypeCorrect == Spec => []TypeOK
<1>1. ReadInv => TypeOK
  BY DEF ReadInv
<1> QED
  BY <1>1, InitRead, NextRead, PTL DEF Spec

(* Each message that read gives back is a piece of the file, at its offset, and
   after the one before it. *)
THEOREM MessagesFramed == Spec => []Framed
<1>1. ReadInv => Framed
  BY DEF ReadInv
<1> QED
  BY <1>1, InitRead, NextRead, PTL DEF Spec

----------------------------------------------------------------------------
(* FindsNext, in parts. *)
FoundSoFar ==
  \A i \in DOMAIN received :
    Occurs(Signature[format], received[i].at) /\ NothingIn(From(i), received[i].at)
FoundNow == InMessage => Occurs(Signature[format], offset) /\ NothingIn(LastEnd, offset)
NoneLeft == pc = "none" => NothingIn(LastEnd, Len(file))

FindInv == ReadInv /\ (Clear => FoundSoFar /\ FoundNow /\ NoneLeft) /\ Searched

(* FindsNext, of the messages before, of the last one and of the end of the file. *)
LEMMA FindsNextParts == FindsNext <=> (Clear => FoundSoFar /\ FoundNow /\ NoneLeft)
BY DEF FindsNext, FoundSoFar, FoundNow, NoneLeft, InMessage

(* What is in a file depends on the file only. *)
LEMMA SameFile ==
  ASSUME UNCHANGED <<file, format>>
  PROVE  /\ Clear' <=> Clear
         /\ \A what, p : Occurs(what, p)' <=> Occurs(what, p)
         /\ \A a, b : NothingIn(a, b)' <=> NothingIn(a, b)
<1>1. \A what, p : Occurs(what, p)' <=> Occurs(what, p)
  BY DEF Occurs
<1>2. Clear' <=> Clear
  BY DEF Clear, Positions, Occurs
<1>3. \A a, b : NothingIn(a, b)' <=> NothingIn(a, b)
  BY DEF NothingIn, Occurs
<1> QED
  BY <1>1, <1>2, <1>3

(* Messages that were found stay found. *)
LEMMA FoundStays ==
  ASSUME FoundSoFar, UNCHANGED <<file, format, received>>
  PROVE  FoundSoFar' /\ LastEnd' = LastEnd
<1>1. FoundSoFar'
  BY DEF FoundSoFar, From, EndOf, NothingIn, Occurs
<1>2. LastEnd' = LastEnd
  BY DEF LastEnd, From, EndOf
<1> QED
  BY <1>1, <1>2

(* A message that is given back is the one that was found. *)
LEMMA FoundGrows ==
  ASSUME ReadInv, FoundSoFar, FoundNow, InMessage, UNCHANGED <<file, format>>,
         NEW bytes \in Seq(Byte), Occurs(bytes, offset), Return(bytes),
         pos' = offset + Len(bytes)
  PROVE  FoundSoFar'
<1>1. /\ Len(received') = Len(received) + 1
      /\ \A i \in DOMAIN received : received'[i] = received[i]
      /\ received'[Len(received) + 1].at = offset
      /\ DOMAIN received = 1..Len(received)
  BY GivenGrows
<1>2. Len(received) \in Nat
  BY GivenGrows
<1>3. DOMAIN received' = 1..Len(received) + 1
  <2>1. GivenType'
    BY GivenGrows
  <2> QED
    BY <1>1, <2>1, LenProperties DEF GivenType
<1>4. \A i \in 1..Len(received) + 1 : From(i)' = From(i)
  <2> TAKE i \in 1..Len(received) + 1
  <2>1. i # 1 => i - 1 \in DOMAIN received
    <3>1. i # 1 => i - 1 \in 1..Len(received)
      BY <1>2
    <3> QED
      BY <1>1, <3>1
  <2>2. i # 1 => received'[i - 1] = received[i - 1]
    BY <1>1, <2>1
  <2> QED
    BY <2>2 DEF From, EndOf
<1>5. ASSUME NEW i \in 1..Len(received) + 1
      PROVE  Occurs(Signature[format], received'[i].at) /\ NothingIn(From(i), received'[i].at)
  <2>1. CASE i \in DOMAIN received
    BY <1>1, <2>1 DEF FoundSoFar
  <2>2. CASE i = Len(received) + 1
    BY <1>1, <2>2 DEF FoundNow, LastEnd
  <2>3. i \in 1..Len(received) \/ i = Len(received) + 1
    BY <1>2, <1>5
  <2> QED
    BY <1>1, <2>1, <2>2, <2>3
<1>6. ASSUME NEW i \in DOMAIN received'
      PROVE  Occurs(Signature[format], received[i].at)' /\ NothingIn(From(i), received[i].at)'
  <2>1. Occurs(Signature[format], received'[i].at) /\ NothingIn(From(i), received'[i].at)
    BY <1>3, <1>5, <1>6
  <2>2. From(i)' = From(i)
    BY <1>3, <1>4, <1>6
  <2> QED
    BY <2>1, <2>2 DEF Occurs, NothingIn
<1> QED
  BY <1>6 DEF FoundSoFar

(* The search passes over no signature, and what it stops at is one. *)
LEMMA SeekFinds ==
  ASSUME FindInv, Seek
  PROVE  FindInv'
<1> DEFINE sig == Signature[format]
           n == SeekStep(sig, got, NextByte)
<1>1. ReadInv /\ ReadInv'
  BY SeekKeeps DEF FindInv
<1>2. /\ pc = "seek" /\ Left > 0 /\ pos' = pos + 1
      /\ UNCHANGED <<file, pieces, format, received>>
  BY DEF Seek, Reading, written
<1>3. /\ Len(sig) \in {4, 6} /\ Len(file) \in Nat
      /\ pos \in Nat /\ got \in Nat /\ pos - got \in Nat
      /\ got < Len(sig)
      /\ LastEnd \in Nat /\ LastEnd <= pos - got
  BY <1>1, <1>2, SeekNumbers
<1>4. n = IF NextByte = sig[got + 1] THEN got + 1 ELSE 0
  BY DEF SeekStep
<1>5. IF n < Len(sig)
      THEN got' = n /\ UNCHANGED <<pc, buf, offset>>
      ELSE /\ pc' = IF format = "bufr" THEN "head" ELSE "scan"
           /\ offset' = pos' - Len(sig)
  BY DEF Seek
<1>6. SUFFICES ASSUME Clear
               PROVE  FoundSoFar' /\ FoundNow' /\ NoneLeft' /\ (pc' = "seek" => NothingIn(LastEnd, pos - got)')
  BY <1>1, <1>2, SameFile DEF FindInv, Searched
<1>7. /\ FoundSoFar /\ NothingIn(LastEnd, pos - got)
      /\ FoundSoFar' /\ LastEnd' = LastEnd
  BY <1>2, <1>6, FoundStays DEF FindInv, Searched
<1>8. NextByte = sig[got + 1] /\ got + 1 = Len(sig) => Occurs(sig, pos - got)
  BY <1>1, <1>2, OneMoreMatched
<1>9. NextByte # sig[got + 1] => NothingIn(LastEnd, pos + 1)
  <2> SUFFICES ASSUME NextByte # sig[got + 1]
               PROVE  NothingIn(LastEnd, pos + 1)
    OBVIOUS
  <2>0. pos + 1 - 1 = pos
    BY <1>3
  <2> SUFFICES ASSUME NEW p \in LastEnd..pos
               PROVE  ~Occurs(Signature[format], p)
    BY <1>3, <2>0 DEF NothingIn
  <2>1. p \in LastEnd..pos - got - 1 \/ p \in pos - got..pos
    BY <1>3
  <2>2. CASE p \in LastEnd..pos - got - 1
    BY <1>7, <2>2 DEF NothingIn
  <2>3. CASE p \in pos - got..pos
    BY <1>1, <1>2, <1>6, <2>3, NoneBegun
  <2> QED
    BY <2>1, <2>2, <2>3
<1> HIDE DEF n
<1>10. CASE n < Len(sig)
  <2>1. got' = n /\ pc' = "seek"
    BY <1>2, <1>5, <1>10
  <2>2. NothingIn(LastEnd', pos' - got')
    <3>1. CASE NextByte = sig[got + 1]
      <4>1. pos' - got' = pos - got
        BY <1>2, <1>3, <1>4, <2>1, <3>1
      <4> QED
        BY <1>7, <4>1
    <3>2. CASE NextByte # sig[got + 1]
      <4>1. pos' - got' = pos + 1
        BY <1>2, <1>3, <1>4, <2>1, <3>2
      <4> QED
        BY <1>7, <1>9, <3>2, <4>1
    <3> QED
      BY <3>1, <3>2
  <2>3. NothingIn(LastEnd, pos - got)'
    BY <1>2, <2>2 DEF NothingIn, Occurs
  <2> QED
    BY <1>7, <2>1, <2>3 DEF FoundNow, NoneLeft, InMessage
<1>11. CASE ~(n < Len(sig))
  <2>1. NextByte = sig[got + 1] /\ Len(sig) = got + 1
    <3>1. \A m \in {4, 6}, x \in Nat : x < m /\ ~(x + 1 < m) => m = x + 1
      OBVIOUS
    <3>2. \A m \in {4, 6} : 0 < m
      OBVIOUS
    <3>3. n = got + 1 /\ NextByte = sig[got + 1]
      BY <1>3, <1>4, <1>11, <3>2
    <3> QED
      BY <1>3, <1>11, <3>1, <3>3
  <2>2. pc' \in {"head", "scan"} /\ offset' = pos' - Len(sig)
    BY <1>5, <1>11
  <2>3. offset' = pos - got
    BY <1>2, <1>3, <2>1, <2>2
  <2>4. Occurs(Signature[format], offset') /\ NothingIn(LastEnd', offset')
    BY <1>7, <1>8, <2>1, <2>3
  <2>5. Occurs(Signature[format], offset)' /\ NothingIn(LastEnd, offset)'
    BY <1>2, <2>4 DEF Occurs, NothingIn
  <2> QED
    BY <1>7, <2>2, <2>5 DEF FoundNow, NoneLeft
<1> QED
  BY <1>10, <1>11

(* When the file is over, no signature is left in what was not matched. *)
LEMMA SeekEndFinds ==
  ASSUME FindInv, SeekEnd
  PROVE  FindInv'
<1>1. /\ pc = "seek" /\ Left = 0 /\ pc' = "none"
      /\ UNCHANGED <<file, pieces, format, received>>
  BY DEF SeekEnd, Reading, written
<1>2. ReadInv /\ ReadInv'
  BY NextRead DEF FindInv, Next
<1>3. SUFFICES ASSUME Clear
               PROVE  FoundSoFar' /\ NothingIn(LastEnd, Len(file))'
  BY <1>1, <1>2, SameFile DEF FindInv, Searched, FoundNow, NoneLeft, InMessage
<1>4. FoundSoFar /\ NothingIn(LastEnd, pos - got)
  BY <1>1, <1>3 DEF FindInv, Searched
<1>5. FoundSoFar' /\ LastEnd' = LastEnd
  BY <1>1, <1>4, FoundStays
<1>6. NothingIn(LastEnd, Len(file))
  <2> SUFFICES ASSUME NEW p \in LastEnd..Len(file) - 1
               PROVE  ~Occurs(Signature[format], p)
    BY DEF NothingIn
  <2>1. /\ Len(Signature[format]) \in {4, 6} /\ Len(file) \in Nat
        /\ pos \in Nat /\ got \in Nat /\ pos - got \in Nat
        /\ got < Len(Signature[format]) /\ pos <= Len(file)
        /\ LastEnd \in Nat
    BY <1>1, <1>2, SeekNumbers
  <2>2. pos = Len(file)
    BY <1>1, <2>1 DEF Left
  <2>3. p \in LastEnd..pos - got - 1 \/ p >= pos - got
    BY <2>1
  <2>4. CASE p \in LastEnd..pos - got - 1
    BY <1>4, <2>4 DEF NothingIn
  <2>5. CASE p >= pos - got
    <3>1. \A m \in {4, 6} : got < m => ~(p + m <= pos)
      BY <2>1, <2>5
    <3>2. ~(p + Len(Signature[format]) <= Len(file))
      BY <2>1, <2>2, <3>1
    <3> QED
      BY <3>2 DEF Occurs
  <2> QED
    BY <2>3, <2>4, <2>5
<1>7. NothingIn(LastEnd, Len(file))'
  BY <1>1, <1>5, <1>6 DEF NothingIn, Occurs
<1> QED
  BY <1>5, <1>7

(* Steps that read on in a message, or throw. *)
LEMMA GoOnFinds ==
  ASSUME FindInv, ReadInv', InMessage, UNCHANGED <<file, format, offset, received>>,
         pc' \in {"head", "rest", "scan", "throw"}
  PROVE  FindInv'
<1>1. SUFFICES ASSUME Clear
               PROVE  FoundSoFar' /\ FoundNow'
  BY SameFile DEF FindInv, Searched, NoneLeft
<1>2. FoundSoFar /\ Occurs(Signature[format], offset) /\ NothingIn(LastEnd, offset)
  BY <1>1 DEF FindInv, FoundNow
<1>3. FoundSoFar' /\ LastEnd' = LastEnd
  BY <1>2, FoundStays
<1>4. Occurs(Signature[format], offset)' /\ NothingIn(LastEnd, offset)'
  BY <1>2, <1>3 DEF Occurs, NothingIn
<1> QED
  BY <1>3, <1>4 DEF FoundNow

(* A message that is given back is the next there is. *)
LEMMA ReturnFinds ==
  ASSUME FindInv, ReadInv', InMessage, UNCHANGED <<file, format, offset>>, pc' = "call",
         NEW bytes \in Seq(Byte), Occurs(bytes, offset), Return(bytes),
         pos' = offset + Len(bytes)
  PROVE  FindInv'
<1>1. SUFFICES ASSUME Clear
               PROVE  FoundSoFar'
  BY SameFile DEF FindInv, Searched, NoneLeft, FoundNow, InMessage
<1>2. ReadInv /\ FoundSoFar /\ FoundNow
  BY <1>1 DEF FindInv
<1> QED
  BY <1>2, FoundGrows

(* Giving back a BUFR message keeps the invariant of the search. *)
LEMMA RestFinds ==
  ASSUME FindInv, ReadRest
  PROVE  FindInv'
<1> DEFINE n == DeclaredLength(buf) - 8
<1>1. ReadInv /\ ReadInv'
  BY RestKeeps DEF FindInv
<1>2. /\ pc = "rest" /\ InMessage
      /\ UNCHANGED <<file, format, offset>>
  BY DEF ReadRest, Reading, written, InMessage
<1>3. CASE ~(DeclaredLength(buf) < MinLength) /\ n <= Left
  <2>1. Fetch(n, "call") /\ Return(buf')
    BY <1>3 DEF ReadRest
  <2>2. n \in Nat
    BY <1>1, <1>2, <1>3, RestLength
  <2> HIDE DEF n
  <2>3. pos' = pos + n /\ buf' = buf \o Upcoming(n) /\ pc' = "call"
    BY <1>3, <2>1 DEF Fetch
  <2>4. PICK bytes : bytes = buf'
    OBVIOUS
  <2>5. /\ bytes \in Seq(Byte) /\ Occurs(bytes, offset)
        /\ Return(bytes) /\ pos' = offset + Len(bytes)
    BY <1>1, <1>2, <1>3, <2>1, <2>2, <2>3, <2>4, TakeMore DEF Return
  <2> QED
    BY <1>1, <1>2, <2>3, <2>5, ReturnFinds
<1>4. CASE DeclaredLength(buf) < MinLength
  <2>1. pc' = "throw" /\ UNCHANGED received
    BY <1>4 DEF ReadRest
  <2> QED
    BY <1>1, <1>2, <2>1, GoOnFinds
<1>5. CASE ~(DeclaredLength(buf) < MinLength) /\ ~(n <= Left)
  <2>1. pc' = "throw" /\ UNCHANGED received
    BY <1>5 DEF ReadRest, Fetch
  <2> QED
    BY <1>1, <1>2, <2>1, GoOnFinds
<1> QED
  BY <1>3, <1>4, <1>5

(* A step in a CREX message keeps the invariant of the search. *)
LEMMA ScanFinds ==
  ASSUME FindInv, Scan
  PROVE  FindInv'
<1>1. ReadInv /\ ReadInv'
  BY ScanKeeps DEF FindInv
<1>2. /\ pc = "scan" /\ InMessage
      /\ UNCHANGED <<file, format, offset>>
  BY DEF Scan, Reading, written, InMessage
<1>3. CASE got' # Len(Target)
  <2>1. UNCHANGED <<pc, received>>
    BY <1>3 DEF Scan
  <2> QED
    BY <1>1, <1>2, <2>1, GoOnFinds
<1>4. CASE got' = Len(Target)
  <2>1. pc' = "call" /\ Return(buf')
    BY <1>4 DEF Scan
  <2>2. /\ buf' \in Seq(Byte) /\ Occurs(buf', offset) /\ pos' = offset + Len(buf')
    BY <1>1, <1>2, ScanTakes
  <2>3. PICK bytes : bytes = buf'
    OBVIOUS
  <2>4. /\ bytes \in Seq(Byte) /\ Occurs(bytes, offset)
        /\ Return(bytes) /\ pos' = offset + Len(bytes)
    BY <2>1, <2>2, <2>3 DEF Return
  <2> QED
    BY <1>1, <1>2, <2>1, <2>4, ReturnFinds
<1> QED
  BY <1>3, <1>4

(* Nothing has been found at the start. *)
LEMMA InitFind == Init => FindInv
<1> SUFFICES ASSUME Init PROVE FindInv
  OBVIOUS
<1>1. received = <<>> /\ pc = "write"
  BY DEF Init
<1>2. FoundSoFar /\ FoundNow /\ NoneLeft /\ Searched
  BY <1>1 DEF FoundSoFar, FoundNow, NoneLeft, Searched, InMessage
<1> QED
  BY <1>2, InitRead DEF FindInv

(* Every step keeps the invariant of the search. *)
LEMMA NextFind == FindInv /\ [Next]_vars => FindInv'
<1> SUFFICES ASSUME FindInv, [Next]_vars PROVE FindInv'
  OBVIOUS
<1>1. ReadInv /\ ReadInv'
  BY NextRead DEF FindInv
<1>2. CASE PutExtra \/ BufrWrite \/ CrexWrite \/ Open
  <2>1. pc = "write" /\ received' = received /\ pc' \in {"write", "call"}
    BY <1>2 DEF PutExtra, BufrWrite, CrexWrite, Write, Put, Open
  <2>2. received' = <<>>
    BY <1>1, <2>1 DEF ReadInv, NotYet
  <2> QED
    BY <1>1, <2>1, <2>2 DEF FindInv, FoundSoFar, FoundNow, NoneLeft, Searched, InMessage
<1>3. CASE Call
  <2>1. Searched'
    BY <1>1, <1>3, CallKeeps
  <2>2. pc' = "seek" /\ UNCHANGED <<file, format, received>>
    BY <1>3 DEF Call, Reading, written
  <2>3. Clear' => FoundSoFar'
    <3> SUFFICES ASSUME Clear' PROVE FoundSoFar'
      OBVIOUS
    <3>1. FoundSoFar
      BY <2>2, SameFile DEF FindInv
    <3> QED
      BY <2>2, <3>1, FoundStays
  <2> QED
    BY <1>1, <2>1, <2>2, <2>3 DEF FindInv, FoundNow, NoneLeft, InMessage
<1>4. CASE Seek
  BY <1>4, SeekFinds
<1>5. CASE SeekEnd
  BY <1>5, SeekEndFinds
<1>6. CASE ReadHead
  <2>1. /\ InMessage /\ UNCHANGED <<file, format, offset, received>>
        /\ pc' \in {"rest", "throw"}
    BY <1>6 DEF ReadHead, Fetch, Reading, written, InMessage
  <2> QED
    BY <1>1, <2>1, GoOnFinds
<1>7. CASE ReadRest
  BY <1>7, RestFinds
<1>8. CASE Scan
  BY <1>8, ScanFinds
<1>9. CASE ScanEnd
  <2>1. /\ InMessage /\ UNCHANGED <<file, format, offset, received>> /\ pc' = "throw"
    BY <1>9 DEF ScanEnd, Reading, written, InMessage
  <2> QED
    BY <1>1, <2>1, GoOnFinds
<1>10. CASE Over \/ UNCHANGED vars
  <2>1. UNCHANGED <<file, sent, pieces, format, pc, pos, got, buf, offset, received>>
    BY <1>10 DEF Over, vars, written
  <2>2. UNCHANGED <<LastEnd, InMessage>>
    BY <2>1 DEF LastEnd, From, EndOf, InMessage
  <2>3. \A a, b : NothingIn(a, b)' <=> NothingIn(a, b)
    BY <2>1, SameFile
  <2>4. Searched'
    BY <2>1, <2>2, SameFile DEF FindInv, Searched, NothingIn, Occurs
  <2>5. ASSUME Clear'
        PROVE  FoundSoFar' /\ FoundNow' /\ NoneLeft'
    <3>1. FoundSoFar /\ FoundNow /\ NoneLeft
      BY <2>1, <2>5, SameFile DEF FindInv
    <3>2. FoundSoFar'
      BY <2>1, <3>1, FoundStays
    <3>3. FoundNow' /\ NoneLeft'
      BY <2>1, <2>2, <3>1 DEF FoundNow, NoneLeft, NothingIn, Occurs
    <3> QED
      BY <3>2, <3>3
  <2> QED
    BY <1>1, <2>4, <2>5 DEF FindInv
<1> QED
  BY <1>2, <1>3, <1>4, <1>5, <1>6, <1>7, <1>8, <1>9, <1>10 DEF Next

(* Whatever there is in a file, read finds the first signature after the last
   message, and returns false only when none is left, unless one signature
   comes right after the beginning of another. *)
THEOREM NothingPassedOver == Spec => []FindsNext
<1>1. FindInv => FindsNext
  BY FindsNextParts DEF FindInv
<1> QED
  BY <1>1, InitFind, NextFind, PTL DEF Spec

----------------------------------------------------------------------------
(* Messages as they are written. *)

(* A sequence put after another, byte by byte. *)
IsJoin(j, s, t) == j = s \o t

(* What is where in a concatenation. *)
LEMMA Joined ==
  ASSUME NEW s \in Seq(Byte), NEW t \in Seq(Byte), NEW j, IsJoin(j, s, t)
  PROVE  /\ j \in Seq(Byte) /\ Len(j) = Len(s) + Len(t)
         /\ \A k \in 1..Len(s) : j[k] = s[k]
         /\ \A k \in 1..Len(t) : j[Len(s) + k] = t[k]
<1>1. /\ j \in Seq(Byte) /\ Len(j) = Len(s) + Len(t)
      /\ \A i \in 1..(Len(s) + Len(t)) : j[i] = IF i <= Len(s) THEN s[i] ELSE t[i - Len(s)]
  BY ConcatProperties DEF IsJoin
<1>2. Len(s) \in Nat /\ Len(t) \in Nat
  BY LenProperties
<1>3. \A k \in 1..Len(s) : k \in 1..(Len(s) + Len(t)) /\ k <= Len(s)
  BY <1>2
<1>4. \A k \in 1..Len(t) : /\ Len(s) + k \in 1..(Len(s) + Len(t)) /\ ~(Len(s) + k <= Len(s))
                           /\ (Len(s) + k) - Len(s) = k
  BY <1>2
<1> QED
  BY <1>1, <1>3, <1>4

(* Byte by byte, a BUFR message: its signature, and its length. *)
LEMMA BufrShape ==
  ASSUME NEW body \in BufrBodies
  PROVE  LET msg == BufrMessage(body)
         IN /\ Len(body) \in Nat /\ Len(msg) = 12 + Len(body)
            /\ \A k \in 1..4 : msg[k] = Signature.bufr[k]
            /\ msg[5] = 0 /\ msg[6] = 0 /\ msg[7] = 12 + Len(body)
<1> DEFINE n == Len(body)
           lens == <<0, 0, 12 + n, 4>>
           head == Signature.bufr \o lens
           most == head \o body
           tail == <<Seven, Seven, Seven, Seven>>
           msg == most \o tail
<1>1. body \in Seq(Byte) /\ n \in Nat /\ 12 + n \in Byte
  <2>1. body \in Seq(Byte)
    BY StreamsAssumption DEF StreamsAssumption
  <2>2. n < 244
    BY StreamsAssumption DEF StreamsAssumption
  <2>3. n \in Nat
    BY <2>1, LenProperties
  <2>4. \A m \in Nat : m < 244 => 12 + m \in 0..255
    OBVIOUS
  <2>5. 12 + n \in Byte
    BY <2>2, <2>3, <2>4 DEF Byte
  <2> QED
    BY <2>1, <2>3, <2>5
<1> HIDE DEF n
<1>2. /\ lens \in Seq(Byte) /\ Len(lens) = 4
      /\ lens[1] = 0 /\ lens[2] = 0 /\ lens[3] = 12 + n
  BY <1>1 DEF Byte
<1>3. tail \in Seq(Byte) /\ Len(tail) = 4
  BY DEF Byte, Seven
<1>4. Signature.bufr \in Seq(Byte) /\ Len(Signature.bufr) = 4
  BY DEF Signature, Byte
<1> HIDE DEF lens, tail
<1>5. /\ head \in Seq(Byte) /\ Len(head) = 4 + 4
      /\ \A k \in 1..4 : head[k] = Signature.bufr[k]
      /\ \A k \in 1..4 : head[4 + k] = lens[k]
  <2>1. PICK s, t, j : s = Signature.bufr /\ t = lens /\ j = head
    OBVIOUS
  <2>2. s \in Seq(Byte) /\ t \in Seq(Byte) /\ IsJoin(j, s, t)
    BY <1>2, <1>4, <2>1 DEF head, IsJoin
  <2>3. /\ j \in Seq(Byte) /\ Len(j) = Len(s) + Len(t)
        /\ \A k \in 1..Len(s) : j[k] = s[k]
        /\ \A k \in 1..Len(t) : j[Len(s) + k] = t[k]
    BY <2>2, Joined
  <2>4. Len(s) = 4 /\ Len(t) = 4
    BY <1>2, <1>4, <2>1
  <2>5. /\ j \in Seq(Byte) /\ Len(j) = 4 + 4
        /\ \A k \in 1..4 : j[k] = s[k]
        /\ \A k \in 1..4 : j[4 + k] = t[k]
    BY <2>3, <2>4
  <2> QED
    BY <2>1, <2>5
<1> HIDE DEF head
<1>6. /\ most \in Seq(Byte) /\ Len(most) = 8 + n
      /\ \A k \in 1..8 : most[k] = head[k]
  <2>1. PICK s, j : s = head /\ j = most
    OBVIOUS
  <2>2. s \in Seq(Byte) /\ body \in Seq(Byte) /\ IsJoin(j, s, body)
    BY <1>1, <1>5, <2>1 DEF most, IsJoin
  <2>3. /\ j \in Seq(Byte) /\ Len(j) = Len(s) + Len(body)
        /\ \A k \in 1..Len(s) : j[k] = s[k]
        /\ \A k \in 1..Len(body) : j[Len(s) + k] = body[k]
    BY <2>2, Joined
  <2>4. n \in Nat /\ Len(s) = 8 /\ Len(body) = n
    BY <1>1, <1>5, <2>1 DEF n
  <2>5. /\ j \in Seq(Byte) /\ Len(j) = 8 + n
        /\ \A k \in 1..8 : j[k] = s[k]
    BY <2>3, <2>4
  <2> QED
    BY <2>1, <2>5
<1> HIDE DEF most
<1>7. /\ Len(msg) = (8 + n) + 4
      /\ \A k \in 1..(8 + n) : msg[k] = most[k]
  <2>1. PICK s, t, j, l : s = most /\ t = tail /\ j = msg /\ l = 8 + n
    OBVIOUS
  <2>2. s \in Seq(Byte) /\ t \in Seq(Byte) /\ IsJoin(j, s, t)
    BY <1>1, <1>3, <1>6, <2>1 DEF IsJoin
  <2>3. /\ j \in Seq(Byte) /\ Len(j) = Len(s) + Len(t)
        /\ \A k \in 1..Len(s) : j[k] = s[k]
        /\ \A k \in 1..Len(t) : j[Len(s) + k] = t[k]
    BY <2>2, Joined
  <2>4. l \in Nat /\ Len(s) = l /\ Len(t) = 4
    BY <1>1, <1>3, <1>6, <2>1
  <2>5. Len(j) = l + 4 /\ \A k \in 1..l : j[k] = s[k]
    BY <2>3, <2>4
  <2> QED
    BY <2>1, <2>5
<1>8. \A k \in 1..8 : msg[k] = head[k]
  <2>1. \A k \in 1..8 : k \in 1..(8 + n)
    BY <1>1
  <2> HIDE DEF msg
  <2> QED
    BY <1>6, <1>7, <2>1
<1>9. msg = BufrMessage(body)
  BY DEF BufrMessage, n, lens, head, most, tail
<1> HIDE DEF msg
<1>10. msg[5] = 0 /\ msg[6] = 0 /\ msg[7] = 12 + n
  <2>1. msg[5] = head[5] /\ msg[6] = head[6] /\ msg[7] = head[7]
    BY <1>8
  <2>2. head[5] = lens[1] /\ head[6] = lens[2] /\ head[7] = lens[3]
    <3>1. head[4 + 1] = lens[1] /\ head[4 + 2] = lens[2] /\ head[4 + 3] = lens[3]
      BY <1>5
    <3> QED
      BY <3>1
  <2> QED
    BY <1>2, <2>1, <2>2
<1>11. \A k \in 1..4 : msg[k] = Signature.bufr[k]
  BY <1>5, <1>8
<1>12. Len(msg) = 12 + n
  BY <1>1, <1>7
<1> QED
  BY <1>1, <1>9, <1>10, <1>11, <1>12 DEF n

(* And a CREX one: its signature, and its end. *)
LEMMA CrexShape ==
  ASSUME NEW body \in CrexBodies
  PROVE  LET msg == CrexMessage(body)
         IN /\ Len(body) \in Nat /\ Len(msg) = 15 + Len(body)
            /\ \A k \in 1..6 : msg[k] = Signature.crex[k]
            /\ \A k \in 1..9 : msg[6 + Len(body) + k] = CrexEnd[k]
<1> DEFINE n == Len(body)
           most == Signature.crex \o body
           msg == most \o CrexEnd
<1>1. body \in Seq(Byte) /\ n \in Nat
  BY StreamsAssumption, LenProperties DEF StreamsAssumption
<1> HIDE DEF n
<1>2. CrexEnd \in Seq(Byte) /\ Len(CrexEnd) = 9
  BY DEF CrexEnd, Byte, Plus, CR, LF, Seven
<1>3. Signature.crex \in Seq(Byte) /\ Len(Signature.crex) = 6
  BY DEF Signature, Byte
<1>4. /\ most \in Seq(Byte) /\ Len(most) = 6 + n
      /\ \A k \in 1..6 : most[k] = Signature.crex[k]
  <2>1. PICK s, j : s = Signature.crex /\ j = most
    OBVIOUS
  <2>2. s \in Seq(Byte) /\ body \in Seq(Byte) /\ IsJoin(j, s, body)
    BY <1>1, <1>3, <2>1 DEF most, IsJoin
  <2>3. /\ j \in Seq(Byte) /\ Len(j) = Len(s) + Len(body)
        /\ \A k \in 1..Len(s) : j[k] = s[k]
        /\ \A k \in 1..Len(body) : j[Len(s) + k] = body[k]
    BY <2>2, Joined
  <2>4. n \in Nat /\ Len(s) = 6 /\ Len(body) = n
    BY <1>1, <1>3, <2>1 DEF n
  <2>5. /\ j \in Seq(Byte) /\ Len(j) = 6 + n
        /\ \A k \in 1..6 : j[k] = s[k]
    BY <2>3, <2>4
  <2> QED
    BY <2>1, <2>5
<1> HIDE DEF most
<1>5. /\ Len(msg) = (6 + n) + 9
      /\ \A k \in 1..(6 + n) : msg[k] = most[k]
      /\ \A k \in 1..9 : msg[(6 + n) + k] = CrexEnd[k]
  <2>1. PICK s, t, j, l : s = most /\ t = CrexEnd /\ j = msg /\ l = 6 + n
    OBVIOUS
  <2>2. s \in Seq(Byte) /\ t \in Seq(Byte) /\ IsJoin(j, s, t)
    BY <1>1, <1>2, <1>4, <2>1 DEF IsJoin
  <2>3. /\ j \in Seq(Byte) /\ Len(j) = Len(s) + Len(t)
        /\ \A k \in 1..Len(s) : j[k] = s[k]
        /\ \A k \in 1..Len(t) : j[Len(s) + k] = t[k]
    BY <2>2, Joined
  <2>4. l \in Nat /\ Len(s) = l /\ Len(t) = 9
    BY <1>1, <1>2, <1>4, <2>1
  <2>5. /\ Len(j) = l + 9
        /\ \A k \in 1..l : j[k] = s[k]
        /\ \A k \in 1..9 : j[l + k] = t[k]
    BY <2>3, <2>4
  <2> QED
    BY <2>1, <2>5
<1>6. msg = CrexMessage(body)
  BY DEF CrexMessage, most
<1> HIDE DEF msg
<1>7. \A k \in 1..6 : msg[k] = Signature.crex[k]
  <2>1. \A k \in 1..6 : k \in 1..(6 + n)
    BY <1>1
  <2> QED
    BY <1>4, <1>5, <2>1
<1>8. \A k \in 1..9 : msg[6 + n + k] = CrexEnd[k]
  BY <1>5
<1>9. Len(msg) = 15 + n
  BY <1>1, <1>5
<1> QED
  BY <1>1, <1>6, <1>7, <1>8, <1>9 DEF n

----------------------------------------------------------------------------
(* The automaton on a message: where it is after each byte of the end, *)
GotAfter == <<1, 2, 3, 3, 3, 5, 6, 7, 8>>
InEnd(n, q, g) == \E d \in 1..9 : q = 6 + n + d /\ g = GotAfter[d]

\* and when q bytes are read, no more than the signature and the n bytes of the body.
InBody(bytes, n, q, g) ==
  q <= 6 + n /\ g \in {0, 1} /\ (g = 1 => q > 6 /\ bytes[q] = Plus)

OneEnd(bytes, n) ==
  \A k \in 7..14 + n : bytes[k] = Plus /\ bytes[k + 1] = Plus => k = 7 + n

(* The automaton goes on with every byte of the end of CREX. *)
LEMMA EndSteps ==
  \A d \in 1..8 : ScanStep(GotAfter[d], CrexEnd[d + 1]) = GotAfter[d + 1]
<1>1. GotAfter = <<1, 2, 3, 3, 3, 5, 6, 7, 8>>
  BY DEF GotAfter
<1>2. CrexEnd = <<43, 43, 13, 13, 10, 55, 55, 55, 55>>
  BY DEF CrexEnd, Plus, CR, LF, Seven
<1>3. Target = <<43, 43, 13, 10, 55, 55, 55, 55>>
  BY DEF Target, Plus, CR, LF, Seven
<1>4. \A n, c : ScanStep(n, c) =
        IF Target[n + 1] = 10 /\ c \in {13, 10} THEN n
        ELSE IF Target[n + 1] = 10 /\ c = 55 THEN n + 2
        ELSE IF c = Target[n + 1] \/ (Target[n + 1] = 13 /\ c \in {13, 10}) THEN n + 1
        ELSE 0
  BY DEF ScanStep, IsEol, LF, CR, Seven
<1>5. /\ ScanStep(1, 43) = 2 /\ ScanStep(2, 13) = 3 /\ ScanStep(3, 13) = 3 /\ ScanStep(3, 10) = 3
      /\ ScanStep(3, 55) = 5 /\ ScanStep(5, 55) = 6 /\ ScanStep(6, 55) = 7 /\ ScanStep(7, 55) = 8
  BY <1>3, <1>4
<1>6. /\ GotAfter[1] = 1 /\ GotAfter[2] = 2 /\ GotAfter[3] = 3 /\ GotAfter[4] = 3 /\ GotAfter[5] = 3
      /\ GotAfter[6] = 5 /\ GotAfter[7] = 6 /\ GotAfter[8] = 7 /\ GotAfter[9] = 8
  BY <1>1
<1>7. /\ CrexEnd[2] = 43 /\ CrexEnd[3] = 13 /\ CrexEnd[4] = 13 /\ CrexEnd[5] = 10
      /\ CrexEnd[6] = 55 /\ CrexEnd[7] = 55 /\ CrexEnd[8] = 55 /\ CrexEnd[9] = 55
  BY <1>2
<1> SUFFICES ASSUME NEW d \in 1..8
             PROVE  ScanStep(GotAfter[d], CrexEnd[d + 1]) = GotAfter[d + 1]
  OBVIOUS
<1>8. CASE d = 1
  BY <1>5, <1>6, <1>7, <1>8
<1>9. CASE d = 2
  BY <1>5, <1>6, <1>7, <1>9
<1>10. CASE d = 3
  BY <1>5, <1>6, <1>7, <1>10
<1>11. CASE d = 4
  BY <1>5, <1>6, <1>7, <1>11
<1>12. CASE d = 5
  BY <1>5, <1>6, <1>7, <1>12
<1>13. CASE d = 6
  BY <1>5, <1>6, <1>7, <1>13
<1>14. CASE d = 7
  BY <1>5, <1>6, <1>7, <1>14
<1>15. CASE d = 8
  BY <1>5, <1>6, <1>7, <1>15
<1> QED
  BY <1>8, <1>9, <1>10, <1>11, <1>12, <1>13, <1>14, <1>15

(* A single plus takes it one step only. *)
LEMMA BodySteps ==
  /\ \A c : ScanStep(0, c) = IF c = Plus THEN 1 ELSE 0
  /\ \A c : ScanStep(1, c) = IF c = Plus THEN 2 ELSE 0
<1>1. Target[1] = 43 /\ Target[2] = 43
  BY DEF Target, Plus, CR, LF, Seven
<1> QED
  BY <1>1 DEF ScanStep, IsEol, LF, CR, Seven, Plus

(* One byte more of a message. *)
LEMMA ScanGoesOn ==
  ASSUME NEW bytes, NEW n \in Nat, OneEnd(bytes, n),
         \A k \in 1..9 : bytes[6 + n + k] = CrexEnd[k],
         NEW q \in 6..14 + n, NEW g, InBody(bytes, n, q, g) \/ InEnd(n, q, g),
         NEW next, next = ScanStep(g, bytes[q + 1])
  PROVE  InBody(bytes, n, q + 1, next) \/ InEnd(n, q + 1, next)
<1>1. CASE InEnd(n, q, g)
  <2>1. PICK d \in 1..9 : q = 6 + n + d /\ g = GotAfter[d]
    BY <1>1 DEF InEnd
  <2>2. d \in 1..8 /\ d + 1 \in 1..9 /\ q + 1 = 6 + n + (d + 1)
    BY <2>1
  <2>3. bytes[q + 1] = CrexEnd[d + 1]
    BY <2>2
  <2>4. next = GotAfter[d + 1]
    BY <2>1, <2>2, <2>3, EndSteps
  <2> QED
    BY <2>2, <2>4 DEF InEnd
<1>2. CASE InBody(bytes, n, q, g)
  <2>1. q <= 6 + n /\ g \in {0, 1} /\ (g = 1 => q > 6 /\ bytes[q] = Plus)
    BY <1>2 DEF InBody
  <2>2. g = 1 => bytes[q + 1] # Plus
    <3> SUFFICES ASSUME g = 1, bytes[q + 1] = Plus PROVE FALSE
      OBVIOUS
    <3>1. q \in 7..14 + n /\ bytes[q] = Plus
      BY <2>1
    <3>2. q = 7 + n
      BY <3>1 DEF OneEnd
    <3> QED
      BY <2>1, <3>2
  <2>3. next \in {0, 1} /\ (next = 1 => g = 0 /\ bytes[q + 1] = Plus)
    BY <2>1, <2>2, BodySteps
  <2>4. CASE q + 1 <= 6 + n
    <3>1. q + 1 > 6
      OBVIOUS
    <3> QED
      BY <2>3, <2>4, <3>1 DEF InBody
  <2>5. CASE ~(q + 1 <= 6 + n)
    <3>1. q + 1 = 6 + n + 1
      BY <2>1, <2>5
    <3>2. bytes[q + 1] = Plus
      <4>1. CrexEnd[1] = Plus
        BY DEF CrexEnd, Plus, CR, LF, Seven
      <4> QED
        BY <3>1, <4>1
    <3>3. next = 1
      BY <2>1, <2>2, <3>2, BodySteps
    <3>4. GotAfter[1] = 1
      BY DEF GotAfter
    <3> QED
      BY <3>1, <3>3, <3>4 DEF InEnd
  <2> QED
    BY <2>4, <2>5
<1> QED
  BY <1>1, <1>2

(* What that says of the end: it is seen where the message ends, and nowhere else. *)
LEMMA ScanEnds ==
  ASSUME NEW bytes, NEW n \in Nat, NEW q \in 6..15 + n, NEW g,
         InBody(bytes, n, q, g) \/ InEnd(n, q, g)
  PROVE  g = 8 <=> q = 15 + n
<1>1. CASE InBody(bytes, n, q, g)
  <2>1. g # 8 /\ q <= 6 + n
    BY <1>1 DEF InBody
  <2> QED
    BY <2>1
<1>2. CASE InEnd(n, q, g)
  <2>1. PICK d \in 1..9 : q = 6 + n + d /\ g = GotAfter[d]
    BY <1>2 DEF InEnd
  <2>2. GotAfter[d] = 8 <=> d = 9
    BY DEF GotAfter
  <2> QED
    BY <2>1, <2>2
<1> QED
  BY <1>1, <1>2

----------------------------------------------------------------------------
(* What was written stays in the file. *)
Sendable == [format: Formats, at: Nat, bytes: Seq(Byte), whole: BOOLEAN]
AsEncoded(m) ==
  \/ m.format = "bufr" /\ \E body \in BufrBodies : m.bytes = BufrMessage(body)
  \/ m.format = "crex" /\ \E body \in CrexBodies : m.bytes = CrexMessage(body)

(* Messages are as they were encoded, a whole one is in the file, and the next
   one is after it. *)
WrittenInv ==
  /\ sent \in Seq(Sendable)
  /\ \A i \in DOMAIN sent :
       AsEncoded(sent[i]) /\ (sent[i].whole => Occurs(sent[i].bytes, sent[i].at))
  /\ \A i, j \in DOMAIN sent :
       i < j /\ sent[i].whole => sent[i].at + Len(sent[i].bytes) <= sent[j].at

(* Bytes that are all in place are a piece of the file. *)
LEMMA PieceIs ==
  ASSUME NEW g \in Seq(Byte), NEW w \in Seq(Byte), NEW p \in Nat, p + Len(w) <= Len(g),
         \A k \in 1..Len(w) : g[p + k] = w[k]
  PROVE  SubSeq(g, p + 1, p + Len(w)) = w
<1> DEFINE sub == SubSeq(g, p + 1, p + Len(w))
<1>1. Len(w) \in Nat /\ Len(g) \in Nat
  BY LenProperties
<1>2. \A i \in p + 1..p + Len(w) : g[i] \in Byte
  <2> TAKE i \in p + 1..p + Len(w)
  <2>1. i \in 1..Len(g)
    BY <1>1
  <2> QED
    BY <2>1, ElementOfSeq
<1>3. /\ sub \in Seq(Byte)
      /\ Len(sub) = IF p + 1 <= p + Len(w) THEN p + Len(w) - (p + 1) + 1 ELSE 0
      /\ \A i \in 1..p + Len(w) - (p + 1) + 1 : sub[i] = g[p + 1 + i - 1]
  <2>1. p + 1 \in Int /\ p + Len(w) \in Int
    BY <1>1
  <2> QED
    BY <2>1, <1>2, SubSeqProperties
<1> HIDE DEF sub
<1>4. Len(sub) = Len(w)
  BY <1>1, <1>3
<1>5. \A i \in 1..Len(w) : sub[i] = w[i]
  <2> TAKE i \in 1..Len(w)
  <2>1. i \in 1..p + Len(w) - (p + 1) + 1 /\ p + 1 + i - 1 = p + i
    BY <1>1
  <2> QED
    BY <1>3, <2>1
<1>6. sub = w
  BY <1>3, <1>4, <1>5, SeqEqual
<1> QED
  BY <1>6 DEF sub

(* The bytes of a piece of the file. *)
LEMMA BytesOfPiece ==
  ASSUME NEW g \in Seq(Byte), NEW w \in Seq(Byte), NEW p \in Nat, p + Len(w) <= Len(g),
         SubSeq(g, p + 1, p + Len(w)) = w
  PROVE  \A k \in 1..Len(w) : g[p + k] = w[k]
<1>1. Len(w) \in Nat /\ Len(g) \in Nat
  BY LenProperties
<1>2. \A i \in p + 1..p + Len(w) : g[i] \in Byte
  <2> TAKE i \in p + 1..p + Len(w)
  <2>1. i \in 1..Len(g)
    BY <1>1
  <2> QED
    BY <2>1, ElementOfSeq
<1>3. \A i \in 1..p + Len(w) - (p + 1) + 1 : SubSeq(g, p + 1, p + Len(w))[i] = g[p + 1 + i - 1]
  <2>1. p + 1 \in Int /\ p + Len(w) \in Int
    BY <1>1
  <2> QED
    BY <2>1, <1>2, SubSeqProperties
<1> TAKE k \in 1..Len(w)
<1>4. k \in 1..p + Len(w) - (p + 1) + 1 /\ p + 1 + k - 1 = p + k
  BY <1>1
<1> QED
  BY <1>3, <1>4

IsPiece(g, w, p) == p + Len(w) <= Len(g) /\ SubSeq(g, p + 1, p + Len(w)) = w

(* What is in a file is still there when more is put after it. *)
LEMMA StaysInFile ==
  ASSUME NEW f \in Seq(Byte), NEW b \in Seq(Byte), NEW g, IsJoin(g, f, b),
         NEW w \in Seq(Byte), NEW p \in Nat, IsPiece(f, w, p)
  PROVE  IsPiece(g, w, p)
<1>0. p + Len(w) <= Len(f) /\ SubSeq(f, p + 1, p + Len(w)) = w
  BY DEF IsPiece
<1>1. /\ g \in Seq(Byte) /\ Len(g) = Len(f) + Len(b)
      /\ \A k \in 1..Len(f) : g[k] = f[k]
  BY Joined
<1>2. Len(f) \in Nat /\ Len(b) \in Nat /\ Len(w) \in Nat
  BY LenProperties
<1>3. p + Len(w) <= Len(g)
  BY <1>0, <1>1, <1>2
<1>4. \A k \in 1..Len(w) : f[p + k] = w[k]
  BY <1>0, BytesOfPiece
<1>5. \A k \in 1..Len(w) : p + k \in 1..Len(f)
  BY <1>0, <1>2
<1>6. \A k \in 1..Len(w) : g[p + k] = w[k]
  BY <1>1, <1>4, <1>5
<1> QED
  BY <1>1, <1>3, <1>6, PieceIs DEF IsPiece

(* A message is where it is put. *)
LEMMA PutInFile ==
  ASSUME NEW f \in Seq(Byte), NEW msg \in Seq(Byte), NEW eol \in Seq(Byte),
         NEW b, IsJoin(b, msg, eol), NEW g, IsJoin(g, f, b)
  PROVE  IsPiece(g, msg, Len(f))
<1>0. b \in Seq(Byte)
  BY Joined
<1>1. /\ b \in Seq(Byte) /\ Len(b) = Len(msg) + Len(eol)
      /\ \A k \in 1..Len(msg) : b[k] = msg[k]
  BY Joined
<1>2. /\ g \in Seq(Byte) /\ Len(g) = Len(f) + Len(b)
      /\ \A k \in 1..Len(b) : g[Len(f) + k] = b[k]
  BY <1>0, Joined
<1>3. Len(f) \in Nat /\ Len(msg) \in Nat /\ Len(eol) \in Nat
  BY LenProperties
<1>4. Len(f) + Len(msg) <= Len(g)
  BY <1>1, <1>2, <1>3
<1>5. \A k \in 1..Len(msg) : k \in 1..Len(b)
  BY <1>1, <1>3
<1>6. \A k \in 1..Len(msg) : g[Len(f) + k] = msg[k]
  BY <1>1, <1>2, <1>5
<1> QED
  BY <1>2, <1>3, <1>4, <1>6, PieceIs DEF IsPiece

(* Nothing is written at the start. *)
LEMMA InitWritten == Init => WrittenInv
<1>1. Init => sent = <<>>
  BY DEF Init
<1> QED
  BY <1>1, EmptySeq DEF WrittenInv

(* What is in a file is there when more is appended. *)
LEMMA StaysOccurring ==
  ASSUME TypeOK, NEW bytes \in Seq(Byte), file' = file \o bytes,
         NEW w \in Seq(Byte), NEW p \in Nat, Occurs(w, p)
  PROVE  Occurs(w, p)'
<1>1. PICK f, g : f = file /\ g = file'
  OBVIOUS
<1>2. f \in Seq(Byte) /\ IsJoin(g, f, bytes)
  BY <1>1 DEF TypeOK, IsJoin
<1>3. IsPiece(f, w, p)
  BY <1>1 DEF Occurs, IsPiece
<1>4. IsPiece(g, w, p)
  BY <1>2, <1>3, StaysInFile
<1> QED
  BY <1>1, <1>4 DEF Occurs, IsPiece

(* Appending keeps what was written where it is. *)
LEMMA PutWrites ==
  ASSUME TypeOK, WrittenInv, NEW bytes \in Seq(Byte), Put(bytes), UNCHANGED sent
  PROVE  WrittenInv'
<1>1. file' = file \o bytes /\ sent' = sent
  BY DEF Put
<1>2. ASSUME NEW i \in DOMAIN sent, sent[i].whole
      PROVE  Occurs(sent[i].bytes, sent[i].at)'
  <2>1. sent[i] \in Sendable
    BY ElementOfSeq, LenProperties DEF WrittenInv
  <2>2. PICK w, p : w = sent[i].bytes /\ p = sent[i].at
    OBVIOUS
  <2>3. w \in Seq(Byte) /\ p \in Nat /\ Occurs(w, p)
    BY <1>2, <2>1, <2>2 DEF Sendable, WrittenInv
  <2>4. Occurs(w, p)'
    BY <1>1, <2>3, StaysOccurring
  <2> QED
    BY <1>1, <2>2, <2>4 DEF Occurs
<1> QED
  BY <1>1, <1>2 DEF WrittenInv, AsEncoded

(* A message more. *)
LEMMA WriteWrites ==
  ASSUME TypeOK, WrittenInv, NEW f \in Formats, NEW msg \in Seq(Byte), NEW eol \in Seq(Byte),
         NEW k \in Cuts \cup {0}, Write(f, msg, eol, k),
         \/ f = "bufr" /\ \E body \in BufrBodies : msg = BufrMessage(body)
         \/ f = "crex" /\ \E body \in CrexBodies : msg = CrexMessage(body)
  PROVE  WrittenInv'
<1>1. PICK bytes : bytes = IF k = 0 THEN msg \o eol ELSE SubSeq(msg, 1, Len(msg) - k)
  OBVIOUS
<1>2. bytes \in Seq(Byte)
  BY <1>1, BytesWritten
<1>3. PICK m : m = [format |-> f, at |-> Len(file), bytes |-> msg, whole |-> k = 0]
  OBVIOUS
<1>4. file' = file \o bytes /\ sent' = Append(sent, m)
  BY <1>1, <1>3 DEF Write, Put
<1>5. Len(file) \in Nat /\ file \in Seq(Byte)
  BY LenProperties DEF TypeOK
<1>6. /\ m \in Sendable /\ m.at = Len(file) /\ m.bytes = msg /\ m.format = f
      /\ m.whole <=> k = 0
  BY <1>3, <1>5 DEF Sendable
<1>7. AsEncoded(m)
  BY <1>6 DEF AsEncoded
<1>8. m.whole => IsPiece(file', m.bytes, m.at)
  <2> SUFFICES ASSUME k = 0 PROVE IsPiece(file', m.bytes, m.at)
    BY <1>6
  <2>1. PICK g : g = file'
    OBVIOUS
  <2>2. PICK h : h = file
    OBVIOUS
  <2>3. IsJoin(bytes, msg, eol) /\ IsJoin(g, h, bytes) /\ h \in Seq(Byte)
    BY <1>1, <1>4, <1>5, <2>1, <2>2 DEF IsJoin
  <2>4. IsPiece(g, msg, Len(h))
    BY <2>3, PutInFile
  <2> QED
    BY <1>6, <2>1, <2>2, <2>4 DEF IsPiece
<1>9. sent \in Seq(Sendable) /\ Len(sent) \in Nat /\ DOMAIN sent = 1..Len(sent)
  BY LenProperties DEF WrittenInv
<1>10. /\ sent' \in Seq(Sendable) /\ Len(sent') = Len(sent) + 1
       /\ \A i \in 1..Len(sent) : sent'[i] = sent[i]
       /\ sent'[Len(sent) + 1] = m
  BY <1>4, <1>6, <1>9, AppendProperties
<1>11. DOMAIN sent' = 1..Len(sent) + 1
  BY <1>10, LenProperties
<1>12. ASSUME NEW i \in DOMAIN sent
       PROVE  /\ AsEncoded(sent[i])
              /\ sent[i].whole => IsPiece(file', sent[i].bytes, sent[i].at)
              /\ sent[i].whole => sent[i].at + Len(sent[i].bytes) <= Len(file)
  <2>1. sent[i] \in Sendable
    BY <1>9, ElementOfSeq
  <2>2. PICK w, p : w = sent[i].bytes /\ p = sent[i].at
    OBVIOUS
  <2>3. w \in Seq(Byte) /\ p \in Nat /\ (sent[i].whole => Occurs(w, p)) /\ AsEncoded(sent[i])
    BY <2>1, <2>2 DEF Sendable, WrittenInv
  <2>4. Occurs(w, p) => Occurs(w, p)'
    BY <1>2, <1>4, <2>3, StaysOccurring
  <2>5. Occurs(w, p)' => IsPiece(file', w, p)
    BY DEF Occurs, IsPiece
  <2>6. Occurs(w, p) => p + Len(w) <= Len(file)
    BY DEF Occurs
  <2> QED
    BY <2>2, <2>3, <2>4, <2>5, <2>6
<1>13. /\ \A i \in DOMAIN sent' : AsEncoded(sent'[i])
       /\ \A i \in DOMAIN sent' :
            sent'[i].whole => IsPiece(file', sent'[i].bytes, sent'[i].at)
  <2> SUFFICES ASSUME NEW i \in DOMAIN sent'
               PROVE  /\ AsEncoded(sent'[i])
                      /\ sent'[i].whole => IsPiece(file', sent'[i].bytes, sent'[i].at)
    OBVIOUS
  <2>1. i \in 1..Len(sent) \/ i = Len(sent) + 1
    BY <1>9, <1>11
  <2> QED
    BY <1>7, <1>8, <1>9, <1>10, <1>12, <2>1
<1>14. ASSUME NEW i \in DOMAIN sent', NEW j \in DOMAIN sent', i < j, sent'[i].whole
       PROVE  sent'[i].at + Len(sent'[i].bytes) <= sent'[j].at
  <2>1. i \in 1..Len(sent) /\ (j \in 1..Len(sent) \/ j = Len(sent) + 1)
    BY <1>9, <1>11, <1>14
  <2>2. sent'[i] = sent[i] /\ sent[i].whole /\ i \in DOMAIN sent
    BY <1>9, <1>10, <1>14, <2>1
  <2>3. CASE j \in 1..Len(sent)
    <3>1. sent[i].at + Len(sent[i].bytes) <= sent[j].at
      BY <1>9, <1>14, <2>2, <2>3 DEF WrittenInv
    <3> QED
      BY <1>10, <2>2, <2>3, <3>1
  <2>4. CASE j = Len(sent) + 1
    BY <1>6, <1>10, <1>12, <2>2, <2>4
  <2> QED
    BY <2>1, <2>3, <2>4
<1>15. \A i \in DOMAIN sent' : sent'[i].whole => Occurs(sent[i].bytes, sent[i].at)'
  BY <1>13 DEF Occurs, IsPiece
<1>16. \A i \in DOMAIN sent' : AsEncoded(sent[i])'
  BY <1>13 DEF AsEncoded
<1> QED
  BY <1>10, <1>14, <1>15, <1>16 DEF WrittenInv

(* Every step keeps the invariant of what was written. *)
LEMMA NextWritten == ReadInv /\ WrittenInv /\ [Next]_vars => WrittenInv'
<1> SUFFICES ASSUME ReadInv, WrittenInv, [Next]_vars PROVE WrittenInv'
  OBVIOUS
<1>0. TypeOK
  BY DEF ReadInv
<1>1. CASE PutExtra
  <2>1. PICK bytes \in Extra : Put(bytes) /\ UNCHANGED sent
    BY <1>1 DEF PutExtra
  <2>2. bytes \in Seq(Byte)
    BY StreamsAssumption DEF StreamsAssumption
  <2> QED
    BY <1>0, <2>1, <2>2, PutWrites
<1>2. CASE BufrWrite
  <2>1. PICK body \in BufrBodies, k \in Cuts \cup {0} :
             Write("bufr", BufrMessage(body), <<>>, k)
    BY <1>2 DEF BufrWrite
  <2>2. BufrMessage(body) \in Seq(Byte) /\ <<>> \in Seq(Byte) /\ "bufr" \in Formats
    BY BufrBytes, EmptySeq DEF Formats
  <2> QED
    BY <1>0, <2>1, <2>2, WriteWrites
<1>3. CASE CrexWrite
  <2>1. PICK body \in CrexBodies, k \in Cuts \cup {0} :
             Write("crex", CrexMessage(body), CrexEol, k)
    BY <1>3 DEF CrexWrite
  <2>2. CrexMessage(body) \in Seq(Byte) /\ CrexEol \in Seq(Byte) /\ "crex" \in Formats
    BY CrexBytes DEF Formats
  <2> QED
    BY <1>0, <2>1, <2>2, WriteWrites
<1>4. CASE UNCHANGED <<file, sent>>
  BY <1>4 DEF WrittenInv, AsEncoded, Occurs
<1>5. Next => PutExtra \/ BufrWrite \/ CrexWrite \/ UNCHANGED <<file, sent>>
  BY DEF Next, Open, Call, Seek, SeekEnd, ReadHead, ReadRest, Scan, ScanEnd, Over,
         Reading, written, vars
<1>6. UNCHANGED vars => UNCHANGED <<file, sent>>
  BY DEF vars, written
<1> QED
  BY <1>1, <1>2, <1>3, <1>4, <1>5, <1>6

----------------------------------------------------------------------------
(* ReadsWhatWasWritten, in parts.  Whose function goes where. *)
Reader ==
  /\ pc \in {"head", "rest"} => format = "bufr"
  /\ pc = "scan" => format = "crex"

AsRead(m) == [at |-> m.at, bytes |-> m.bytes]
GivenWritten == \A i \in DOMAIN received : \E m \in Intended : received[i] = AsRead(m)

(* A message that begins before the end of the last one given back was given back. *)
PassedGiven ==
  \A m \in Intended :
    m.at < LastEnd => m.at + Len(m.bytes) <= LastEnd /\ AsRead(m) \in Given

(* Each message given back ends before the next one, not only the one before. *)
Ordered ==
  /\ \A i \in DOMAIN received : EndOf(received[i]) <= LastEnd
  /\ \A i, j \in DOMAIN received : i < j => EndOf(received[i]) <= received[j].at

(* The automaton is where the message that it reads has brought it. *)
ScanAt(m, q) ==
  \E n \in Nat :
    /\ n + 15 = Len(m.bytes) /\ q \in 6..14 + n
    /\ InBody(m.bytes, n, q, got) \/ InEnd(n, q, got)
OnTarget == pc = "scan" => \A m \in Intended : m.at = offset => ScanAt(m, pos - offset)

BackInv ==
  /\ FindInv /\ WrittenInv /\ Reader /\ Ordered
  /\ Readable => GivenWritten /\ PassedGiven /\ OnTarget /\ pc # "throw"

(* Whether a file can be read depends on what was written only. *)
LEMMA SameReadable ==
  ASSUME UNCHANGED <<file, sent, format>>
  PROVE  (Readable' <=> Readable) /\ Intended' = Intended
<1>1. Intended' = Intended
  BY DEF Intended
<1>2. Clear' <=> Clear
  BY SameFile
<1>3. \A what, p : Occurs(what, p)' <=> Occurs(what, p)
  BY SameFile
<1>4. \A a, b : OnePlusPlus(a, b)' <=> OnePlusPlus(a, b)
  BY DEF OnePlusPlus, Occurs
<1>5. Positions' = Positions
  BY DEF Positions
<1>6. \A m, p : Holds(m, p)' <=> Holds(m, p)
  BY DEF Holds
<1>7. (\A p \in Positions : Occurs(Signature[format], p) => \E m \in Intended : Holds(m, p))' <=>
      (\A p \in Positions : Occurs(Signature[format], p) => \E m \in Intended : Holds(m, p))
  BY <1>1, <1>5 DEF Occurs, Holds
<1>8. (format = "crex" => \A m \in Intended : OnePlusPlus(m.at + 6, m.at + Len(m.bytes)))' <=>
      (format = "crex" => \A m \in Intended : OnePlusPlus(m.at + 6, m.at + Len(m.bytes)))
  BY <1>1 DEF OnePlusPlus, Occurs
<1>9. (\A m \in Intended : m.whole)' <=> (\A m \in Intended : m.whole)
  BY <1>1
<1> QED
  BY <1>1, <1>2, <1>7, <1>8, <1>9 DEF Readable

(* Each message of the format is a whole one, and is in the file. *)
LEMMA IntendedIs ==
  ASSUME TypeOK, WrittenInv, Readable, NEW m \in Intended
  PROVE  /\ m.at \in Nat /\ m.bytes \in Seq(Byte) /\ Len(m.bytes) \in Nat
         /\ m.format = format /\ m.whole /\ AsEncoded(m)
         /\ Occurs(m.bytes, m.at) /\ m.at + Len(m.bytes) <= Len(file)
         /\ \A k \in 1..Len(m.bytes) : file[m.at + k] = m.bytes[k]
<1>1. PICK i \in DOMAIN sent : m = sent[i] /\ m.format = format
  BY DEF Intended
<1>2. m \in Sendable
  BY <1>1, ElementOfSeq, LenProperties DEF WrittenInv
<1>3. /\ m.at \in Nat /\ m.bytes \in Seq(Byte) /\ Len(m.bytes) \in Nat
  BY <1>2, LenProperties DEF Sendable
<1>4. m.whole /\ AsEncoded(m) /\ Occurs(m.bytes, m.at)
  BY <1>1 DEF Readable, WrittenInv
<1>5. m.at + Len(m.bytes) <= Len(file)
  BY <1>4 DEF Occurs
<1>6. \A k \in 1..Len(m.bytes) : file[m.at + k] = m.bytes[k]
  <2>1. PICK w, p : w = m.bytes /\ p = m.at
    OBVIOUS
  <2>2. w \in Seq(Byte) /\ p \in Nat /\ Occurs(w, p) /\ file \in Seq(Byte)
    BY <1>3, <1>4, <2>1 DEF TypeOK
  <2>3. \A k \in 1..Len(w) : file[p + k] = w[k]
    BY <2>2, OccursAt
  <2> QED
    BY <2>1, <2>3
<1> QED
  BY <1>1, <1>3, <1>4, <1>5, <1>6

(* A BUFR message that was written whole: signature and length. *)
LEMMA IntendedBufr ==
  ASSUME TypeOK, WrittenInv, Readable, NEW m \in Intended, format = "bufr"
  PROVE  \E n \in Nat :
           /\ Len(m.bytes) = 12 + n
           /\ \A k \in 1..4 : m.bytes[k] = Signature[format][k]
           /\ m.bytes[5] = 0 /\ m.bytes[6] = 0 /\ m.bytes[7] = 12 + n
<1>1. AsEncoded(m) /\ m.format = "bufr"
  BY IntendedIs
<1>2. PICK body \in BufrBodies : m.bytes = BufrMessage(body)
  BY <1>1 DEF AsEncoded
<1>3. Signature[format] = Signature.bufr
  BY DEF Signature
<1> QED
  BY <1>2, <1>3, BufrShape

(* A CREX message that was written whole: signature and end. *)
LEMMA IntendedCrex ==
  ASSUME TypeOK, WrittenInv, Readable, NEW m \in Intended, format = "crex"
  PROVE  \E n \in Nat :
           /\ Len(m.bytes) = 15 + n
           /\ \A k \in 1..6 : m.bytes[k] = Signature[format][k]
           /\ \A k \in 1..9 : m.bytes[6 + n + k] = CrexEnd[k]
<1>1. AsEncoded(m) /\ m.format = "crex"
  BY IntendedIs
<1>2. PICK body \in CrexBodies : m.bytes = CrexMessage(body)
  BY <1>1 DEF AsEncoded
<1>3. Signature[format] = Signature.crex
  BY DEF Signature
<1> QED
  BY <1>2, <1>3, CrexShape

(* A message begins with a signature. *)
LEMMA IntendedSigned ==
  ASSUME TypeOK, WrittenInv, Readable, NEW m \in Intended
  PROVE  Occurs(Signature[format], m.at) /\ Len(Signature[format]) <= Len(m.bytes)
<1>1. format \in Formats /\ file \in Seq(Byte)
  BY DEF TypeOK
<1>2. /\ Signature[format] \in Seq(Byte)
      /\ Len(Signature[format]) <= Len(m.bytes)
      /\ \A k \in 1..Len(Signature[format]) : m.bytes[k] = Signature[format][k]
  <2>1. CASE format = "bufr"
    <3>1. PICK n \in Nat : /\ Len(m.bytes) = 12 + n
                           /\ \A k \in 1..4 : m.bytes[k] = Signature[format][k]
      BY <2>1, IntendedBufr
    <3>2. Signature[format] \in Seq(Byte) /\ Len(Signature[format]) = 4
      BY <1>1, <2>1, Signatures
    <3> QED
      BY <3>1, <3>2
  <2>2. CASE format = "crex"
    <3>1. PICK n \in Nat : /\ Len(m.bytes) = 15 + n
                           /\ \A k \in 1..6 : m.bytes[k] = Signature[format][k]
      BY <2>2, IntendedCrex
    <3>2. Signature[format] \in Seq(Byte) /\ Len(Signature[format]) = 6
      BY <2>2 DEF Signature, Byte
    <3> QED
      BY <3>1, <3>2
  <2> QED
    BY <1>1, <2>1, <2>2 DEF Formats
<1>3. /\ m.at \in Nat /\ m.at + Len(m.bytes) <= Len(file)
      /\ \A k \in 1..Len(m.bytes) : file[m.at + k] = m.bytes[k]
      /\ Len(m.bytes) \in Nat /\ Len(file) \in Nat
  BY <1>1, IntendedIs, LenProperties
<1>4. PICK sig, p : sig = Signature[format] /\ p = m.at
  OBVIOUS
<1>5. sig \in Seq(Byte) /\ Len(sig) \in Nat
  BY <1>2, <1>4, LenProperties
<1>6. /\ p + Len(sig) <= Len(file)
      /\ \A k \in 1..Len(sig) : file[p + k] = sig[k]
  BY <1>2, <1>3, <1>4, <1>5
<1>7. Occurs(sig, p)
  BY <1>1, <1>3, <1>4, <1>5, <1>6, OccursAt
<1> QED
  BY <1>2, <1>4, <1>7

(* No byte is of two messages. *)
LEMMA IntendedApart ==
  ASSUME WrittenInv, Readable, NEW m \in Intended, NEW o \in Intended
  PROVE  \/ m = o
         \/ m.at + Len(m.bytes) <= o.at
         \/ o.at + Len(o.bytes) <= m.at
<1>1. PICK i \in DOMAIN sent : m = sent[i]
  BY DEF Intended
<1>2. PICK j \in DOMAIN sent : o = sent[j]
  BY DEF Intended
<1>3. m.whole /\ o.whole
  BY DEF Readable
<1>4. i \in Nat /\ j \in Nat
  BY LenProperties DEF WrittenInv
<1>5. i < j \/ j < i \/ i = j
  BY <1>4
<1> QED
  BY <1>1, <1>2, <1>3, <1>5 DEF WrittenInv

(* What read is in is a message that was written. *)
LEMMA InWritten ==
  ASSUME FindInv, WrittenInv, Readable, PassedGiven, InMessage
  PROVE  \E m \in Intended : m.at = offset
<1>1. ReadInv /\ TypeOK /\ Clear
  BY DEF FindInv, ReadInv, Readable
<1>2. Occurs(Signature[format], offset) /\ NothingIn(LastEnd, offset)
  BY <1>1 DEF FindInv, FoundNow
<1>3. offset \in Nat /\ offset \in Positions /\ LastEnd \in Nat /\ LastEnd <= offset
  BY <1>1, LastEndIsNat, LenProperties DEF TypeOK, Positions, ReadInv, Forward
<1>4. PICK m \in Intended : Holds(m, offset)
  BY <1>2, <1>3 DEF Readable
<1>5. /\ m.at \in Nat /\ Len(m.bytes) \in Nat /\ m.at <= offset
      /\ offset < m.at + Len(m.bytes)
  BY <1>1, <1>4, IntendedIs DEF Holds
<1>6. ~(m.at < LastEnd)
  BY <1>3, <1>5 DEF PassedGiven
<1>7. ~(m.at < offset)
  <2> SUFFICES ASSUME m.at < offset PROVE FALSE
    OBVIOUS
  <2>1. m.at \in LastEnd..offset - 1
    BY <1>3, <1>5, <1>6
  <2>2. Occurs(Signature[format], m.at)
    BY <1>1, IntendedSigned
  <2> QED
    BY <1>2, <2>1, <2>2 DEF NothingIn
<1> QED
  BY <1>3, <1>5, <1>7

(* No two messages were written at one place. *)
LEMMA OneIsThere ==
  ASSUME TypeOK, WrittenInv, Readable,
         NEW m \in Intended, NEW o \in Intended, m.at = o.at
  PROVE  m = o
<1>1. /\ m.at \in Nat /\ Len(m.bytes) \in Nat /\ Len(o.bytes) \in Nat
      /\ Len(Signature[format]) <= Len(m.bytes) /\ Len(Signature[format]) <= Len(o.bytes)
  BY IntendedIs, IntendedSigned
<1>2. Len(Signature[format]) \in {4, 6}
  BY Signatures DEF TypeOK
<1>3. Len(m.bytes) > 0 /\ Len(o.bytes) > 0
  <2>1. \A l \in {4, 6}, x \in Nat : l <= x => x > 0
    OBVIOUS
  <2> QED
    BY <1>1, <1>2, <2>1
<1>4. m = o \/ m.at + Len(m.bytes) <= o.at \/ o.at + Len(o.bytes) <= m.at
  BY IntendedApart
<1> QED
  BY <1>1, <1>3, <1>4

----------------------------------------------------------------------------
(* A step that gives nothing back, and leaves the file as it is. *)
LEMMA NothingGiven ==
  ASSUME BackInv, FindInv', WrittenInv', UNCHANGED <<file, sent, format, received>>,
         Reader',
         Readable => OnTarget' /\ pc' # "throw"
  PROVE  BackInv'
<1>1. (Readable' <=> Readable) /\ Intended' = Intended
  BY SameReadable
<1>2. LastEnd' = LastEnd /\ Given' = Given
  BY DEF LastEnd, From, EndOf, Given
<1>3. Ordered'
  BY <1>2 DEF BackInv, Ordered, EndOf
<1>4. GivenWritten => GivenWritten'
  BY <1>1 DEF GivenWritten, AsRead
<1>5. PassedGiven => PassedGiven'
  BY <1>1, <1>2 DEF PassedGiven, AsRead
<1> QED
  BY <1>1, <1>3, <1>4, <1>5 DEF BackInv

(* The message is given back whole. *)
LEMMA MessageGiven ==
  ASSUME BackInv, FindInv', WrittenInv', UNCHANGED <<file, sent, format, offset>>,
         InMessage, pc' = "call",
         NEW bytes \in Seq(Byte), Occurs(bytes, offset), Return(bytes),
         pos' = offset + Len(bytes),
         Readable => \A m \in Intended : m.at = offset => Len(m.bytes) = Len(bytes)
  PROVE  BackInv'
<1>1. (Readable' <=> Readable) /\ Intended' = Intended
  BY SameReadable
<1>2. ReadInv /\ TypeOK /\ ReadInv'
  BY DEF BackInv, FindInv, ReadInv
<1>3. /\ GivenType' /\ LastEnd' = pos'
      /\ Len(received') = Len(received) + 1
      /\ \A i \in DOMAIN received : received'[i] = received[i]
      /\ Len(received) \in Nat /\ DOMAIN received = 1..Len(received)
  BY <1>2, GivenGrows
<1>4. DOMAIN received' = 1..Len(received) + 1
  BY <1>3, LenProperties DEF GivenType
<1>5. received'[Len(received) + 1] = [at |-> offset, bytes |-> bytes]
  <2>1. received \in Seq(Message) /\ [at |-> offset, bytes |-> bytes] \in Message
    BY <1>2 DEF ReadInv, GivenType, Message, TypeOK
  <2> QED
    BY <2>1, AppendProperties DEF Return
<1>6. offset \in Nat /\ Len(bytes) \in Nat /\ LastEnd \in Nat /\ LastEnd <= offset
  BY <1>2, LastEndIsNat, LenProperties DEF TypeOK, ReadInv, Forward
<1>7. LastEnd' = offset + Len(bytes) /\ LastEnd <= LastEnd'
  BY <1>3, <1>6
<1>8. \A i \in DOMAIN received : EndOf(received[i]) \in Nat
  <2> TAKE i \in DOMAIN received
  <2>1. received[i] \in Message
    BY <1>2, <1>3, ElementOfSeq DEF ReadInv, GivenType
  <2>2. received[i].at \in Nat /\ Len(received[i].bytes) \in Nat
    BY <2>1, LenProperties DEF Message
  <2> QED
    BY <2>2 DEF EndOf
<1>9. Ordered'
  <2>1. \A i \in DOMAIN received : EndOf(received[i]) <= LastEnd
    BY DEF BackInv, Ordered
  <2>2. EndOf(received'[Len(received) + 1]) = LastEnd' /\ received'[Len(received) + 1].at = offset
    BY <1>5, <1>7 DEF EndOf
  <2>3. \A i \in DOMAIN received' : EndOf(received'[i]) <= LastEnd'
    <3> TAKE i \in DOMAIN received'
    <3>1. CASE i \in DOMAIN received
      BY <1>3, <1>6, <1>7, <1>8, <2>1, <3>1
    <3>2. CASE i = Len(received) + 1
      BY <1>6, <1>7, <2>2, <3>2
    <3> QED
      BY <1>3, <1>4, <3>1, <3>2
  <2>4. ASSUME NEW i \in DOMAIN received', NEW j \in DOMAIN received', i < j
        PROVE  EndOf(received'[i]) <= received'[j].at
    <3>1. i \in DOMAIN received
      BY <1>3, <1>4, <2>4
    <3>2. CASE j \in DOMAIN received
      BY <1>3, <2>4, <3>1, <3>2 DEF BackInv, Ordered
    <3>3. CASE j = Len(received) + 1
      BY <1>3, <1>6, <1>8, <2>1, <2>2, <3>1, <3>3
    <3> QED
      BY <1>3, <1>4, <3>2, <3>3
  <2> QED
    BY <2>3, <2>4 DEF Ordered, EndOf
<1>10. SUFFICES ASSUME Readable
                PROVE  GivenWritten' /\ PassedGiven'
  BY <1>1, <1>9 DEF BackInv, Reader, OnTarget
<1>11. PICK m \in Intended : m.at = offset
  BY <1>10, InWritten DEF BackInv
<1>12. m.bytes = bytes
  <2>1. Occurs(m.bytes, offset) /\ Len(m.bytes) = Len(bytes)
    BY <1>2, <1>10, <1>11, IntendedIs DEF BackInv
  <2> QED
    BY <2>1 DEF Occurs
<1>13. AsRead(m) = received'[Len(received) + 1]
  BY <1>5, <1>11, <1>12 DEF AsRead
<1>14. GivenWritten'
  <2> SUFFICES ASSUME NEW i \in DOMAIN received'
               PROVE  \E o \in Intended : received'[i] = AsRead(o)
    BY <1>1 DEF GivenWritten, AsRead
  <2>1. CASE i \in DOMAIN received
    BY <1>3, <1>10, <2>1 DEF BackInv, GivenWritten
  <2>2. CASE i = Len(received) + 1
    BY <1>11, <1>13, <2>2
  <2> QED
    BY <1>3, <1>4, <2>1, <2>2
<1>15. \A r \in Given : r \in Given'
  BY <1>3, <1>4 DEF Given
<1>16. AsRead(m) \in Given'
  BY <1>3, <1>4, <1>13 DEF Given
<1>17. PassedGiven'
  <2> SUFFICES ASSUME NEW o \in Intended, o.at < LastEnd'
               PROVE  o.at + Len(o.bytes) <= LastEnd' /\ AsRead(o) \in Given'
    BY <1>1 DEF PassedGiven, AsRead
  <2>1. o.at \in Nat /\ Len(o.bytes) \in Nat
    BY <1>2, <1>10, IntendedIs DEF BackInv
  <2>2. CASE o.at < LastEnd
    <3>1. o.at + Len(o.bytes) <= LastEnd /\ AsRead(o) \in Given
      BY <1>10, <2>2 DEF BackInv, PassedGiven
    <3> QED
      BY <1>6, <1>7, <1>15, <2>1, <3>1
  <2>3. CASE ~(o.at < LastEnd)
    <3>1. ~(o.at < offset)
      <4> SUFFICES ASSUME o.at < offset PROVE FALSE
        OBVIOUS
      <4>1. o.at \in LastEnd..offset - 1
        BY <1>6, <2>1, <2>3
      <4>2. Occurs(Signature[format], o.at)
        BY <1>2, <1>10, IntendedSigned DEF BackInv
      <4>3. NothingIn(LastEnd, offset)
        BY <1>10 DEF BackInv, FindInv, FoundNow, Readable
      <4> QED
        BY <4>1, <4>2, <4>3 DEF NothingIn
    <3>2. o = m \/ o.at + Len(o.bytes) <= m.at \/ m.at + Len(m.bytes) <= o.at
      BY <1>10, IntendedApart DEF BackInv
    <3>3. Len(o.bytes) > 0
      <4>1. Len(Signature[format]) \in {4, 6} /\ Len(Signature[format]) <= Len(o.bytes)
        BY <1>2, <1>10, Signatures, IntendedSigned DEF BackInv, TypeOK
      <4>2. \A l \in {4, 6}, x \in Nat : l <= x => x > 0
        OBVIOUS
      <4> QED
        BY <2>1, <4>1, <4>2
    <3>4. o = m
      BY <1>6, <1>7, <1>11, <1>12, <2>1, <3>1, <3>2, <3>3
    <3> QED
      BY <1>6, <1>7, <1>11, <1>12, <1>16, <3>4
  <2> QED
    BY <2>2, <2>3
<1> QED
  BY <1>14, <1>17

----------------------------------------------------------------------------
(* The messages of the file are long enough for what is read of them. *)
LEMMA HeadBack ==
  ASSUME BackInv, FindInv', WrittenInv', ReadHead
  PROVE  BackInv'
<1>1. /\ pc = "head" /\ InMessage
      /\ UNCHANGED <<file, sent, format, received, offset>>
  BY DEF ReadHead, Reading, written, InMessage
<1>2. ReadInv /\ TypeOK
  BY DEF BackInv, FindInv, ReadInv
<1>3. IF 4 <= Left THEN pc' = "rest" ELSE pc' = "throw"
  BY DEF ReadHead, Fetch
<1>4. format = "bufr"
  BY <1>1 DEF BackInv, Reader
<1>5. Readable => 4 <= Left
  <2> SUFFICES ASSUME Readable PROVE 4 <= Left
    OBVIOUS
  <2>1. PICK m \in Intended : m.at = offset
    BY <1>1, InWritten DEF BackInv
  <2>2. m.at + Len(m.bytes) <= Len(file)
    BY <1>2, IntendedIs DEF BackInv
  <2>3. PICK n \in Nat : Len(m.bytes) = 12 + n
    BY <1>2, <1>4, IntendedBufr DEF BackInv
  <2>4. offset + Len(buf) = pos /\ Len(buf) = 4
    BY <1>1, <1>2 DEF ReadInv, Taken
  <2>5. pos \in Nat /\ Len(file) \in Nat /\ offset \in Nat
    BY <1>2, Numbers
  <2> QED
    BY <2>1, <2>2, <2>3, <2>4, <2>5 DEF Left
<1>6. Reader' /\ OnTarget'
  BY <1>1, <1>3, <1>4 DEF Reader, OnTarget
<1> QED
  BY <1>1, <1>3, <1>5, <1>6, NothingGiven

\* The length that a BUFR message says is its length.
(* The length that is read is the one that was written. *)
LEMMA LengthRead ==
  ASSUME BackInv, Readable, pc = "rest", NEW m \in Intended, m.at = offset
  PROVE  /\ DeclaredLength(buf) = Len(m.bytes) /\ Len(m.bytes) >= 12
         /\ Len(m.bytes) - 8 \in Nat /\ Len(m.bytes) - 8 <= Left
<1>1. ReadInv /\ TypeOK /\ format = "bufr"
  BY DEF BackInv, FindInv, ReadInv, Reader
<1>2. PICK n \in Nat : /\ Len(m.bytes) = 12 + n
                       /\ m.bytes[5] = 0 /\ m.bytes[6] = 0 /\ m.bytes[7] = 12 + n
  BY <1>1, IntendedBufr DEF BackInv
<1>3. /\ m.at + Len(m.bytes) <= Len(file)
      /\ \A k \in 1..Len(m.bytes) : file[m.at + k] = m.bytes[k]
  BY <1>1, IntendedIs DEF BackInv
<1>4. Occurs(buf, offset) /\ offset + Len(buf) = pos /\ Len(buf) = 8
  BY <1>1 DEF ReadInv, Taken, InMessage
<1>5. pos \in Nat /\ Len(file) \in Nat /\ offset \in Nat /\ buf \in Seq(Byte) /\ file \in Seq(Byte)
  BY <1>1, Numbers DEF TypeOK
<1>6. \A k \in 1..Len(buf) : file[offset + k] = buf[k]
  BY <1>4, <1>5, OccursAt
<1>7. \A k \in 1..8 : buf[k] = m.bytes[k]
  <2>1. \A k \in 1..8 : k \in 1..Len(m.bytes) /\ k \in 1..Len(buf)
    BY <1>2, <1>4
  <2> QED
    BY <1>3, <1>6, <2>1
<1>8. buf[5] = 0 /\ buf[6] = 0 /\ buf[7] = 12 + n
  BY <1>2, <1>7
<1>9. DeclaredLength(buf) = 12 + n
  BY SMT, <1>8 DEF DeclaredLength
<1>10. 12 + n - 8 \in Nat /\ 12 + n - 8 <= Left /\ 12 + n >= 12
  BY <1>2, <1>3, <1>4, <1>5 DEF Left
<1> QED
  BY <1>2, <1>9, <1>10

(* A BUFR message comes back as it was written. *)
LEMMA RestBack ==
  ASSUME BackInv, FindInv', WrittenInv', ReadRest
  PROVE  BackInv'
<1>1. /\ pc = "rest" /\ InMessage
      /\ UNCHANGED <<file, sent, format, offset>>
  BY DEF ReadRest, Reading, written, InMessage
<1>2. ReadInv /\ TypeOK /\ format = "bufr"
  BY <1>1 DEF BackInv, FindInv, ReadInv, Reader
<1>3. PICK len : len = DeclaredLength(buf)
  OBVIOUS
<1>4. Readable => \A m \in Intended : m.at = offset =>
        len = Len(m.bytes) /\ ~(len < MinLength) /\ len - 8 \in Nat /\ len - 8 <= Left
  <2> SUFFICES ASSUME Readable, NEW m \in Intended, m.at = offset
               PROVE  len = Len(m.bytes) /\ ~(len < MinLength) /\ len - 8 \in Nat /\ len - 8 <= Left
    OBVIOUS
  <2>1. len = Len(m.bytes) /\ len >= 12 /\ len - 8 \in Nat /\ len - 8 <= Left
    BY <1>1, <1>3, LengthRead
  <2>2. len \in Int
    BY <1>2, <2>1, IntendedIs DEF BackInv
  <2> QED
    BY <2>1, <2>2 DEF MinLength
<1>5. Readable => \E m \in Intended : m.at = offset
  BY <1>1, InWritten DEF BackInv
<1>6. CASE ~(len < MinLength) /\ len - 8 <= Left
  <2>1. Fetch(len - 8, "call") /\ Return(buf')
    BY <1>3, <1>6 DEF ReadRest
  <2>2. len - 8 \in Nat
    BY <1>1, <1>2, <1>3, <1>6, RestLength
  <2>3. pos' = pos + (len - 8) /\ buf' = buf \o Upcoming(len - 8) /\ pc' = "call"
    BY <1>6, <2>1 DEF Fetch
  <2>4. PICK bytes : bytes = buf'
    OBVIOUS
  <2>5. PICK n \in Nat : n = len - 8
    BY <2>2
  <2>6. /\ bytes \in Seq(Byte) /\ Occurs(bytes, offset) /\ Len(bytes) = Len(buf) + n
        /\ pos' = offset + Len(bytes)
    BY <1>1, <1>2, <1>6, <2>3, <2>4, <2>5, TakeMore
  <2>7. Return(bytes)
    BY <2>1, <2>4 DEF Return
  <2>8. Readable => \A m \in Intended : m.at = offset => Len(m.bytes) = Len(bytes)
    <3>1. Len(buf) = 8
      BY <1>1, <1>2 DEF ReadInv, Taken
    <3> SUFFICES ASSUME Readable, NEW m \in Intended, m.at = offset
                 PROVE  Len(m.bytes) = Len(bytes)
      OBVIOUS
    <3>2. len = Len(m.bytes) /\ Len(m.bytes) \in Nat
      BY <1>2, <1>4, IntendedIs DEF BackInv
    <3> QED
      BY <2>5, <2>6, <3>1, <3>2
  <2> QED
    BY <1>1, <2>3, <2>6, <2>7, <2>8, MessageGiven
<1>7. CASE len < MinLength \/ ~(len - 8 <= Left)
  <2>1. ~Readable
    BY <1>4, <1>5, <1>7
  <2>2. pc' = "throw" /\ UNCHANGED received
    BY <1>3, <1>7 DEF ReadRest, Fetch
  <2>3. Reader'
    BY <2>2 DEF Reader
  <2> QED
    BY <1>1, <2>1, <2>2, <2>3, NothingGiven
<1> QED
  BY <1>6, <1>7

(* Between two messages there is one ++ at most. *)
LEMMA NoTwo ==
  ASSUME NEW a, NEW b, OnePlusPlus(a, b), NEW p \in a..b - 2, NEW o \in a..b - 2,
         Occurs(<<Plus, Plus>>, p), Occurs(<<Plus, Plus>>, o)
  PROVE  p = o
BY Zenon DEF OnePlusPlus

(* The end of a CREX message is seen where it is. *)
LEMMA ScanOnTarget ==
  ASSUME BackInv, Readable, Scan, NEW m \in Intended, m.at = offset
  PROVE  \E n \in Nat :
           /\ n + 15 = Len(m.bytes) /\ pos' - offset \in 7..15 + n
           /\ \/ InBody(m.bytes, n, pos' - offset, got')
              \/ InEnd(n, pos' - offset, got')
<1>1. /\ pc = "scan" /\ pos' = pos + 1 /\ got' = ScanStep(got, NextByte)
  BY DEF Scan
<1>2. ReadInv /\ TypeOK /\ format = "crex"
  BY <1>1 DEF BackInv, FindInv, ReadInv, Reader
<1>3. ScanAt(m, pos - offset)
  BY <1>1 DEF BackInv, OnTarget
<1>4. PICK n \in Nat :
        /\ n + 15 = Len(m.bytes) /\ pos - offset \in 6..14 + n
        /\ InBody(m.bytes, n, pos - offset, got) \/ InEnd(n, pos - offset, got)
  BY <1>3 DEF ScanAt
<1>5. /\ m.at + Len(m.bytes) <= Len(file)
      /\ \A k \in 1..Len(m.bytes) : file[m.at + k] = m.bytes[k]
  BY <1>2, IntendedIs DEF BackInv
<1>6. pos \in Nat /\ Len(file) \in Nat /\ offset \in Nat /\ file \in Seq(Byte)
  BY <1>2, Numbers DEF TypeOK
<1>7. PICK q \in 6..14 + n : q = pos - offset
  BY <1>4
<1>8. NextByte = m.bytes[q + 1] /\ pos' - offset = q + 1
  <2>1. q + 1 \in 1..Len(m.bytes) /\ offset + (q + 1) = pos + 1
    BY <1>4, <1>6, <1>7
  <2> QED
    BY <1>1, <1>5, <1>6, <1>7, <2>1 DEF NextByte
<1>9. \A k \in 1..9 : m.bytes[6 + n + k] = CrexEnd[k]
  <2>1. PICK x \in Nat : /\ Len(m.bytes) = 15 + x
                         /\ \A k \in 1..9 : m.bytes[6 + x + k] = CrexEnd[k]
    BY <1>2, IntendedCrex DEF BackInv
  <2>2. x = n
    BY <1>4, <2>1
  <2> QED
    BY <2>1, <2>2
<1>10. OneEnd(m.bytes, n)
  <2>1. \A p \in Nat : p + 2 <= Len(file) /\ file[p + 1] = Plus /\ file[p + 2] = Plus =>
          Occurs(<<Plus, Plus>>, p)
    <3> SUFFICES ASSUME NEW p \in Nat, p + 2 <= Len(file),
                        file[p + 1] = Plus, file[p + 2] = Plus
                 PROVE  Occurs(<<Plus, Plus>>, p)
      OBVIOUS
    <3>1. PICK two : two = <<Plus, Plus>>
      OBVIOUS
    <3>2. two \in Seq(Byte) /\ Len(two) = 2 /\ two[1] = Plus /\ two[2] = Plus
      BY <3>1 DEF Byte, Plus
    <3>3. p + Len(two) <= Len(file)
      BY <3>2
    <3>4. \A k \in 1..Len(two) : file[p + k] = two[k]
      BY <3>2
    <3>5. Occurs(two, p)
      BY <1>6, <3>2, <3>3, <3>4, OccursAt
    <3> QED
      BY <3>1, <3>5
  <2>2. OnePlusPlus(m.at + 6, m.at + Len(m.bytes))
    BY <1>2 DEF Readable
  <2>3. Len(m.bytes) \in Nat /\ m.at \in Nat
    BY <1>4, <1>6
  <2>4. \A k \in 7..14 + n : m.bytes[k] = Plus /\ m.bytes[k + 1] = Plus =>
          Occurs(<<Plus, Plus>>, m.at + k - 1) /\ m.at + k - 1 \in m.at + 6..m.at + Len(m.bytes) - 2
    <3> SUFFICES ASSUME NEW k \in 7..14 + n, m.bytes[k] = Plus, m.bytes[k + 1] = Plus
                 PROVE  /\ Occurs(<<Plus, Plus>>, m.at + k - 1)
                        /\ m.at + k - 1 \in m.at + 6..m.at + Len(m.bytes) - 2
      OBVIOUS
    <3>1. PICK p \in Nat : p = m.at + k - 1
      BY <2>3
    <3>2. /\ p + 1 = m.at + k /\ p + 2 = m.at + (k + 1)
          /\ k \in 1..Len(m.bytes) /\ k + 1 \in 1..Len(m.bytes)
      <4>1. PICK a, l : a = m.at /\ l = Len(m.bytes)
        OBVIOUS
      <4>2. a \in Nat /\ l = n + 15 /\ p = a + k - 1
        BY <1>4, <2>3, <3>1, <4>1
      <4>3. p + 1 = a + k /\ p + 2 = a + (k + 1) /\ k \in 1..l /\ k + 1 \in 1..l
        BY <4>2
      <4> QED
        BY <4>1, <4>3
    <3>3. file[p + 1] = Plus /\ file[p + 2] = Plus
      BY <1>5, <3>2
    <3>4. p + 2 <= Len(file)
      BY <1>4, <1>5, <1>6, <2>3, <3>1
    <3>5. Occurs(<<Plus, Plus>>, p)
      BY <2>1, <3>3, <3>4
    <3>6. p \in m.at + 6..m.at + Len(m.bytes) - 2
      BY <1>4, <2>3, <3>1
    <3> QED
      BY <3>1, <3>5, <3>6
  <2>5. 7 + n \in 7..14 + n /\ m.bytes[7 + n] = Plus /\ m.bytes[(7 + n) + 1] = Plus
    <3>1. CrexEnd[1] = Plus /\ CrexEnd[2] = Plus
      BY DEF CrexEnd, Plus, CR, LF, Seven
    <3>2. 6 + n + 1 = 7 + n /\ 6 + n + 2 = (7 + n) + 1
      OBVIOUS
    <3> QED
      BY <1>9, <3>1, <3>2
  <2>6. ASSUME NEW k \in 7..14 + n, m.bytes[k] = Plus, m.bytes[k + 1] = Plus
        PROVE  k = 7 + n
    <3>1. PICK p, o, a, b : /\ p = m.at + k - 1 /\ o = m.at + (7 + n) - 1
                            /\ a = m.at + 6 /\ b = m.at + Len(m.bytes)
      OBVIOUS
    <3>2. Occurs(<<Plus, Plus>>, p) /\ p \in a..b - 2
      <4>1. Occurs(<<Plus, Plus>>, p)
        BY <2>4, <2>6, <3>1
      <4>2. PICK l, c : l = Len(m.bytes) /\ c = m.at
        OBVIOUS
      <4>3. l = n + 15 /\ c \in Nat
        BY <1>4, <2>3, <4>2
      <4>4. a = c + 6 /\ b = c + l /\ p = c + k - 1
        BY <3>1, <4>2
      <4> QED
        BY <4>1, <4>3, <4>4
    <3>3. Occurs(<<Plus, Plus>>, o) /\ o \in a..b - 2
      <4>1. Occurs(<<Plus, Plus>>, o)
        BY <2>4, <2>5, <3>1
      <4>2. PICK l, c : l = Len(m.bytes) /\ c = m.at
        OBVIOUS
      <4>3. l = n + 15 /\ c \in Nat
        BY <1>4, <2>3, <4>2
      <4>4. a = c + 6 /\ b = c + l /\ o = c + (7 + n) - 1
        BY <3>1, <4>2
      <4> QED
        BY <4>1, <4>3, <4>4
    <3>5. OnePlusPlus(a, b)
      BY <2>2, <3>1
    <3>4. p = o
      BY <3>2, <3>3, <3>5, NoTwo
    <3> QED
      BY <2>3, <3>1, <3>4
  <2> QED
    BY <2>6 DEF OneEnd
<1>11. PICK next : next = ScanStep(got, m.bytes[q + 1])
  OBVIOUS
<1>12. InBody(m.bytes, n, q, got) \/ InEnd(n, q, got)
  BY <1>4, <1>7
<1>13. InBody(m.bytes, n, q + 1, next) \/ InEnd(n, q + 1, next)
  BY <1>9, <1>10, <1>11, <1>12, ScanGoesOn
<1>14. got' = next
  BY <1>1, <1>8, <1>11
<1>15. q + 1 \in 7..15 + n
  BY <1>7
<1> QED
  BY <1>4, <1>8, <1>13, <1>14, <1>15

----------------------------------------------------------------------------
(* A CREX message comes back as it was written. *)
LEMMA ScanBack ==
  ASSUME BackInv, FindInv', WrittenInv', Scan
  PROVE  BackInv'
<1>1. /\ pc = "scan" /\ InMessage
      /\ UNCHANGED <<file, sent, format, offset>>
  BY DEF Scan, Reading, written, InMessage
<1>2. ReadInv /\ TypeOK /\ format = "crex"
  BY <1>1 DEF BackInv, FindInv, ReadInv, Reader
<1>3. Len(Target) = 8
  BY Targets
<1>4. /\ buf' \in Seq(Byte) /\ Occurs(buf', offset)
      /\ offset + Len(buf') = pos'
      /\ pos' \in Nat /\ offset \in Nat /\ Len(buf') \in Nat
  BY <1>2, ScanTakes, Numbers, LenProperties
<1>5. CASE got' = 8
  <2>1. pc' = "call" /\ Return(buf')
    BY <1>3, <1>5 DEF Scan
  <2>2. PICK bytes : bytes = buf'
    OBVIOUS
  <2>3. /\ bytes \in Seq(Byte) /\ Occurs(bytes, offset) /\ Return(bytes)
        /\ pos' = offset + Len(bytes) /\ Len(bytes) \in Nat
    BY <1>4, <2>1, <2>2 DEF Return
  <2>4. Readable => \A m \in Intended : m.at = offset => Len(m.bytes) = Len(bytes)
    <3> SUFFICES ASSUME Readable, NEW m \in Intended, m.at = offset
                 PROVE  Len(m.bytes) = Len(bytes)
      OBVIOUS
    <3>1. PICK n \in Nat :
           /\ n + 15 = Len(m.bytes) /\ pos' - offset \in 7..15 + n
           /\ \/ InBody(m.bytes, n, pos' - offset, got')
              \/ InEnd(n, pos' - offset, got')
      BY ScanOnTarget
    <3>2. PICK q, g : q = pos' - offset /\ g = got'
      OBVIOUS
    <3>3. q \in 6..15 + n /\ (InBody(m.bytes, n, q, g) \/ InEnd(n, q, g)) /\ g = 8
      BY <1>5, <3>1, <3>2
    <3>4. q = 15 + n
      BY <3>3, ScanEnds
    <3> QED
      BY <1>4, <2>3, <3>1, <3>2, <3>4
  <2> QED
    BY <1>1, <2>1, <2>3, <2>4, MessageGiven
<1>6. CASE got' # 8
  <2>1. UNCHANGED <<pc, received>>
    BY <1>3, <1>6 DEF Scan
  <2>2. Reader'
    BY <1>1, <1>2, <2>1 DEF Reader
  <2>3. Readable => OnTarget'
    <3> SUFFICES ASSUME Readable PROVE OnTarget'
      OBVIOUS
    <3>1. Intended' = Intended
      BY <1>1, SameReadable
    <3> SUFFICES ASSUME NEW m \in Intended, m.at = offset
                 PROVE  ScanAt(m, pos - offset)'
      BY <1>1, <3>1 DEF OnTarget, ScanAt, InBody, InEnd
    <3>2. PICK n \in Nat :
           /\ n + 15 = Len(m.bytes) /\ pos' - offset \in 7..15 + n
           /\ \/ InBody(m.bytes, n, pos' - offset, got')
              \/ InEnd(n, pos' - offset, got')
      BY ScanOnTarget
    <3>3. PICK q, g : q = pos' - offset /\ g = got'
      OBVIOUS
    <3>4. q \in 6..15 + n /\ (InBody(m.bytes, n, q, g) \/ InEnd(n, q, g)) /\ g # 8
      BY <1>6, <3>2, <3>3
    <3>5. q # 15 + n
      BY <3>4, ScanEnds
    <3>6. q \in 6..14 + n
      BY <3>4, <3>5
    <3> QED
      BY <1>1, <3>2, <3>3, <3>4, <3>6 DEF ScanAt
  <2>4. pc' # "throw"
    BY <1>1, <2>1
  <2> QED
    BY <1>1, <2>1, <2>2, <2>3, <2>4, NothingGiven
<1> QED
  BY <1>5, <1>6

(* A message that is whole does not end before its end is seen. *)
LEMMA ScanEndBack ==
  ASSUME BackInv, FindInv', WrittenInv', ScanEnd
  PROVE  BackInv'
<1>1. /\ pc = "scan" /\ InMessage /\ Left = 0 /\ pc' = "throw"
      /\ UNCHANGED <<file, sent, format, offset, received>>
  BY DEF ScanEnd, Reading, written, InMessage
<1>2. ReadInv /\ TypeOK
  BY <1>1 DEF BackInv, FindInv, ReadInv
<1>3. ~Readable
  <2> SUFFICES ASSUME Readable PROVE FALSE
    OBVIOUS
  <2>1. PICK m \in Intended : m.at = offset
    BY <1>1, InWritten DEF BackInv
  <2>2. PICK n \in Nat : n + 15 = Len(m.bytes) /\ pos - offset \in 6..14 + n
    BY <1>1, <2>1 DEF BackInv, OnTarget, ScanAt
  <2>3. m.at + Len(m.bytes) <= Len(file)
    BY <1>2, IntendedIs DEF BackInv
  <2>4. pos \in Nat /\ Len(file) \in Nat /\ offset \in Nat
    BY <1>2, Numbers
  <2> QED
    BY <1>1, <2>1, <2>2, <2>3, <2>4 DEF Left
<1>4. Reader'
  BY <1>1 DEF Reader
<1> QED
  BY <1>1, <1>3, <1>4, NothingGiven

(* Where a message is found, the automaton is at the beginning of its body. *)
LEMMA SeekBack ==
  ASSUME BackInv, FindInv', WrittenInv', Seek
  PROVE  BackInv'
<1>1. /\ pc = "seek" /\ pos' = pos + 1
      /\ UNCHANGED <<file, sent, format, received>>
  BY DEF Seek, Reading, written
<1>2. ReadInv /\ TypeOK /\ ReadInv' /\ TypeOK'
  BY DEF BackInv, FindInv, ReadInv
<1>3. \/ pc' = "seek"
      \/ /\ pc' = IF format = "bufr" THEN "head" ELSE "scan"
         /\ offset' = pos' - Len(Signature[format])
         /\ got' = 0
  BY <1>1 DEF Seek
<1>4. pc' # "throw" /\ Reader'
  BY <1>1, <1>2, <1>3 DEF Reader, TypeOK, Formats
<1>5. Readable => OnTarget'
  <2> SUFFICES ASSUME Readable, pc' = "scan", NEW m \in Intended', m.at = offset'
               PROVE  ScanAt(m, pos - offset)'
    BY DEF OnTarget, ScanAt, InBody, InEnd
  <2>1. m \in Intended /\ format = "crex"
    BY <1>1, <1>2, <1>3, SameReadable DEF TypeOK, Formats
  <2>2. PICK n \in Nat : Len(m.bytes) = 15 + n
    BY <1>2, <2>1, IntendedCrex DEF BackInv
  <2>3. pos' \in Nat /\ pos \in Nat
    BY <1>2, LenProperties DEF TypeOK
  <2>4. Len(Signature[format]) = 6
    BY <2>1 DEF Signature
  <2>5. pos' - offset' = 6 /\ got' = 0
    BY <1>1, <1>3, <2>3, <2>4
  <2>6. n + 15 = Len(m.bytes) /\ 6 \in 6..14 + n /\ InBody(m.bytes, n, 6, 0)
    BY <2>2 DEF InBody
  <2> QED
    BY <2>5, <2>6 DEF ScanAt
<1> QED
  BY <1>1, <1>4, <1>5, NothingGiven

(* While the file is written nothing is read. *)
LEMMA WriteBack ==
  ASSUME ReadInv, FindInv', WrittenInv', pc = "write", pc' = "write",
         received' = received
  PROVE  BackInv'
<1>1. received' = <<>>
  BY DEF ReadInv, NotYet
<1>2. LastEnd' = 0
  BY <1>1 DEF LastEnd, From
<1>3. Ordered' /\ GivenWritten' /\ Reader' /\ OnTarget'
  BY <1>1 DEF Ordered, GivenWritten, Reader, OnTarget
<1>4. PassedGiven'
  <2> SUFFICES ASSUME NEW m \in Intended' PROVE ~(m.at < LastEnd')
    BY DEF PassedGiven
  <2>1. PICK i \in DOMAIN sent' : m = sent'[i]
    BY DEF Intended
  <2>2. m \in Sendable
    BY <2>1, ElementOfSeq, LenProperties DEF WrittenInv
  <2> QED
    BY <1>2, <2>2 DEF Sendable
<1> QED
  BY <1>3, <1>4 DEF BackInv

(* Nothing has come back at the start. *)
LEMMA InitBack == Init => BackInv
<1> SUFFICES ASSUME Init PROVE BackInv
  OBVIOUS
<1>1. received = <<>> /\ pc = "write" /\ sent = <<>>
  BY DEF Init
<1>2. Intended = {}
  BY <1>1 DEF Intended
<1>3. Ordered /\ GivenWritten /\ Reader /\ OnTarget /\ PassedGiven
  BY <1>1, <1>2 DEF Ordered, GivenWritten, Reader, OnTarget, PassedGiven
<1> QED
  BY <1>1, <1>3, InitFind, InitWritten DEF BackInv

(* Every step keeps the invariant of what came back. *)
LEMMA NextBack == BackInv /\ [Next]_vars => BackInv'
<1> SUFFICES ASSUME BackInv, [Next]_vars PROVE BackInv'
  OBVIOUS
<1>1. ReadInv /\ FindInv' /\ WrittenInv'
  BY NextFind, NextWritten DEF BackInv, FindInv
<1>2. CASE PutExtra \/ BufrWrite \/ CrexWrite
  <2>1. pc = "write" /\ pc' = "write" /\ received' = received
    BY <1>2 DEF PutExtra, BufrWrite, CrexWrite, Write, Put
  <2> QED
    BY <1>1, <2>1, WriteBack
<1>3. CASE Open \/ Call \/ SeekEnd
  <2>1. /\ UNCHANGED <<file, sent, format, received>>
        /\ pc' \in {"call", "seek", "none"}
    BY <1>3 DEF Open, Call, SeekEnd, Reading, written
  <2>2. Reader' /\ OnTarget' /\ pc' # "throw"
    BY <2>1 DEF Reader, OnTarget
  <2> QED
    BY <1>1, <2>1, <2>2, NothingGiven
<1>4. CASE Seek
  BY <1>1, <1>4, SeekBack
<1>5. CASE ReadHead
  BY <1>1, <1>5, HeadBack
<1>6. CASE ReadRest
  BY <1>1, <1>6, RestBack
<1>7. CASE Scan
  BY <1>1, <1>7, ScanBack
<1>8. CASE ScanEnd
  BY <1>1, <1>8, ScanEndBack
<1>9. CASE Over \/ UNCHANGED vars
  <2>1. UNCHANGED <<file, sent, format, received, pc, pos, got, offset>>
    BY <1>9 DEF Over, vars, written
  <2>2. Intended' = Intended /\ (Readable' <=> Readable)
    BY <2>1, SameReadable
  <2>3. Reader'
    BY <2>1 DEF BackInv, Reader
  <2>4. Readable => OnTarget' /\ pc' # "throw"
    BY <2>1, <2>2 DEF BackInv, OnTarget, ScanAt, InBody, InEnd
  <2> QED
    BY <1>1, <2>1, <2>3, <2>4, NothingGiven
<1> QED
  BY <1>2, <1>3, <1>4, <1>5, <1>6, <1>7, <1>8, <1>9 DEF Next

(* When no message is left, all were given back. *)
LEMMA AllGiven ==
  ASSUME BackInv
  PROVE  ReadsWhatWasWritten
<1> SUFFICES ASSUME pc \in {"none", "throw"}, Readable
             PROVE  /\ pc = "none"
                    /\ Given = {[at |-> m.at, bytes |-> m.bytes] : m \in Intended}
                    /\ \A i, j \in DOMAIN received : i < j => received[i].at < received[j].at
  BY DEF ReadsWhatWasWritten
<1>1. pc = "none" /\ ReadInv /\ TypeOK /\ Clear
  BY DEF BackInv, FindInv, ReadInv, Readable
<1>2. NothingIn(LastEnd, Len(file)) /\ LastEnd \in Nat /\ Len(file) \in Nat
  BY <1>1, LastEndIsNat, Numbers DEF BackInv, FindInv, NoneLeft
<1>3. ASSUME NEW m \in Intended
      PROVE  AsRead(m) \in Given /\ m.at \in Nat /\ Len(m.bytes) \in Nat /\ Len(m.bytes) > 0
  <2>1. /\ m.at \in Nat /\ Len(m.bytes) \in Nat /\ m.at + Len(m.bytes) <= Len(file)
    BY <1>1, IntendedIs DEF BackInv
  <2>2. /\ Occurs(Signature[format], m.at) /\ Len(Signature[format]) <= Len(m.bytes)
        /\ Len(Signature[format]) \in {4, 6}
    BY <1>1, IntendedSigned, Signatures DEF BackInv, TypeOK
  <2>3. \A l \in {4, 6}, x \in Nat : l <= x => x > 0
    OBVIOUS
  <2>4. Len(m.bytes) > 0
    BY <2>1, <2>2, <2>3
  <2>5. m.at < LastEnd
    <3> SUFFICES ASSUME ~(m.at < LastEnd) PROVE FALSE
      OBVIOUS
    <3>1. m.at \in LastEnd..Len(file) - 1
      BY <1>2, <2>1, <2>4
    <3> QED
      BY <1>2, <2>2, <3>1 DEF NothingIn
  <2> QED
    BY <2>1, <2>4, <2>5 DEF BackInv, PassedGiven
<1>4. \A r \in Given : \E m \in Intended : r = AsRead(m)
  BY DEF Given, BackInv, GivenWritten
<1>5. Given = {[at |-> m.at, bytes |-> m.bytes] : m \in Intended}
  BY <1>3, <1>4 DEF AsRead
<1>6. ASSUME NEW i \in DOMAIN received, NEW j \in DOMAIN received, i < j
      PROVE  received[i].at < received[j].at
  <2>1. EndOf(received[i]) <= received[j].at
    BY <1>6 DEF BackInv, Ordered
  <2>2. PICK m \in Intended : received[i] = AsRead(m)
    BY DEF BackInv, GivenWritten
  <2>3. PICK o \in Intended : received[j] = AsRead(o)
    BY DEF BackInv, GivenWritten
  <2>4. /\ received[i].at = m.at /\ EndOf(received[i]) = m.at + Len(m.bytes)
        /\ received[j].at = o.at
    BY <2>2, <2>3 DEF AsRead, EndOf
  <2>5. m.at \in Nat /\ Len(m.bytes) \in Nat /\ Len(m.bytes) > 0 /\ o.at \in Nat
    BY <1>3
  <2> QED
    BY <2>1, <2>4, <2>5
<1> QED
  BY <1>1, <1>5, <1>6

(* What is written is read: of every file where signatures are only where whole
   messages of the format are, each is given back once, as it was, and in order. *)
THEOREM WrittenIsRead == Spec => []ReadsWhatWasWritten
<1>1. BackInv => ReadsWhatWasWritten
  BY AllGiven
<1> QED
  BY <1>1, InitBack, NextBack, PTL DEF Spec
=============================================================================
