------------------------------ MODULE Streams -------------------------------
(***************************************************************************)
(* Files of bulletins, written message by message and read message by      *)
(* message: BufrBulletin and CrexBulletin ::write and ::read (bulletin.cc).*)
(*                                                                         *)
(* A file holds messages of both formats, cut short or whole, and extra    *)
(* data around them: src/input.cc:47-48 says that what is before and after *)
(* a message is skipped.  A message is found by its signature; BUFR then   *)
(* has the length of the message, and CREX is read up to a marker.  A byte *)
(* is its value, and what a message says is only bytes here.               *)
(***************************************************************************)
EXTENDS Naturals, Sequences

CONSTANTS
  Extra,        \* the byte sequences that may be found between messages
  BufrBodies,   \* what BUFR messages have between the lengths and 7777
  CrexBodies,   \* what CREX messages have between CREX++ and the last ++
  MaxPieces,    \* bound on the pieces of a file
  Cuts          \* how many bytes a message cut short may lack

Byte == 0..255

ASSUME StreamsAssumption ==
  /\ Extra \cup CrexBodies \cup BufrBodies \subseteq Seq(Byte)
  /\ \A body \in BufrBodies : Len(body) < 244
  /\ MaxPieces \in Nat
  /\ Cuts \subseteq Nat \ {0}

Formats == {"bufr", "crex"}
CR == 13
LF == 10
Plus == 43
Seven == 55

\* "BUFR" and "CREX++": what seek_past_signature is asked for.
Signature == [bufr |-> <<66, 85, 70, 82>>, crex |-> <<67, 82, 69, 88, 43, 43>>]

VARIABLES
  file,      \* the bytes of the file
  sent,      \* the messages written to it, where they are, and if whole
  pieces,    \* how many pieces the file is made of
  format,    \* whose read function is called
  pc,        \* where the read function is
  pos,       \* how many bytes were taken from the file
  got,       \* how much of the signature, or of the end marker, was matched
  buf,       \* the bytes of the message being read
  offset,    \* where it starts
  received   \* the messages that calls of read gave back

written == <<file, sent, pieces>>
vars == <<written, format, pc, pos, got, buf, offset, received>>

(* What the encoders make of a message. *)
BufrMessage(body) ==
  Signature.bufr \o <<0, 0, 12 + Len(body), 4>> \o body \o <<Seven, Seven, Seven, Seven>>

CrexEnd == <<Plus, Plus, CR, CR, LF, Seven, Seven, Seven, Seven>>
CrexMessage(body) == Signature.crex \o body \o CrexEnd
CrexEol == <<CR, CR, LF, CR, CR, LF>>    \* one by encode, one by write

Init ==
  /\ file = <<>> /\ sent = <<>> /\ pieces = 0
  /\ format \in Formats
  /\ pc = "write"
  /\ pos = 0 /\ got = 0 /\ buf = <<>> /\ offset = 0
  /\ received = <<>>

------------------------------------------------------------------------------
(* Making the file. *)
Put(bytes) ==
  /\ pc = "write" /\ pieces < MaxPieces
  /\ pieces' = pieces + 1
  /\ file' = file \o bytes
  /\ UNCHANGED <<format, pc, pos, got, buf, offset, received>>

\* A message of which the last k bytes did not arrive is not whole.
Write(f, msg, eol, k) ==
  /\ Put(IF k = 0 THEN msg \o eol ELSE SubSeq(msg, 1, Len(msg) - k))
  /\ sent' = Append(sent, [format |-> f, at |-> Len(file), bytes |-> msg, whole |-> k = 0])

PutExtra == \E bytes \in Extra : Put(bytes) /\ UNCHANGED sent
BufrWrite == \E body \in BufrBodies, k \in Cuts \cup {0} :
               Write("bufr", BufrMessage(body), <<>>, k)
CrexWrite == \E body \in CrexBodies, k \in Cuts \cup {0} :
               Write("crex", CrexMessage(body), CrexEol, k)

Open ==
  /\ pc = "write" /\ pc' = "call"
  /\ UNCHANGED <<written, format, pos, got, buf, offset, received>>

------------------------------------------------------------------------------
(* Reading it: the loops call read until it returns false, or throws. *)
Reading == UNCHANGED <<written, format>>
Left == Len(file) - pos
NextByte == file[pos + 1]
Upcoming(n) == SubSeq(file, pos + 1, pos + n)

(* Mutant: the buffer of the message before is not cleared. *)
CallKeepsBuf ==
  /\ pc = "call" /\ pc' = "seek"
  /\ got' = 0
  /\ Reading /\ UNCHANGED <<pos, buf, offset, received>>

Call ==
  /\ pc = "call" /\ pc' = "seek"
  /\ buf' = <<>> /\ got' = 0
  /\ Reading /\ UNCHANGED <<pos, offset, received>>

(* Mutant: a byte that does not match is passed over, and the search goes on. *)
SeekStepKeepsGot(sig, n, c) == IF c = sig[n + 1] THEN n + 1 ELSE n

(* seek_past_signature: a byte that does not match starts from nothing, and
   is not tried as a first byte. *)
SeekStep(sig, n, c) == IF c = sig[n + 1] THEN n + 1 ELSE 0

Seek ==
  /\ pc = "seek" /\ Left > 0
  /\ pos' = pos + 1
  /\ LET sig == Signature[format]
         n == SeekStep(sig, got, NextByte)
     IN IF n < Len(sig)
        THEN got' = n /\ UNCHANGED <<pc, buf, offset>>
        ELSE /\ pc' = IF format = "bufr" THEN "head" ELSE "scan"
             /\ buf' = buf \o sig
             /\ offset' = pos' - Len(sig)
             /\ got' = 0
  /\ Reading /\ UNCHANGED received

SeekEnd ==
  /\ pc = "seek" /\ Left = 0
  /\ pc' = "none"
  /\ Reading /\ UNCHANGED <<pos, got, buf, offset, received>>

(* Mutant: the last byte read is read again. *)
FetchRereads(n, next) ==
  IF n <= Left
  THEN /\ pos' = pos + n - 1
       /\ buf' = buf \o Upcoming(n)
       /\ pc' = next
  ELSE pos' = Len(file) /\ pc' = "throw" /\ UNCHANGED buf

\* A read of n bytes; one that finds fewer takes them all, and throws.
Fetch(n, next) ==
  IF n <= Left
  THEN /\ pos' = pos + n
       /\ buf' = buf \o Upcoming(n)
       /\ pc' = next
  ELSE pos' = Len(file) /\ pc' = "throw" /\ UNCHANGED buf

Return(bytes) == received' = Append(received, [at |-> offset, bytes |-> bytes])

DeclaredLength(bytes) == bytes[5] * 65536 + bytes[6] * 256 + bytes[7]
MinLength == 12

ReadHead ==
  /\ pc = "head"
  /\ Fetch(4, "rest")
  /\ Reading /\ UNCHANGED <<got, offset, received>>

ReadRest ==
  /\ pc = "rest"
  /\ LET len == DeclaredLength(buf)
     IN IF len < MinLength
        THEN pc' = "throw" /\ UNCHANGED <<pos, buf, received>>
        ELSE /\ Fetch(len - 8, "call")
             /\ IF len - 8 <= Left THEN Return(buf') ELSE UNCHANGED received
  /\ Reading /\ UNCHANGED <<got, offset>>

\* The end of a CREX message, as the automaton of CrexBulletin::read has it.
Target == <<Plus, Plus, CR, LF, Seven, Seven, Seven, Seven>>
IsEol(c) == c \in {CR, LF}

(* How the automaton goes through it: any end of line character is good for \r,
   and \n is any number of them or none. *)
ScanStep(n, c) ==
  IF Target[n + 1] = LF /\ IsEol(c) THEN n
  ELSE IF Target[n + 1] = LF /\ c = Seven THEN n + 2
  ELSE IF c = Target[n + 1] \/ (Target[n + 1] = CR /\ IsEol(c)) THEN n + 1
  ELSE 0

Scan ==
  /\ pc = "scan" /\ Left > 0
  /\ pos' = pos + 1
  /\ buf' = Append(buf, NextByte)
  /\ got' = ScanStep(got, NextByte)
  /\ IF got' = Len(Target)
     THEN pc' = "call" /\ Return(buf')
     ELSE UNCHANGED <<pc, received>>
  /\ Reading /\ UNCHANGED offset

ScanEnd ==
  /\ pc = "scan" /\ Left = 0
  /\ pc' = "throw"
  /\ Reading /\ UNCHANGED <<pos, got, buf, offset, received>>

Over == pc \in {"none", "throw"} /\ UNCHANGED vars

Next ==
  \/ PutExtra \/ BufrWrite \/ CrexWrite \/ Open
  \/ Call \/ Seek \/ SeekEnd \/ ReadHead \/ ReadRest \/ Scan \/ ScanEnd
  \/ Over

Spec == Init /\ [][Next]_vars

------------------------------------------------------------------------------
(* Type invariant: the read position stays inside the file, and the automata
   inside what they look for. *)
TypeOK ==
  /\ file \in Seq(Byte)
  /\ pieces \in 0..MaxPieces
  /\ format \in Formats
  /\ pc \in {"write", "call", "seek", "head", "rest", "scan", "none", "throw"}
  /\ pos \in 0..Len(file)
  /\ got \in 0..Len(Target)
  /\ pc = "seek" => got < Len(Signature[format])
  /\ buf \in Seq(Byte)
  /\ offset \in 0..Len(file)

Occurs(what, p) == p + Len(what) <= Len(file) /\ SubSeq(file, p + 1, p + Len(what)) = what
Positions == 0..Len(file)

(* A message that read gave back is a piece of the file, at the offset that it
   said, after the one before it: no byte is given twice, or invented. *)
EndOf(r) == r.at + Len(r.bytes)
Framed ==
  \A i \in DOMAIN received :
    /\ Occurs(received[i].bytes, received[i].at)
    /\ EndOf(received[i]) <= (IF i = Len(received) THEN pos ELSE received[i + 1].at)

(* Where the search for message i began, and where it has got to. *)
From(i) == IF i = 1 THEN 0 ELSE EndOf(received[i - 1])
LastEnd == From(Len(received) + 1)

(* The signature of no message comes right after the beginning of another one
   that stops half way, which seek_past_signature takes for it and then drops
   together with the byte that does not match. *)
Clear ==
  \A p \in Positions : Occurs(Signature[format], p) =>
    \A n \in 1..Len(Signature[format]) - 1 :
      n <= p => ~Occurs(SubSeq(Signature[format], 1, n), p - n)

\* No signature begins from position a up to, and not at, position b.
NothingIn(a, b) == \A p \in a..b - 1 : ~Occurs(Signature[format], p)

(* Whatever there is in a file, other formats, other text, messages cut short:
   read finds the first signature after the last message, passes over nothing
   that is one, and returns false only when none is left. *)
FindsNext ==
  Clear =>
    /\ \A i \in DOMAIN received :
         /\ Occurs(Signature[format], received[i].at)
         /\ NothingIn(From(i), received[i].at)
    /\ pc \in {"head", "rest", "scan"} =>
         /\ Occurs(Signature[format], offset)
         /\ NothingIn(LastEnd, offset)
    /\ pc = "none" => NothingIn(LastEnd, Len(file))

(* A CREX message has "++" once.  After "+++", as when a text that ends with + is
   the last value, CrexBulletin::read does not see the end of a message: the
   third + starts the automaton again, and is not tried as a first one. *)
OnePlusPlus(from, to) ==
  \A p, q \in from..to - 2 : Occurs(<<Plus, Plus>>, p) /\ Occurs(<<Plus, Plus>>, q) => p = q

(* What is written is read: when signatures are only where a message of the
   format is, none of which is cut short, all are given back, as they were, each
   once and in the order of the file. *)
Intended == {m \in {sent[i] : i \in DOMAIN sent} : m.format = format}
Holds(m, p) == m.at <= p /\ p < m.at + Len(m.bytes)
Readable ==
  /\ Clear
  /\ \A m \in Intended : m.whole
  /\ \A p \in Positions : Occurs(Signature[format], p) => \E m \in Intended : Holds(m, p)
  /\ format = "crex" => \A m \in Intended : OnePlusPlus(m.at + 6, m.at + Len(m.bytes))

Given == {received[i] : i \in DOMAIN received}

ReadsWhatWasWritten ==
  pc \in {"none", "throw"} /\ Readable =>
    /\ pc = "none"
    /\ Given = {[at |-> m.at, bytes |-> m.bytes] : m \in Intended}
    /\ \A i, j \in DOMAIN received : i < j => received[i].at < received[j].at

==============================================================================
