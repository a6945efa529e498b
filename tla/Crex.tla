-------------------------------- MODULE Crex --------------------------------
(***************************************************************************)
(* A CREX message is written and read: CrexBulletin::encode                *)
(* (crex_encoder.cc), or the centre that sends the message, writes the     *)
(* values of each subset as characters; CrexBulletin::decode               *)
(* (crex_decoder.cc) reads them.  In between the message may be cut short  *)
(* or lose a value.                                                        *)
(*                                                                         *)
(* Spaces separate the values but do not have to, so that the reader must  *)
(* come to each value at the character where it starts.  A message is the  *)
(* words of its header, then the characters of its data.                   *)
(***************************************************************************)
EXTENDS Interpreter, CrexText

CONSTANTS
  Jobs,         (* Bound: the messages to write, see Job                   *)
  Versions,     (* <<table, edition, version>> that there are tables for   *)
  Ints, Texts,  (* Bound: values of the variables                          *)
  MaxCount      (* Bound: replication factors written                      *)

VARIABLES
  phase,      (* "write", "transit", "head", "data", "tail" or "done"      *)
  job,        (* what is to be written, and by whom                        *)
  original,   (* history: the subsets that were written                    *)
  head, data, (* the message                                               *)
  harm,       (* history: "none", "cut" or "lost"                          *)
  expected,   (* expected_check_digit of the writer, then of the reader    *)
  word, cur,  (* words of head read, and CrexInput::cur in data            *)
  check,      (* CrexInput::has_check_digit                                *)
  out,        (* the header of the decoded CrexBulletin                    *)
  decoded,    (* its subsets                                               *)
  status      (* "run" or "error"                                          *)

interpreter == <<stack, mods, refvals, field>>
message == <<head, data, harm>>
reader == <<word, cur, check, out, decoded>>
vars == <<interpreter, phase, job, original, message, expected, reader, status>>

(* What to write: source is "encoder", or "sender" for a centre, which also
   separates missing values, and may number the values with check digits and
   add a section 3.  The encoder never numbers, whatever has_check_digit says:
   encode_sec1 and encode work on two outputs, and neither is told. *)
Job == [source : {"encoder", "sender"}, digits : BOOLEAN, supp : BOOLEAN,
        subsets : Nat \ {0}, datadesc : Seq(Code), version : Nat \X Nat \X Nat,
        category : (0..127) \X (0..255)]

ASSUME JobsAssumption ==
  \A j \in Jobs : j \in Job /\ (j.source = "encoder" => ~j.digits /\ ~j.supp)

Running == status = "run" /\ phase # "done"
Writing == Running /\ phase = "write"
Reading == Running /\ phase = "data"

Throw == status' = "error" /\ UNCHANGED <<interpreter, phase, job, original,
                                          message, expected, reader>>

(* A value of a subset; factor tells a delayed replication factor. *)
Item(info, val, factor) == [code |-> info.code, val |-> val, factor |-> factor]

(* The last of these subsets gets one more value. *)
AddToLast(subsets, item) ==
  [subsets EXCEPT ![Len(subsets)] = Append(@, item)]

----------------------------------------------------------------------------
(* The sequences of descriptors, for the writer and for the reader. *)

At(f) == AtDescriptor /\ Cur[1] = f
GoOn(ops) == stack' = Continue(ops) /\ UNCHANGED <<mods, refvals, field>>

(* The factor's descriptor is not in the header (crex_encoder.cc:112), and the
   reader goes by that of B31012. *)
FactorInfo == BTable[FactorCode(Rest)]

(* 0xffffffff, a missing or a negative factor: more than any text holds. *)
AllOnesCount == 100000

Count(val) == IF val = Unset \/ val < 0 THEN AllOnesCount ELSE val

(* A replication has descriptors to repeat, X of them. *)
Repeats == At(1) /\ Cur[2] <= Len(AfterFactor(Cur[3], Rest))

Repeat(count) ==
  LET ops  == AfterFactor(Cur[3], Rest)
      body == SubSeq(ops, 1, Cur[2])
      rest == SubSeq(ops, Cur[2] + 1, Len(ops))
  IN /\ stack' = IF count = 0 THEN Continue(rest)
                 ELSE Append(Continue(rest), NewFrame(body, count))
     /\ UNCHANGED <<mods, refvals, field>>

FixedReplication ==
  /\ Writing \/ Reading
  /\ Repeats /\ ~Delayed(Cur[3])
  /\ Repeat(Cur[3])
  /\ UNCHANGED <<phase, job, original, message, expected, reader, status>>

Expand ==
  /\ Writing \/ Reading
  /\ At(3) /\ Cur \in DOMAIN DTable
  /\ stack' = Append(Continue(Rest), NewFrame(DTable[Cur], 1))
  /\ UNCHANGED <<mods, refvals, field, phase, job, original, message, expected,
                 reader, status>>

EndSequence ==
  /\ Writing \/ Reading
  /\ AtFrameEnd
  /\ stack' = AfterFrame
  /\ UNCHANGED <<mods, refvals, field, phase, job, original, message, expected,
                 reader, status>>

(* Table B and Table D throw for what they do not have, and pop_left for more
   descriptors than there are. *)
BadDescriptor ==
  /\ Writing \/ Reading
  /\ \/ At(0) /\ Cur \notin DOMAIN BTable
     \/ At(3) /\ Cur \notin DOMAIN DTable
     \/ At(1) /\ ~Repeats
  /\ Throw

----------------------------------------------------------------------------
(* Writing *)

(* Factors that encode_sec1 leaves out of the header. *)
Implicit(code) == code[1] = 0 /\ code[2] = 31 /\ code[3] < 3

DescriptorWords(datadesc) ==
  LET listed == SelectSeq(datadesc, LAMBDA c : ~Implicit(c))
  IN [i \in DOMAIN listed |-> [is |-> "descriptor", code |-> listed[i]]]

(* %03hhd takes the subcategory for a signed number.  What is read back is the
   number before the minus sign. *)
AtableWord(category, sub) ==
  CASE sub = 255 -> [is |-> "A", digits |-> 3, number |-> category]
    [] sub < 128 -> [is |-> "A", digits |-> 6, number |-> category * 1000 + sub]
    [] OTHER     -> [is |-> "A", digits |-> IF sub < 157 THEN 7 ELSE 6,
                     number |-> category]

HeadOf(j) ==
  <<[is |-> "CREX++"], [is |-> "T", version |-> j.version],
    AtableWord(j.category[1], j.category[2])>>
  \o DescriptorWords(j.datadesc)
  \o (IF j.digits THEN <<[is |-> "E"]>> ELSE <<>>)
  \o <<[is |-> "++"]>>

Values(info) ==
  {Unset} \cup (IF info.type = "String" THEN Texts
                ELSE {i \in Ints : Magnitude(i) < 10^info.len - 1})

CheckDigit == IF job.digits THEN <<Digits[expected + 1]>> ELSE <<>>

(* append_var writes no space and no check digit for a missing value. *)
VariableText(info, val) ==
  IF val = Unset /\ job.source = "encoder" THEN Missing(info)
  ELSE <<" ">> \o CheckDigit \o ValueText(info, val)

(* Most factors have four digits, whatever their length in the table. *)
FactorText(info, count) ==
  IF info.code[3] = 0 THEN VariableText(info, count)
  ELSE <<" ">> \o CheckDigit \o DigitsOf(count, 4)

(* The value is part of the message, unless it is the one lost on the way. *)
Put(item, text) ==
  /\ original' = AddToLast(original, item)
  /\ expected' = (expected + 1) % 10
  /\ \/ data' = data \o text /\ UNCHANGED harm
     \/ job.digits /\ harm = "none" /\ harm' = "lost" /\ UNCHANGED data
  /\ UNCHANGED <<phase, job, head, reader, status>>

(* A missing factor of one bit is written as any missing value, and repeats until
   the subset has no more variables. *)
Endless == \E i \in DOMAIN Last(original) :
             Last(original)[i].factor /\ Last(original)[i].val = Unset

AsksForVariable ==
  \/ At(0) /\ Cur \in DOMAIN BTable
  \/ Repeats /\ Delayed(Cur[3])

WriteVariable ==
  /\ Writing /\ At(0) /\ Cur \in DOMAIN BTable
  /\ ~Endless   (* Bound: the subset ends with its missing factor. *)
  /\ LET info == BTable[Cur]
     IN \E val \in Values(info) :
          /\ Put(Item(info, val, FALSE), VariableText(info, val))
          /\ GoOn(Rest)

WriteFactor ==
  /\ Writing /\ Repeats /\ Delayed(Cur[3])
  /\ ~Endless
  /\ \E count \in 0..MaxCount :
       /\ Put(Item(FactorInfo, count, TRUE), FactorText(FactorInfo, count))
       /\ Repeat(count)

(* enqi() throws for a missing factor of several digits. *)
WriteMissingFactor ==
  /\ Writing /\ Repeats /\ Delayed(Cur[3])
  /\ job.source = "encoder" /\ ~Endless
  /\ IF FactorInfo.code[3] # 0 THEN Throw
     ELSE /\ Put(Item(FactorInfo, Unset, TRUE), VariableText(FactorInfo, Unset))
          /\ Repeat(Count(Unset))

(* get_var() throws when the subset has no more variables. *)
NoVariableLeft ==
  /\ Writing /\ AsksForVariable
  /\ job.source = "encoder"
  /\ Throw

StartStack == stack' = Fresh(job.datadesc, FALSE).stack

WriteNextSubset ==
  /\ Writing /\ stack = <<>> /\ Len(original) < job.subsets
  /\ data' = data \o <<"+">> \o EndOfLine
  /\ original' = Append(original, <<>>)
  /\ StartStack
  /\ UNCHANGED <<mods, refvals, field, phase, job, head, harm, expected, reader,
                 status>>

Section3 == IF job.supp THEN <<"S", "U", "P", "P", " ", "A", "+", "+">> \o EndOfLine
            ELSE <<>>

WriteEnd ==
  /\ Writing /\ stack = <<>> /\ Len(original) = job.subsets
  /\ data' = data \o <<"+", "+">> \o EndOfLine \o Section3 \o Terminator \o EndOfLine
  /\ phase' = "transit"
  /\ expected' = 1
  /\ UNCHANGED <<interpreter, job, original, head, harm, reader, status>>

----------------------------------------------------------------------------
(* On the way *)

Deliver ==
  /\ Running /\ phase = "transit"
  /\ phase' = "head"
  /\ UNCHANGED <<interpreter, job, original, message, expected, reader, status>>

(* The message ends within its header, in or after a word.  Of the E there is
   nothing to cut. *)
CutHead ==
  /\ Running /\ phase = "transit" /\ harm = "none"
  /\ \E n \in 0..(Len(head) - 1), part \in {<<>>, <<[is |-> "part"]>>} :
       /\ part # <<>> => head[n + 1].is # "E"
       /\ head' = SubSeq(head, 1, n) \o part
  /\ data' = <<>>
  /\ harm' = "cut"
  /\ phase' = "head"
  /\ UNCHANGED <<interpreter, job, original, expected, reader, status>>

(* Or before the end of its last word. *)
CutData ==
  /\ Running /\ phase = "transit" /\ harm = "none"
  /\ \E n \in 0..(Len(data) - Len(EndOfLine) - 1) : data' = SubSeq(data, 1, n)
  /\ harm' = "cut"
  /\ phase' = "head"
  /\ UNCHANGED <<interpreter, job, original, head, expected, reader, status>>

----------------------------------------------------------------------------
(* Reading the header *)

InHead == Running /\ phase = "head"
More == word < Len(head)
Ahead(kind) == More /\ head[word + 1].is = kind
PassWord == word' = word + 1
InDescriptors == word >= 3

HeadRead == UNCHANGED <<interpreter, phase, job, original, message, expected,
                        decoded, status>>

ReadSignature ==
  /\ InHead /\ word = 0 /\ Ahead("CREX++")
  /\ PassWord
  /\ UNCHANGED <<cur, check, out>> /\ HeadRead

ReadEdition ==
  /\ InHead /\ word = 1 /\ Ahead("T")
  /\ out' = [out EXCEPT !.version = head[word + 1].version]
  /\ PassWord
  /\ UNCHANGED <<cur, check>> /\ HeadRead

ReadAtable ==
  /\ InHead /\ word = 2 /\ Ahead("A") /\ head[word + 1].digits \in {3, 6}
  /\ LET w == head[word + 1]
     IN out' = [out EXCEPT
                  !.category = IF w.digits = 3 THEN <<w.number, 255>>
                               ELSE <<w.number \div 1000, w.number % 1000>>]
  /\ PassWord
  /\ UNCHANGED <<cur, check>> /\ HeadRead

ReadDescriptor ==
  /\ InHead /\ InDescriptors /\ Ahead("descriptor")
  /\ out' = [out EXCEPT !.datadesc = Append(@, head[word + 1].code)]
  /\ PassWord
  /\ UNCHANGED <<cur, check>> /\ HeadRead

ReadE ==
  /\ InHead /\ InDescriptors /\ Ahead("E")
  /\ check' = TRUE
  /\ PassWord
  /\ UNCHANGED <<cur, out>> /\ HeadRead

StartSubset(datadesc) ==
  /\ decoded' = Append(decoded, <<>>)
  /\ stack' = Fresh(datadesc, FALSE).stack

(* The end of section 1, load_tables, and the start of section 2. *)
ReadHeadEnd ==
  /\ InHead /\ InDescriptors /\ Ahead("++")
  /\ out.version \in Versions
  /\ LET p == AfterSpaces(data, 1)
     IN /\ ~Eof(data, p)
        /\ cur' = p
  /\ PassWord
  /\ phase' = "data"
  /\ StartSubset(out.datadesc)
  /\ UNCHANGED <<mods, refvals, field, job, original, message, expected, check,
                 out, status>>

(* The loop over the descriptors looks at one character, and only the end of
   the loop would move past one that starts none of them. *)
Spin ==
  /\ InHead /\ InDescriptors /\ ~More
  /\ UNCHANGED vars

BadHead ==
  /\ InHead
  /\ \/ word = 0 /\ ~Ahead("CREX++")
     \/ word = 1 /\ ~Ahead("T")
     \/ word = 2 /\ ~ (Ahead("A") /\ head[3].digits \in {3, 6})
     \/ word = 3 /\ ~More
     \/ InDescriptors /\ Ahead("part")
     \/ Ahead("++") /\ (out.version \notin Versions \/ Eof(data, AfterSpaces(data, 1)))
  /\ Throw

----------------------------------------------------------------------------
(* Reading the data section *)

(* parse_value asks for two more, for the sign and the check digit. *)
Needed(info) == info.len + 2

Signed(info) == info.type # "String"

(* Where the value starts, and what comes after it. *)
Start == IF check THEN cur + 1 ELSE cur
Stop(info) ==
  Start + info.len + (IF Signed(info) /\ CharAt(data, Start) = "-" THEN 1 ELSE 0)

(* Mutant: the check digit is passed over. *)
DigitIgnored == TRUE

DigitAgrees == check => CharAt(data, cur) = Digits[expected + 1]

Readable(info) == Available(data, cur, Needed(info)) /\ DigitAgrees

(* What read_variable makes of it. *)
ReadValue(info) ==
  CASE CharAt(data, Start) = "/"       -> Unset
    [] info.type = "String"    -> Trimmed(data, Start, Stop(info))
    [] OTHER                   -> NumberAt(data, Start)

(* seti() throws out of the domain: as many nines are missing. *)
Storable(info, val) ==
  \/ val = Unset \/ info.type = "String"
  \/ val \in -(10^info.len - 1)..(10^info.len - 2)

Consume(info, item) ==
  /\ cur' = AfterSpaces(data, Stop(info))
  /\ expected' = IF check THEN (expected + 1) % 10 ELSE expected
  /\ decoded' = AddToLast(decoded, item)
  /\ UNCHANGED <<phase, job, original, message, word, check, out, status>>

ReadVariable ==
  /\ Reading /\ At(0) /\ Cur \in DOMAIN BTable
  /\ LET info == BTable[Cur]
     IN IF Readable(info) /\ Storable(info, ReadValue(info))
          THEN /\ Consume(info, Item(info, ReadValue(info), FALSE))
               /\ GoOn(Rest)
          ELSE Throw

ReadFactor ==
  /\ Reading /\ Repeats /\ Delayed(Cur[3])
  /\ LET info == FactorInfo
     IN IF Readable(info) /\ Storable(info, ReadValue(info))
          THEN /\ Consume(info, Item(info, ReadValue(info), TRUE))
               /\ Repeat(Count(ReadValue(info)))
          ELSE Throw

(* A single + ends the subset, two end the section.  The spaces after a single
   one stay. *)
EndSubset ==
  /\ Reading /\ stack = <<>>
  /\ LET p == AfterSpaces(data, cur)
     IN IF ~Looks(data, p, <<"+">>) \/ Eof(data, p + 1) THEN Throw
        ELSE IF CharAt(data, p + 1) = "+"
          THEN /\ cur' = AfterSpaces(data, p + 2)
               /\ phase' = "tail"
               /\ UNCHANGED <<interpreter, job, original, message, expected, word,
                              check, out, decoded, status>>
          ELSE /\ cur' = p + 1
               /\ StartSubset(out.datadesc)
               /\ UNCHANGED <<mods, refvals, field, phase, job, original, message,
                              expected, word, check, out, status>>

(* The end of section 3: the first ++, which is not passed over. *)
Section3End ==
  IF ~Looks(data, cur, <<"S", "U", "P", "P">>) THEN cur
  ELSE Min({i \in (cur + 4)..Len(data) : Looks(data, i, <<"+", "+">>)}
             \cup {Len(data) + 1})

EndMessage ==
  /\ Running /\ phase = "tail"
  /\ IF Looks(data, Section3End, Terminator)
       THEN /\ phase' = "done"
            /\ UNCHANGED <<interpreter, job, original, message, expected, reader,
                           status>>
       ELSE Throw

----------------------------------------------------------------------------
(* The members of a new CrexBulletin; version stands for all its versions, <<>>
   while they are those of the declarations. *)
NewBulletin == [version |-> <<>>, category |-> <<>>, datadesc |-> <<>>]

Init ==
  /\ job \in Jobs
  /\ phase = "write"
  /\ LET it == Fresh(job.datadesc, FALSE)
     IN /\ stack = it.stack /\ mods = it.mods
        /\ refvals = it.refvals /\ field = it.field
  /\ original = <<<<>>>>
  /\ head = HeadOf(job)
  /\ data = EndOfLine
  /\ harm = "none"
  /\ expected = 1
  /\ word = 0 /\ cur = 1
  /\ check = FALSE
  /\ out = NewBulletin
  /\ decoded = <<>>
  /\ status = "run"

Write == WriteVariable \/ WriteFactor \/ WriteMissingFactor \/ NoVariableLeft
           \/ WriteNextSubset \/ WriteEnd
Transit == Deliver \/ CutHead \/ CutData
ReadHead == ReadSignature \/ ReadEdition \/ ReadAtable \/ ReadDescriptor \/ ReadE
              \/ ReadHeadEnd \/ Spin \/ BadHead
ReadData == ReadVariable \/ ReadFactor \/ EndSubset \/ EndMessage
Visit == FixedReplication \/ Expand \/ EndSequence \/ BadDescriptor

Over == ~Running /\ UNCHANGED vars

Step == Write \/ Transit \/ ReadHead \/ ReadData \/ Visit

Spec == Init /\ [][Step \/ Over]_vars /\ WF_vars(Step)

----------------------------------------------------------------------------

(* Texts that are padded, and taken for missing, no more than they say. *)
PlainText(val) ==
  val # <<>> /\ ~IsSpace(Head(val)) /\ Head(val) # "/" /\ ~IsSpace(Last(val))

PlainValue(item) ==
  item.val # Unset /\ BTable[item.code].type = "String" => PlainText(item.val)

(* A factor is read by the five characters of B31012, and written with four: the
   fifth must be a space. *)
PlainFactor(subset, i) ==
  subset[i].factor =>
    /\ subset[i].code \notin {<<0, 31, 0>>, <<0, 31, 11>>}
    /\ i < Len(subset)
    /\ job.source = "sender" \/ subset[i + 1].val # Unset

(* A factor that is not listed is missed by a replication that counts it. *)
PlainSequence(datadesc) ==
  \A i \in DOMAIN datadesc : datadesc[i][1] = 1 =>
    \A k \in (i + 1)..(i + datadesc[i][2] + 1) \cap DOMAIN datadesc :
      Implicit(datadesc[k]) => Delayed(datadesc[i][3]) /\ k = i + 1

(* A message whose values and header come through by themselves. *)
Plain ==
  /\ ~job.supp
  /\ job.category[2] < 128 \/ job.category[2] = 255
  /\ job.version \in Versions
  /\ PlainSequence(job.datadesc)
  /\ \A s \in Range(original) : \A i \in DOMAIN s :
       PlainValue(s[i]) /\ PlainFactor(s, i)

ValuesOf(subset) == [i \in DOMAIN subset |-> subset[i].val]

(* A message that arrives whole is read as it was written: nothing makes the
   reader refuse it, each value is the one that was written in its place, and in
   the end all of them are there, under the same category (crex_encoder.cc
   against crex_decoder.cc). *)
ReadsBack ==
  harm = "none" /\ phase # "write" /\ job.subsets = 1 /\ Plain =>
    /\ status # "error"
    /\ decoded # <<>> => IsPrefix(ValuesOf(decoded[1]), ValuesOf(original[1]))
    /\ phase = "done" =>
         /\ Len(decoded) = 1 /\ ValuesOf(decoded[1]) = ValuesOf(original[1])
         /\ out.category = job.category
         /\ check = job.digits

(* A message that was cut short anywhere, or that lost one of its numbered
   values, is never taken for a message: the terminator and the check digits
   tell (crex_decoder.cc:234, buffers/crex.cc:108). *)
DamageRefused == harm # "none" => phase # "done"

Spinning == InHead /\ InDescriptors /\ ~More

(* Every message is read to its end or refused, but for one that is cut in the
   data descriptors, where decode_header looks for their end forever
   (crex_decoder.cc:93), and only for those. *)
Ends == <>(~Running \/ (Spinning /\ harm = "cut"))

============================================================================
