---------------------------- MODULE BufrSections ----------------------------
(***************************************************************************)
(* The sections of a BUFR message, as octets: Encoder (bufr_encoder.cc),   *)
(* which writes them, and Decoder::decode_header and decode_data with the  *)
(* offsets of Input (bufr/decoder.cc, bufr/input.cc), which read them.     *)
(*                                                                         *)
(* A bulletin is a record of its fields.  The four of the clock are one    *)
(* sequence, as editions 2, 3 and 4 write them alike.  What a subset says  *)
(* is one octet: Transcode and Compressed have the coding of its values.   *)
(***************************************************************************)
EXTENDS Integers, Sequences, SequencesExt

CONSTANTS
  SubsetLimit,   \* what the number of subsets is cut by: 2^16 in the code
  Loadable       \* versions of the master table there are files for

ASSUME SectionsAssumption ==
  SubsetLimit \in Nat /\ SubsetLimit > 0 /\ SubsetLimit <= 65536 /\ Loadable \subseteq 0..255

Octet == 0..255

(* Members that are assigned, over those that a record has. *)
Over(assigned, b) ==
  [member \in DOMAIN assigned \cup DOMAIN b |->
     IF member \in DOMAIN assigned THEN assigned[member] ELSE b[member]]

Bufr == <<66, 85, 70, 82>>
Sevens == <<55, 55, 55, 55>>

(* Big endian numbers: add_bits and read_number. *)
Octets(val, n) == [i \in 1..n |-> (val \div 256^(n - i)) % 256]

Number(buf, pos, n) ==
  LET sum[i \in 0..n] == IF i = 0 THEN 0 ELSE 256 * sum[i - 1] + buf[pos + i]
  IN sum[n]

TableId(b) ==
  <<b.originating_centre, b.originating_subcentre, b.master_table_number,
    b.master_table_version_number, b.master_table_version_number_local>>

CanLoad(b) == b.master_table_version_number \in Loadable

(***************************************************************************)
(* Writing.                                                                *)
(***************************************************************************)
HasOptional(b) == IF b.optional_section = <<>> THEN 0 ELSE 128

(* Year of century: 2000 is the 100th year of the 20th. *)
YearOfCentury(year) == IF year = 2000 THEN 100 ELSE year % 100

Sec1ed3(b) ==
  Octets(18, 3)
    \o <<b.master_table_number, b.originating_subcentre % 256, b.originating_centre % 256,
         b.update_sequence_number, HasOptional(b), b.data_category, b.data_subcategory_local,
         b.master_table_version_number, b.master_table_version_number_local,
         YearOfCentury(b.rep_year)>>
    \o b.clock \o <<(b.rep_year \div 100) % 256>>

Sec1ed4(b) ==
  Octets(22, 3) \o <<0>>
    \o Octets(b.originating_centre, 2) \o Octets(b.originating_subcentre, 2)
    \o <<b.update_sequence_number, HasOptional(b), b.data_category, b.data_subcategory,
         b.data_subcategory_local, b.master_table_version_number,
         b.master_table_version_number_local>>
    \o Octets(b.rep_year, 2) \o b.clock \o <<b.rep_second>>

(* Mutant: an even length is padded too. *)
PaddedAlways(octets) == IF Len(octets) % 2 = 1 THEN Append(octets, 0) ELSE octets \o <<0, 0>>

Padded(octets) == IF Len(octets) % 2 = 1 THEN Append(octets, 0) ELSE octets

Sec2(b) ==
  IF b.optional_section = <<>> THEN <<>>
  ELSE LET data == Padded(b.optional_section) IN Octets(4 + Len(data), 3) \o <<0>> \o data

(* Two octets for each. *)
Descriptors(codes) == [i \in 1..2 * Len(codes) |-> Octets(codes[(i + 1) \div 2], 2)[2 - (i % 2)]]

Sec3(b) ==
  Octets(8 + 2 * Len(b.datadesc), 3) \o <<0>> \o Octets(Len(b.subsets) % SubsetLimit, 2) \o <<128>>
    \o Descriptors(b.datadesc) \o <<0>>

(* From the even length on, as the section begins at an even offset. *)
Sec4(b) == LET data == Padded(b.subsets) IN Octets(4 + Len(data), 3) \o <<0>> \o data

Encodable(b) == b.edition_number \in 2..4 /\ b.subsets # <<>> /\ b.datadesc # <<>>

Sec1(b) == IF b.edition_number = 4 THEN Sec1ed4(b) ELSE Sec1ed3(b)

(* Section 0 has the length of it all, and ends with the edition. *)
Assembled(b, sections) ==
  LET rest == <<b.edition_number>> \o sections \o Sevens
  IN Bufr \o Octets(7 + Len(rest), 3) \o rest

Encode(b) == Assembled(b, Sec1(b) \o Sec2(b) \o Sec3(b) \o Sec4(b))

(***************************************************************************)
(* Reading.  Where the sections start is known from the length that each   *)
(* one declares; a length that goes past the end is refused.               *)
(***************************************************************************)
Past(buf) == Len(buf) + 1

NextSection(buf, start) ==
  LET next == start + Number(buf, start, 3)
  IN IF start + 3 > Len(buf) \/ next > Len(buf) THEN Past(buf) ELSE next

Sec1Length(buf) == IF buf[8] = 4 THEN 22 ELSE 18
OptionalFlag(buf) == buf[8 + (IF buf[8] = 4 THEN 9 ELSE 7) + 1] >= 128

(* sec[0..5], of a message that has section 1. *)
Sections(buf) ==
  LET sec2 == NextSection(buf, 8)
      sec3 == IF OptionalFlag(buf) THEN NextSection(buf, sec2) ELSE sec2
      sec4 == NextSection(buf, sec3)
  IN <<0, 8, sec2, sec3, sec4, NextSection(buf, sec4)>>

(* What decode_header checks, in its order. *)
HasSection1(buf) ==
  /\ Len(buf) >= 8
  /\ SubSeq(buf, 1, 4) = Bufr
  /\ buf[8] \in 2..4
  /\ NextSection(buf, 8) # Past(buf)
  /\ 8 + Sec1Length(buf) <= Len(buf)

HeaderWhole(buf) ==
  /\ HasSection1(buf)
  /\ LET sec == Sections(buf)
     IN /\ sec[6] # Past(buf)
        /\ sec[4] - sec[3] \notin 1..3
        /\ sec[5] - sec[4] >= 8

FullYear(yy) == IF yy > 50 THEN yy + 1900 ELSE yy + 2000

OptionalSection(buf, sec) ==
  IF sec[4] - sec[3] <= 4 THEN <<>> ELSE SubSeq(buf, sec[3] + 5, sec[4])

(* Mutant: the descriptors are counted as if there were always a pad. *)
DataDescriptorsPadded(buf, sec) ==
  [i \in 1..((sec[5] - sec[4] - 8) \div 2) |-> Number(buf, sec[4] + 5 + 2 * i, 2)]

DataDescriptors(buf, sec) ==
  [i \in 1..((sec[5] - sec[4] - 7) \div 2) |-> Number(buf, sec[4] + 5 + 2 * i, 2)]

(* A bulletin that was just created and its header decoded, without tables. *)
HeaderOf(buf, sec) ==
  LET at(pos) == buf[8 + pos + 1]
      ed4 == buf[8] = 4
  IN [edition_number |-> buf[8],
      master_table_number |-> at(3),
      originating_centre |-> IF ed4 THEN Number(buf, 12, 2) ELSE at(5),
      originating_subcentre |-> IF ed4 THEN Number(buf, 14, 2) ELSE at(4),
      update_sequence_number |-> IF ed4 THEN at(8) ELSE at(6),
      data_category |-> IF ed4 THEN at(10) ELSE at(8),
      data_subcategory |-> IF ed4 THEN at(11) ELSE 255,
      data_subcategory_local |-> IF ed4 THEN at(12) ELSE at(9),
      master_table_version_number |-> IF ed4 THEN at(13) ELSE at(10),
      master_table_version_number_local |-> IF ed4 THEN at(14) ELSE at(11),
      rep_year |-> IF ed4 THEN Number(buf, 23, 2) ELSE FullYear(at(12)),
      clock |-> IF ed4 THEN SubSeq(buf, 26, 29) ELSE SubSeq(buf, 22, 25),
      rep_second |-> IF ed4 THEN at(21) ELSE 0,
      optional_section |-> OptionalSection(buf, sec),
      compression |-> (buf[sec[4] + 7] \div 64) % 2 = 1,
      datadesc |-> DataDescriptors(buf, sec),
      subsets |-> <<>>, tables |-> <<>>, section_end |-> <<0, 0, 0, 0, 0, 0>>]

ExpectedSubsets(buf, sec) == Number(buf, sec[4] + 4, 2)

(* get_bits stops at the end of the message and not of the section. *)
DataWhole(buf, sec) == sec[5] + 4 + ExpectedSubsets(buf, sec) <= Len(buf)

(* Mutant: the end section is not looked at. *)
EndWholeUnchecked(buf, sec) == TRUE

EndWhole(buf, sec) ==
  sec[6] + 4 <= Len(buf) /\ SubSeq(buf, sec[6] + 1, sec[6] + 4) = Sevens

WithData(b, buf, sec) ==
  Over([subsets |-> SubSeq(buf, sec[5] + 5, sec[5] + 4 + ExpectedSubsets(buf, sec)),
        section_end |-> <<sec[2], sec[3], sec[4], sec[5], sec[6], sec[6] + 4>>], b)
=============================================================================
