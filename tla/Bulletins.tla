----------------------------- MODULE Bulletins ------------------------------
(***************************************************************************)
(* A BufrBulletin and the octets of one message (bulletin.cc, tables.cc,   *)
(* subset.cc, with the sections of BufrSections).                          *)
(*                                                                         *)
(* A program creates a bulletin, fills and clears it, loads its tables,    *)
(* encodes it, and decodes what it wrote, what another program wrote, or   *)
(* what is left of either after a cut.  A program that relays messages     *)
(* decodes and encodes over and over: what this loses it must lose once.   *)
(***************************************************************************)
EXTENDS BufrSections

CONSTANTS
  Headers,     \* bulletins, for the values a program gives to the fields of sections 1 and 2
  Again,       \* those it gives to a bulletin that it cleared
  DataDescs,   \* the values it gives to datadesc
  Subsets,     \* and to subsets
  Styles       \* how other programs lay out the sections

VARIABLES
  bulletin,   \* the bulletin that the program has, <<>> when none
  clearing,   \* it is inside Bulletin::clear, after tables.clear()
  infos,      \* the Varinfos that are stored in the Tables of the bulletin
  wire,       \* the octets of a message
  sent,       \* ghost: the bulletin that they were written from, and the style
  relayed,    \* ghost: that bulletin was decoded, and encoded again
  last        \* what the last call was, or how it ended

vars == <<bulletin, clearing, infos, wire, sent, relayed, last>>

None == <<>>
NoEnds == <<0, 0, 0, 0, 0, 0>>

(* Variables made of bitmaps, character data and local descriptors that no
   table has: their Varinfo is in the Tables of the bulletin, and not in those
   files are loaded in. *)
OwnInfo(s) == s >= 128
OwnInfos(b) == {s \in ToSet(b.subsets) : OwnInfo(s)}

(* The values that the members of a new BufrBulletin have. *)
Fresh ==
  [master_table_number |-> 0, data_category |-> 255, data_subcategory |-> 255,
   data_subcategory_local |-> 255, originating_centre |-> 65535, originating_subcentre |-> 65535,
   update_sequence_number |-> 0, rep_year |-> 0, clock |-> <<0, 0, 0, 0>>, rep_second |-> 0,
   tables |-> <<>>, datadesc |-> <<>>, subsets |-> <<>>, edition_number |-> 4,
   master_table_version_number |-> 19, master_table_version_number_local |-> 0,
   compression |-> FALSE, optional_section |-> <<>>, section_end |-> NoEnds]

Longest == 2^20

Short == {val \in Nat : val <= 65535}

HasMembers(b) == b = [member \in DOMAIN Fresh |-> b[member]]

HasOctets(b) ==
  \A member \in {"master_table_number", "data_category", "data_subcategory",
                 "data_subcategory_local", "update_sequence_number", "rep_second",
                 "edition_number", "master_table_version_number",
                 "master_table_version_number_local"} : b[member] \in Octet

HasShorts(b) ==
  \A member \in {"originating_centre", "originating_subcentre", "rep_year"} : b[member] \in Short

HasSequences(b) ==
  /\ b.clock \in Seq(Octet) /\ Len(b.clock) = 4
  /\ b.optional_section \in Seq(Octet) /\ Len(b.optional_section) <= Longest
  /\ b.datadesc \in Seq(Short) /\ Len(b.datadesc) <= Longest
  /\ b.subsets \in Seq(Octet) /\ Len(b.subsets) <= Longest

IsBulletin(b) ==
  HasMembers(b) /\ HasOctets(b) /\ HasShorts(b) /\ HasSequences(b) /\ b.compression \in BOOLEAN

Own == [local |-> 0, exact |-> FALSE, pad |-> TRUE, spare |-> 0, tail |-> 0, compression |-> FALSE]

Style ==
  [local : 0..Longest, exact : BOOLEAN, pad : BOOLEAN, spare : 0..Longest, tail : Nat,
   compression : BOOLEAN]

(* Members have the widths of bulletin.h, and a message is no longer than the octets for
   its length can say, which the encoder does not check. *)
ASSUME ProgramsAssumption ==
  /\ Again \subseteq Headers /\ \A header \in Headers : IsBulletin(header)
  /\ \A d \in DataDescs : d \in Seq(Short) /\ Len(d) <= Longest
  /\ \A s \in Subsets : s \in Seq(Octet) /\ Len(s) <= Longest
  /\ Styles \subseteq Style \ {Own}

(* What Bulletin::clear and BufrBulletin::clear assign. *)
Cleared(b) ==
  Over([master_table_number |-> 0, data_category |-> 255, data_subcategory |-> 255,
        data_subcategory_local |-> 255, originating_centre |-> 65535,
        originating_subcentre |-> 65535, update_sequence_number |-> 0, rep_year |-> 0,
        clock |-> <<0, 0, 0, 0>>, rep_second |-> 0, tables |-> <<>>, datadesc |-> <<>>,
        subsets |-> <<>>, edition_number |-> 4, master_table_version_number |-> 19,
        master_table_version_number_local |-> 0, compression |-> FALSE,
        optional_section |-> <<>>], b)

Init ==
  /\ bulletin = None /\ clearing = FALSE /\ infos = {}
  /\ wire = <<>> /\ sent = None /\ relayed = FALSE /\ last = "start"

Free == bulletin # None /\ ~clearing

Create ==
  /\ bulletin = None
  /\ bulletin' = Fresh /\ infos' = {} /\ last' = "created"
  /\ UNCHANGED <<clearing, wire, sent, relayed>>

(* tables.clear() frees the Varinfos that are stored in the bulletin...  A program that starts
   over has no more use for the message. *)
ClearTables ==
  /\ Free /\ last # "cleared"
  /\ bulletin' = [Cleared(bulletin) EXCEPT !.subsets = bulletin.subsets]
  /\ clearing' = TRUE /\ infos' = {} /\ last' = "clearing"
  /\ wire' = <<>> /\ sent' = None /\ relayed' = FALSE

(* Mutant: the subsets of the last message stay. *)
ClearSubsetsLate ==
  /\ clearing
  /\ clearing' = FALSE /\ last' = "cleared"
  /\ UNCHANGED <<bulletin, infos, wire, sent, relayed>>

(* ...then subsets.clear() destroys the variables, which look into them. *)
ClearSubsets ==
  /\ clearing
  /\ bulletin' = Cleared(bulletin)
  /\ clearing' = FALSE /\ last' = "cleared"
  /\ UNCHANGED <<infos, wire, sent, relayed>>

(* The members are assigned by the program, all but those that other calls fill. *)
SetHeader(header) ==
  /\ Free
  /\ last = "created" \/ (last = "cleared" /\ header \in Again)
  /\ bulletin' = Over([tables |-> bulletin.tables, datadesc |-> bulletin.datadesc,
                       subsets |-> bulletin.subsets,
                       section_end |-> bulletin.section_end], header)
  /\ last' = "changed"
  /\ UNCHANGED <<clearing, infos, wire, sent, relayed>>

(* A bulletin of one edition is made one of another; its tables are the same. *)
Convert(edition) ==
  /\ Free /\ last = "decoded" /\ edition # bulletin.edition_number
  /\ bulletin' = [bulletin EXCEPT !.edition_number = edition] /\ last' = "changed"
  /\ UNCHANGED <<clearing, infos, wire, sent, relayed>>

(* load_tables throws when there are no files, and the tables stay. *)
LoadTables ==
  /\ Free /\ last = "changed"
  /\ bulletin' = IF CanLoad(bulletin) THEN [bulletin EXCEPT !.tables = TableId(bulletin)] ELSE bulletin
  /\ last' = IF CanLoad(bulletin) THEN "loaded" ELSE "refused"
  /\ UNCHANGED <<clearing, infos, wire, sent, relayed>>

(* obtain_subset and the store_variable functions: a Subset needs tables. *)
Fill(datadesc, subsets) ==
  /\ Free /\ last = "loaded" /\ bulletin.subsets = <<>>
  /\ bulletin' = Over([datadesc |-> datadesc, subsets |-> subsets], bulletin)
  /\ infos' = infos \cup OwnInfos(bulletin') /\ last' = "filled"
  /\ UNCHANGED <<clearing, wire, sent, relayed>>

EncodeCall ==
  /\ Free
  /\ IF Encodable(bulletin)
     THEN /\ wire' = Encode(bulletin) /\ sent' = [bulletin |-> bulletin, style |-> Own]
          /\ relayed' = (last = "decoded") /\ last' = "encoded"
     ELSE last' = "refused" /\ UNCHANGED <<wire, sent, relayed>>
  /\ UNCHANGED <<bulletin, clearing, infos>>

(* Other programs: octets for local use in section 1, an optional section of odd
   length, no pad after the descriptors, spare octets in section 4, octets
   after the message, compression. *)
Spares(n) == [i \in 1..n |-> 0]

ForeignSec1(b, style) ==
  LET own == Sec1(b)
  IN Octets(Len(own) + style.local, 3) \o <<b.master_table_number>>
       \o SubSeq(own, 5, Len(own)) \o Spares(style.local)

ForeignSec2(b, style) ==
  IF b.optional_section = <<>> \/ ~style.exact THEN Sec2(b)
  ELSE Octets(4 + Len(b.optional_section), 3) \o <<0>> \o b.optional_section

ForeignSec3(b, style) ==
  LET own == Sec3(b)
      pads == IF style.pad THEN 1 ELSE 0
      flags == IF style.compression THEN 192 ELSE 128
  IN Octets(Len(own) - 1 + pads, 3) \o SubSeq(own, 4, 6) \o <<flags>>
       \o SubSeq(own, 8, Len(own) - 1) \o Spares(pads)

ForeignSec4(b, style) ==
  LET data == Padded(b.subsets) \o Spares(style.spare)
  IN Octets(4 + Len(data), 3) \o <<0>> \o data

Foreign(b, style) ==
  Assembled(b, ForeignSec1(b, style) \o ForeignSec2(b, style) \o ForeignSec3(b, style)
                 \o ForeignSec4(b, style)) \o Spares(style.tail)

Receive(style) ==
  /\ Free /\ last = "filled" /\ Encodable(bulletin)
  /\ wire' = Foreign(bulletin, style) /\ sent' = [bulletin |-> bulletin, style |-> style]
  /\ relayed' = FALSE /\ last' = "received"
  /\ UNCHANGED <<bulletin, clearing, infos>>

(* What follows an octet is lost. *)
Cut(n) ==
  /\ Free /\ last \in {"encoded", "received"} /\ n < Len(wire)
  /\ wire' = SubSeq(wire, 1, n) /\ last' = "cut"
  /\ UNCHANGED <<bulletin, clearing, infos, sent, relayed>>

CanDecode == Free /\ last \in {"encoded", "received", "cut"}

Refuse ==
  /\ last' = "undecoded"
  /\ UNCHANGED <<bulletin, clearing, infos, wire, sent, relayed>>

Header(buf) == LET b == HeaderOf(buf, Sections(buf)) IN [b EXCEPT !.tables = TableId(b)]

DecodeHeader ==
  /\ CanDecode
  /\ IF HeaderWhole(wire) /\ CanLoad(HeaderOf(wire, Sections(wire)))
     THEN /\ bulletin' = Header(wire) /\ infos' = {} /\ last' = "header"
          /\ UNCHANGED <<clearing, wire, sent, relayed>>
     ELSE Refuse

(* With no subsets, obtain_subset is asked for the one before the first. *)
Decode ==
  /\ CanDecode
  /\ IF HeaderWhole(wire) /\ CanLoad(HeaderOf(wire, Sections(wire)))
     THEN LET sec == Sections(wire)
          IN IF ExpectedSubsets(wire, sec) > 0 /\ DataWhole(wire, sec) /\ EndWhole(wire, sec)
             THEN /\ bulletin' = WithData(Header(wire), wire, sec)
                  /\ infos' = OwnInfos(bulletin') /\ last' = "decoded"
                  /\ UNCHANGED <<clearing, wire, sent, relayed>>
             ELSE Refuse
     ELSE Refuse

Next ==
  \/ Create \/ ClearTables \/ ClearSubsets \/ LoadTables \/ EncodeCall
  \/ \E header \in Headers : SetHeader(header)
  \/ \E edition \in 3..5 : Convert(edition)
  \/ \E datadesc \in DataDescs, subsets \in Subsets : Fill(datadesc, subsets)
  \/ \E style \in Styles : Receive(style)
  \/ \E n \in 0..Len(wire) : Cut(n)
  \/ DecodeHeader \/ Decode

Spec == Init /\ [][Next]_vars

(***************************************************************************)
(* Bulletin::diff: how many differences are noted.                         *)
(***************************************************************************)
Ones(flags) == Cardinality({i \in DOMAIN flags : flags[i]})

ComparedAlways ==
  {"master_table_number", "data_category", "data_subcategory", "data_subcategory_local",
   "originating_centre", "originating_subcentre", "update_sequence_number", "rep_year",
   "rep_second", "tables"}

ComparedDetails ==
  {"edition_number", "master_table_version_number", "master_table_version_number_local",
   "optional_section"}

DiffDataDesc(b1, b2) ==
  IF Len(b1.datadesc) # Len(b2.datadesc) THEN 1
  ELSE Ones([i \in DOMAIN b1.datadesc |-> b1.datadesc[i] # b2.datadesc[i]])

(* Mutant: only the subsets that both have are compared. *)
DiffSubsetsShort(b1, b2) ==
  Ones([i \in DOMAIN b1.subsets \cap DOMAIN b2.subsets |-> b1.subsets[i] # b2.subsets[i]])

(* Subsets with other tables differ, whatever is in them. *)
DiffSubsets(b1, b2) ==
  IF Len(b1.subsets) # Len(b2.subsets) THEN 1
  ELSE Ones([i \in DOMAIN b1.subsets |->
               b1.tables # b2.tables \/ b1.subsets[i] # b2.subsets[i]])

(* The length of the optional section is one difference, and what it says another. *)
Diff(b1, b2) ==
  Ones([f \in ComparedAlways \cup ComparedDetails |-> b1[f] # b2[f]])
    + Ones([i \in 1..4 |-> b1.clock[i] # b2.clock[i]])
    + (IF Len(b1.optional_section) # Len(b2.optional_section) THEN 1 ELSE 0)
    + DiffDataDesc(b1, b2) + DiffSubsets(b1, b2)

(***************************************************************************)
(* Properties.                                                             *)
(***************************************************************************)

(* What is left of a bulletin after its message: editions 2 and 3 have one octet
   for each centre, no international subcategory, no seconds, and a year of
   which the century is guessed; edition 4 as written here has no master
   table number.  An optional section gets even, the number of subsets is cut,
   and messages are never compressed. *)
Carried(b, style) ==
  LET ed4 == b.edition_number = 4
      yy == b.rep_year % 100
      year == IF yy > 50 THEN 1900 + yy ELSE 2000 + yy
  IN Over([master_table_number |-> IF ed4 /\ style = Own THEN 0 ELSE b.master_table_number,
           originating_centre |-> b.originating_centre % (IF ed4 THEN 65536 ELSE 256),
           originating_subcentre |-> b.originating_subcentre % (IF ed4 THEN 65536 ELSE 256),
           data_subcategory |-> IF ed4 THEN b.data_subcategory ELSE 255,
           rep_second |-> IF ed4 THEN b.rep_second ELSE 0,
           rep_year |-> IF ed4 THEN b.rep_year ELSE year,
           optional_section |-> IF style.exact THEN b.optional_section ELSE Padded(b.optional_section),
           compression |-> style.compression,
           subsets |-> SubSeq(b.subsets, 1, Len(b.subsets) % SubsetLimit)], b)

(* The offsets of the sections as they were laid out. *)
LaidOut(b, style) ==
  LET optional == Len(b.optional_section)
      sec1 == (IF b.edition_number = 4 THEN 22 ELSE 18) + style.local
      sec2 == IF optional = 0 THEN 0
              ELSE 4 + optional + (IF style.exact THEN 0 ELSE optional % 2)
      sec3 == 7 + 2 * Len(b.datadesc) + (IF style.pad THEN 1 ELSE 0)
      sec4 == 4 + Len(b.subsets) + (Len(b.subsets) % 2) + style.spare
  IN <<8, 8 + sec1, 8 + sec1 + sec2, 8 + sec1 + sec2 + sec3, 8 + sec1 + sec2 + sec3 + sec4,
       12 + sec1 + sec2 + sec3 + sec4>>

Message == Carried(sent.bulletin, sent.style)

(* A message is decoded, here or elsewhere written, to the bulletin it was written from, less
   what its edition or this library cannot carry; its tables are those of the header that was
   read, and the ends of its sections are where the writer put them.  decode_header
   gives the same bulletin without the data, also when the end of the message is lost. *)
ReadsBack ==
  LET read(subsets, ends) ==
        Over([tables |-> TableId(Message), subsets |-> subsets, section_end |-> ends], Message)
  IN /\ last = "decoded" =>
          bulletin = read(Message.subsets, LaidOut(sent.bulletin, sent.style))
     /\ last = "header" => bulletin = read(<<>>, NoEnds)

(* What a relay loses it loses the first time: a message that was already relayed is
   written again octet by octet. *)
Settled == last = "decoded" /\ relayed => Encode(bulletin) = wire

(* A message that was cut, wherever, is never decoded, and one that is whole always is, as
   long as the number of its subsets is not cut to 0. *)
DecodesWhole ==
  LET whole == Len(wire) >= 8 /\ Len(wire) >= Number(wire, 4, 3)
  IN /\ last = "decoded" => whole
     /\ last = "undecoded" => ~whole \/ Len(sent.bulletin.subsets) % SubsetLimit = 0

(* diff tells when a message lost something on its way, and says nothing when it did not;
   it leaves out compression, and where the sections were. *)
LossesNoted ==
  last = "decoded" =>
    LET kept(b) == Over([compression |-> FALSE, section_end |-> NoEnds], b)
    IN Diff(sent.bulletin, bulletin) = 0 <=> kept(sent.bulletin) = kept(bulletin)

(* A bulletin that is cleared is as a new one, all but the ends of the sections of the last
   message that was decoded in it. *)
ClearedIsFresh == last = "cleared" => bulletin = [Fresh EXCEPT !.section_end = bulletin.section_end]

(* vartable.h:15-17, varinfo.h:37: Varinfos are never deallocated; so each variable of a bulletin
   has one that exists. *)
InfosExist == bulletin # None => OwnInfos(bulletin) \subseteq infos
=============================================================================
