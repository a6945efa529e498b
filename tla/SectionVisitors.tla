-------------------------- MODULE SectionVisitors --------------------------
(***************************************************************************)
(* What reads a data descriptor section before, or without, the data:      *)
(* Printer (bulletin/interpreter.cc), which lists its descriptors, and     *)
(* ScanFeatures (bulletin/dds-scanfeatures.cc), which collects the         *)
(* operators and replications it uses.  They are interpreters like those   *)
(* of Transcode.tla, but a replication is visited once, no bitmap comes to *)
(* be active, and what a subclass leaves out throws.                       *)
(***************************************************************************)
EXTENDS Transcode

VARIABLES
  listing,   (* lines printed by Printer: descriptors and how far they are
                indented                                                   *)
  features   (* ScanFeatures::features                                     *)

output == <<listing, features>>

Visiting == status = "run" /\ phase \in {"print", "scan"}
Scanning == phase = "scan"
VisitAt(f) == Visiting /\ AtDescriptor /\ Cur[1] = f

(* indent grows by indent_step, 2, in a replication and in a sequence. *)
Indent == 2 * (Len(stack) - 1)

Line(indent, code) == [indent |-> indent, code |-> code]

List(codes) ==
  listing' = IF Scanning THEN listing
             ELSE listing \o [i \in DOMAIN codes |-> Line(Indent, codes[i])]

(* A feature has the descriptors that varcode_format writes. *)
Feature(op, codes) == [op |-> op, codes |-> codes]

Note(feature) ==
  features' = IF Scanning THEN features \cup {feature} ELSE features

(* What an interpreter over descriptors alone leaves as it is. *)
Apart == <<current, last, live, defined, served, bits_io, subsets, job, status>>

----------------------------------------------------------------------------
(* Printer::b_variable prints and nothing else; ScanFeatures has that of
   Interpreter, and neither C03 nor associated fields. *)
Unscannable(code) ==
  mods.refval_bits # 0 \/ ~Resolves(code) \/ field.bit_count # 0

VisitElement ==
  /\ VisitAt(0)
  /\ List(<<Cur>>)
  /\ UNCHANGED features
  /\ IF Scanning /\ Unscannable(Cur) THEN Throw
     ELSE GoOn(Rest) /\ UNCHANGED <<pending, tables, Apart>>

(* c_modifier: the operators that take the next descriptor, and those refused. *)
BeginsField == X = 4 /\ Y # 0

RefusesField ==
  \/ field.bit_count # 0 \/ Y > 32
  \/ Rest = <<>> \/ Head(Rest) # <<0, 31, 21>>

(* A local descriptor that get_unknown has to make. *)
NeedsUnknown(code) ==
  /\ Y # 0
  /\ code \in DOMAIN BTable => GetVarinfo(code).bit_len # Y

RefusesLocal ==
  \/ Rest = <<>>
  \/ LET code == Head(Rest)
     IN /\ Y # 0
        /\ \/ code \in DOMAIN BTable /\ ~Resolves(code)
           \/ NeedsUnknown(code) /\ UnknownClash(code)

RefusesModifier ==
  CASE X = 4  -> BeginsField /\ RefusesField
    [] X = 5  -> TRUE
    [] X = 6  -> RefusesLocal
    [] X \in {22, 23} -> Y # 0
    [] X = 37 -> Y \notin {0, 255}
    [] OTHER  -> FALSE

(* Mutant: a local descriptor is left to be visited. *)
AfterModifierKeepsLocal == IF BeginsField THEN Tail(Rest) ELSE Rest

AfterModifier == IF BeginsField \/ X = 6 THEN Tail(Rest) ELSE Rest

PendingAfterModifier ==
  IF X \in {22, 23} THEN TRUE ELSE IF X = 37 /\ Y = 0 THEN FALSE ELSE pending

KnowUnknown ==
  IF X = 6 /\ NeedsUnknown(Head(Rest))
    THEN [w \in (DOMAIN unknown_table) \cup {Y} |->
            IF w = Y THEN Head(Rest) ELSE unknown_table[w]]
    ELSE unknown_table

VisitModifier ==
  /\ VisitAt(2)
  /\ List(IF BeginsField /\ ~RefusesField THEN <<Cur, Head(Rest)>> ELSE <<Cur>>)
  /\ Note(Feature("C", IF X = 6 /\ Rest # <<>> THEN <<Cur, Head(Rest)>> ELSE <<Cur>>))
  /\ IF RefusesModifier THEN Throw
     ELSE /\ stack' = Continue(AfterModifier)
          /\ mods' = IF X \in {1, 2, 3, 7, 8} THEN SetModifier(X, Y) ELSE mods
          /\ field' = IF X = 4 THEN [field EXCEPT !.bit_count = Y] ELSE field
          /\ pending' = PendingAfterModifier
          /\ bitmap_code' = IF X \in {22, 23} THEN Cur ELSE bitmap_code
          /\ unknown_table' = KnowUnknown
          /\ UNCHANGED <<refvals, bitmap_table, Apart>>

(* r_replication, overridden by both: the descriptors are visited once. *)
ReplicationFeature ==
  IF Delayed(Y) THEN Feature("Rxx000", <<FactorCode(Rest)>>) ELSE Feature("Rxxyyy", <<>>)

VisitReplication ==
  /\ VisitAt(1) /\ ~pending
  /\ LET after == AfterFactor(Y, Rest)
     IN IF X > Len(after) THEN Throw /\ UNCHANGED output
        ELSE /\ List(<<Cur>>)
             /\ Note(ReplicationFeature)
             /\ stack' = Append(Continue(SubSeq(after, X + 1, Len(after))),
                                NewFrame(SubSeq(after, 1, X), 1))
             /\ UNCHANGED <<mods, refvals, field, bitmap_code, pending, tables, Apart>>

(* r_bitmap with an empty define_bitmap: the bitmap is checked, and not listed. *)
VisitBitmap ==
  /\ VisitAt(1) /\ pending
  /\ UNCHANGED output
  /\ LET after == AfterFactor(Y, Rest)
     IN IF \/ X # 1 \/ after = <<>> \/ Head(after) # <<0, 31, 31>>
           \/ Delayed(Y) /\ FactorCode(Rest) \notin DOMAIN BTable
          THEN Throw
          ELSE /\ GoOn(Tail(after))
               /\ pending' = FALSE
               /\ UNCHANGED <<tables, Apart>>

VisitSequence ==
  /\ VisitAt(3)
  /\ UNCHANGED features
  /\ IF Cur \in DOMAIN DTable
       THEN /\ List(<<Cur>>)
            /\ stack' = Append(Continue(Rest), NewFrame(DTable[Cur], 1))
            /\ UNCHANGED <<mods, refvals, field, bitmap_code, pending, tables, Apart>>
       ELSE Throw /\ UNCHANGED listing

StartScanning ==
  /\ phase = "print"
  /\ Restart("scan")
  /\ UNCHANGED <<tables, decoded, edited, output>>

(* The message is decoded into a Bulletin of its own.  Bound: a section that a
   program fills is not decoded first. *)
StartDecoding ==
  /\ phase = "scan" /\ \A built \in Built : built[1] # datadesc
  /\ Restart("decode")
  /\ NoTables
  /\ UNCHANGED <<decoded, edited, output>>

----------------------------------------------------------------------------
allvars == <<vars, output>>

VisitInit == Init /\ listing = <<>> /\ features = {}

VisitNext ==
  \/ Next /\ UNCHANGED output
  \/ VisitElement \/ VisitModifier \/ VisitReplication \/ VisitBitmap
  \/ VisitSequence \/ StartScanning \/ StartDecoding

Spec == VisitInit /\ [][VisitNext]_allvars /\ WF_allvars(VisitNext)

----------------------------------------------------------------------------
(* The section as a list: each descriptor, how deep it is, and those that go
   with it, its factor or the local descriptor it is about.  A replication of
   B31031 is a bitmap, and is not one of them. *)
Item(indent, code, with) == [indent |-> indent, code |-> code, with |-> with]

RECURSIVE Flat(_, _)
Flat(ops, indent) ==
  IF ops = <<>> THEN <<>>
  ELSE LET code  == ops[1]
           next  == Tail(ops)
           after == AfterFactor(code[3], next)
           rest  == SubSeq(after, code[2] + 1, Len(after))
       IN CASE code[1] = 0 -> <<Item(indent, code, <<>>)>> \o Flat(next, indent)
            [] code[1] = 1 /\ after[1] = <<0, 31, 31>> -> Flat(rest, indent)
            [] code[1] = 1 ->
                 <<Item(indent, code, IF Delayed(code[3]) THEN <<FactorCode(next)>>
                                      ELSE <<>>)>>
                   \o Flat(SubSeq(after, 1, code[2]), indent + 2) \o Flat(rest, indent)
            [] code[1] = 2 /\ code[2] = 6 ->
                 <<Item(indent, code, <<next[1]>>)>> \o Flat(Tail(next), indent)
            [] code[1] = 2 -> <<Item(indent, code, <<>>)>> \o Flat(next, indent)
            [] code[1] = 3 ->
                 <<Item(indent, code, <<>>)>>
                   \o Flat(IF code \in DOMAIN DTable THEN DTable[code] ELSE <<>>, indent + 2)
                   \o Flat(next, indent)

FeatureOf(item) ==
  CASE item.code[1] = 2 -> Feature("C", <<item.code>> \o item.with)
    [] item.with = <<>> -> Feature("Rxxyyy", <<>>)
    [] OTHER            -> Feature("Rxx000", item.with)

(* A listing that comes to its end has every descriptor of the section, once, in
   its place and at its depth, sequences expanded and bitmaps left out; and the
   features of a section are its operators and its replications, no less and no
   more. *)
ListsWhole ==
  LET flat == Flat(datadesc, 0)
  IN /\ result["print"] = "whole" =>
          listing = [i \in DOMAIN flat |-> Line(flat[i].indent, flat[i].code)]
     /\ result["scan"] = "whole" =>
          features = {FeatureOf(flat[i]) : i \in {i \in DOMAIN flat :
                                                    flat[i].code[1] \in {1, 2}}}

(* A section whose data could be decoded can be visited by all the others, but for
   what each leaves out: the listing has neither character data nor substituted
   values; the features, besides, neither new reference values nor associated
   fields, nor descriptors without a Table B entry where a factor was zero; the
   structured listing has no new reference values.  The validator accepts what
   the decoder makes. *)
Uses(codes) ==
  LET flat == Flat(datadesc, 0)
  IN \E i \in DOMAIN flat : flat[i].code \in codes

UsesUnknown ==
  LET flat == Flat(datadesc, 0)
  IN \E i \in DOMAIN flat : flat[i].code[1] = 0 /\ flat[i].code \notin DOMAIN BTable

Modifiers(x, ys) == {<<2, x, y>> : y \in ys}
Unprinted == Modifiers(5, 0..255) \cup {<<2, 23, 255>>}
NewRefvals == Modifiers(3, 1..254)
WithFields == Modifiers(4, 1..32)

VisitorsFollow ==
  phase = "encode" =>
    /\ result["print"] = "failed" <=> Uses(Unprinted)
    /\ result["scan"] = "failed" =>
         Uses(Unprinted \cup NewRefvals \cup WithFields) \/ UsesUnknown
    /\ ~edited => /\ result["validate"] = "whole"
                  /\ result["dump"] = "failed" <=> Uses(NewRefvals)

(* Listing, decoding, encoding and decoding again come to an end. *)
Completes == <>(phase = "done" \/ status # "run")

============================================================================
