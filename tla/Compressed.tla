----------------------------- MODULE Compressed -----------------------------
(***************************************************************************)
(* CompressedDecoderTarget (bufr/decoder.cc) and the Input functions it    *)
(* uses (bufr/input.cc): each item of the data section has the bits of all *)
(* the subsets, a base value and a difference for each, and a loop hands   *)
(* every subset its value.                                                 *)
(*                                                                         *)
(* Who sends the section is not part of the code: Parts is the coding of   *)
(* WMO Manual on Codes, regulation 94.6.3, as the decoder expects it.      *)
(***************************************************************************)
EXTENDS Fields

CONSTANTS N, Items, NoItem,
  MaxItems    (* Bound: items of a data section                            *)

ASSUME NAssumption == N \in Nat \ {0}

VARIABLES
  table,      (* out.subsets                                               *)
  sent,       (* the item under way, or NoItem                             *)
  stream,     (* its bits: part, and af for the associated field; each is a
                 base, the width of a difference, and the differences      *)
  busy,       (* the loop over the subsets is under way                    *)
  var,        (* the Var that the loop fills for every subset              *)
  fields,     (* the attributes made of associated fields, by subset       *)
  done,       (* how many subsets have had their value                     *)
  before,     (* history: table before the item under way                     *)
  items,      (* history: how many items were sent                         *)
  status      (* "run" or "error"                                          *)

vars == <<table, sent, stream, busy, var, fields, done, before, items, status>>

Table == INSTANCE SubsetTable

(* What may be sent, for the subsets to be as if each were alone: numbers fit in their
   bits, a replication factor is not all ones, and either all the subsets have an
   associated field that makes an attribute, or none has.  The code does otherwise
   with factors of all ones, which it takes for missing (bufr/input.cc:513), with
   fields that make an attribute in some subsets only, as the Var that goes around
   keeps it, with a significance of 21 and a field of all ones, which it skips
   (bufr/input.cc:469), and with the field before a string, which it does not read
   (bufr/decoder.cc:546). *)
FieldsAlike(item) ==
  \A s, t \in 1..N :
    MakesAttribute(item.field, item.afs[s]) => MakesAttribute(item.field, item.afs[t])

ASSUME ItemsAssumption ==
  /\ Items \subseteq Table!Item /\ NoItem \notin Items
  /\ \A item \in Items :
       /\ \A s \in 1..N : item.raws[s] <= AllOnes(item.info.bit_len)
       /\ item.info.code \in NeverMissing =>
            \A s \in 1..N : item.raws[s] # AllOnes(item.info.bit_len)
       /\ item.dest = "field" =>
            /\ item.info.type = "Integer" /\ FieldsAlike(item)
            /\ item.field.significance = 21 =>
                 \E s \in 1..N : item.afs[s] # AllOnes(item.field.bit_count)

NoVar == [code |-> <<0, 0, 0>>, val |-> Unset, attrs |-> Table!NoAttrs]

Zeros == [s \in 1..N |-> 0]
Part(base, nbits, diffs) == [base |-> base, nbits |-> nbits, diffs |-> diffs]
NoPart == Part(0, 0, Zeros)

AllSame(raws) == \A s \in 1..N : raws[s] = raws[1]

----------------------------------------------------------------------------
(* The sender.  A number is a base and a difference, and a difference of ones
   is a missing value; when the subsets agree there are no differences. *)
Difference(w, raw, base, nbits) ==
  IF nbits = 0 THEN 0 ELSE IF raw = AllOnes(w) THEN AllOnes(nbits) ELSE raw - base

Codes(w, raws, base, nbits) ==
  IF nbits = 0 THEN \A s \in 1..N : raws[s] = base
  ELSE /\ base < AllOnes(w)
       /\ \A s \in 1..N :
            raws[s] # AllOnes(w) => raws[s] - base \in 0..(AllOnes(nbits) - 1)

NumberParts(w, raws) ==
  {Part(c[1], c[2], [s \in 1..N |-> Difference(w, raws[s], c[1], c[2])]) :
     c \in {c \in (0..AllOnes(w)) \X (0..w) : Codes(w, raws, c[1], c[2])}}

(* A string is sent once for all, or a whole one for each subset. *)
StringParts(w, raws) ==
  {Part(0, w, raws)} \cup (IF AllSame(raws) THEN {Part(raws[1], 0, Zeros)} ELSE {})

(* An associated field is always a base and a difference, which make ones when
   it is missing for a subset; it has no differences when it is for all. *)
FieldParts(w, afs) ==
  {Part(c[1], c[2], [s \in 1..N |-> afs[s] - c[1]]) :
     c \in {c \in (0..AllOnes(w)) \X (0..w) :
              /\ c[1] = AllOnes(w) => c[2] = 0
              /\ \A s \in 1..N : afs[s] - c[1] \in 0..AllOnes(c[2])}}

(* A missing base with differences breaks the rules. *)
BrokenPart(w) == Part(AllOnes(w), 1, Zeros)

Parts(item) ==
  IF item.info.type = "String" THEN StringParts(item.info.bit_len, item.raws)
  ELSE NumberParts(item.info.bit_len, item.raws) \cup {BrokenPart(item.info.bit_len)}

Send ==
  /\ status = "run" /\ sent = NoItem /\ items < MaxItems
  /\ sent' \in {item \in Items : Table!Sendable(item, Len(table[1]))}
  /\ \E part \in Parts(sent'),
        af \in IF sent'.dest = "field"
                 THEN FieldParts(sent'.field.bit_count, sent'.afs) ELSE {NoPart} :
       stream' = [part |-> part, af |-> af]
  /\ before' = table
  /\ items' = items + 1
  /\ UNCHANGED <<table, busy, var, fields, done, status>>

----------------------------------------------------------------------------
(* decode_compressed_semantic_number: a number that all the subsets must share has
   no differences.  Strings may, if they are the same once decoded. *)
RefusedNumber ==
  sent.dest = "uniform" /\ sent.info.type = "Integer" /\ stream.part.nbits > 0

(* Mutant: a string is always the base. *)
StringOfBase(info, part, s) == DecodeString(info, part.base)

StringOf(info, part, s) ==
  DecodeString(info, IF part.nbits = 0 THEN part.base ELSE part.diffs[s])

RefusedString ==
  /\ sent.dest = "uniform" /\ sent.info.type = "String"
  /\ \E s \in 1..N : StringOf(sent.info, stream.part, s) # StringOf(sent.info, stream.part, 1)

(* decode_compressed_base: a missing base has no differences. *)
RefusedBase ==
  /\ sent.info.type = "Integer" /\ stream.part.nbits > 0
  /\ stream.part.base = AllOnes(sent.info.bit_len)

Unimplemented ==
  sent.info.type = "Binary" \/ sent.dest \in {"chardata", "refval"}

Refused == RefusedNumber \/ RefusedString \/ RefusedBase \/ Unimplemented

(* decode_compressed_number_af: the attributes of all the subsets are made before
   the first value is read, and none is when the base is missing. *)
NullAttr == <<>>

AttrsMade ==
  [s \in 1..N |->
     LET af == stream.af.base + stream.af.diffs[s]
     IN IF \/ sent.dest # "field"
           \/ stream.af.base = AllOnes(sent.field.bit_count)
           \/ ~MakesAttribute(sent.field, af)
          THEN NullAttr
          ELSE <<AttributeOf[sent.field.significance],
                 AttributeValue(sent.field, af)>>]

(* Mutant: what is refused is not an error. *)
BeginUnlessRefused ==
  /\ status = "run" /\ sent # NoItem /\ ~busy /\ ~Refused
  /\ busy' = TRUE
  /\ done' = 0
  /\ fields' = AttrsMade
  /\ var' = [code |-> sent.info.code, val |-> Unset, attrs |-> Table!NoAttrs]
  /\ UNCHANGED <<table, sent, stream, before, items, status>>

Begin ==
  /\ status = "run" /\ sent # NoItem /\ ~busy
  /\ IF Refused THEN status' = "error" /\ UNCHANGED <<busy, var, fields, done>>
     ELSE /\ busy' = TRUE
          /\ done' = 0
          /\ fields' = AttrsMade
          /\ var' = [code |-> sent.info.code, val |-> Unset, attrs |-> Table!NoAttrs]
          /\ UNCHANGED status
  /\ UNCHANGED <<table, sent, stream, before, items>>

(* decode_compressed_number for one subset. *)
NumberOf(info, part, s) ==
  LET missing == \/ part.base = AllOnes(info.bit_len)
                 \/ part.nbits > 0 /\ part.diffs[s] = AllOnes(part.nbits)
                 \/ part.base + part.diffs[s] = AllOnes(info.bit_len)
  IN IF missing THEN Unset ELSE part.base + part.diffs[s] + info.bit_ref

ValueOf(info, part, s) ==
  IF info.type = "String" THEN StringOf(info, part, s) ELSE NumberOf(info, part, s)

(* The loop over numbers with differences reuses one Var; otherwise each subset
   gets a Var of its own. *)
Shared == sent.info.type = "Integer" /\ stream.part.nbits > 0

AttrsOf(s) ==
  LET old == IF Shared THEN var.attrs ELSE Table!NoAttrs
  IN IF fields[s] = NullAttr THEN old
     ELSE [c \in (DOMAIN old) \cup {fields[s][1]} |->
             IF c = fields[s][1] THEN fields[s][2] ELSE old[c]]

Filled(s) ==
  [code |-> sent.info.code, val |-> ValueOf(sent.info, stream.part, s),
   attrs |-> AttrsOf(s)]

(* Mutant: every value goes to the reference subset. *)
DispatchToFirst(s, filled) ==
  IF sent.dest # "attribute" THEN table' = [table EXCEPT ![1] = Append(@, filled)]
  ELSE table' = [table EXCEPT ![1][sent.pos].attrs =
                   Table!SetAttr(@, filled.code, filled.val)]

(* The destination of a value: DispatchToSubsets, or the attributes of pos. *)
Dispatch(s, filled) ==
  IF sent.dest # "attribute" THEN table' = [table EXCEPT ![s] = Append(@, filled)]
  ELSE table' = [table EXCEPT ![s][sent.pos].attrs =
                   Table!SetAttr(@, filled.code, filled.val)]

Deliver ==
  /\ status = "run" /\ busy /\ done < N
  /\ LET s == done + 1
     IN /\ Dispatch(s, Filled(s))
        /\ var' = IF Shared THEN Filled(s) ELSE var
        /\ done' = s
  /\ UNCHANGED <<sent, stream, busy, fields, before, items, status>>

(* The item is over; what its functions kept goes away. *)
End ==
  /\ busy /\ done = N
  /\ busy' = FALSE
  /\ sent' = NoItem
  /\ done' = 0
  /\ stream' = [part |-> NoPart, af |-> NoPart]
  /\ var' = NoVar
  /\ fields' = [s \in 1..N |-> NullAttr]
  /\ before' = table
  /\ UNCHANGED <<table, items, status>>

Init ==
  /\ table = [s \in 1..N |-> <<>>] /\ before = table
  /\ sent = NoItem /\ stream = [part |-> NoPart, af |-> NoPart]
  /\ busy = FALSE /\ done = 0
  /\ var = NoVar
  /\ fields = [s \in 1..N |-> NullAttr]
  /\ items = 0 /\ status = "run"

Next == Send \/ Begin \/ Deliver \/ End

Spec == Init /\ [][Next]_vars /\ WF_vars(Begin \/ Deliver \/ End)

----------------------------------------------------------------------------
(* Every variable has its type; a value is one that its item's bits can hold. *)
TypeOK ==
  /\ DOMAIN table = 1..N /\ DOMAIN before = 1..N
  /\ sent \in Items \cup {NoItem}
  /\ busy \in BOOLEAN /\ done \in 0..N /\ items \in 0..MaxItems
  /\ status \in {"run", "error"}
  /\ \A s \in 1..N : \A i \in DOMAIN table[s] :
       \/ table[s][i].val = Unset
       \/ \E item \in Items :
            /\ item.info.code = table[s][i].code
            /\ table[s][i].val - item.info.bit_ref \in 0..AllOnes(item.info.bit_len)

(* The subsets grow together, whatever the data: when an item is over all have the
   same descriptors in the same order, of which the interpreter takes the first for
   all; while one is delivered, those that had their value have one variable more
   than the others, or the same if it is an attribute, and nothing else in them
   changes. *)
SameShape ==
  /\ sent = NoItem =>
       \A s \in 1..N :
         /\ Len(table[s]) = Len(table[1])
         /\ \A i \in DOMAIN table[1] : table[s][i].code = table[1][i].code
  /\ sent # NoItem =>
       \A s \in 1..N :
         IF busy /\ s <= done /\ sent.dest # "attribute"
           THEN /\ Len(table[s]) = Len(before[s]) + 1
                /\ SubSeq(table[s], 1, Len(before[s])) = before[s]
           ELSE Len(table[s]) = Len(before[s])

(* Compressed data is decoded as if each subset had been decoded alone. *)
Known(subset) ==
  [i \in DOMAIN subset |->
     [subset[i] EXCEPT !.attrs = [c \in {c \in DOMAIN @ : @[c] # Unset} |-> @[c]]]]
KnownTable == [s \in 1..N |-> Known(IF sent = NoItem THEN table[s] ELSE before[s])]
Promise == INSTANCE SubsetTable WITH table <- KnownTable
AsIfAlone == Promise!Spec

(* An item that is sent is given to every subset, or refused. *)
Delivered == (sent # NoItem) ~> (sent = NoItem \/ status = "error")
=============================================================================
