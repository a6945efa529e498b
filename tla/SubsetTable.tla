---------------------------- MODULE SubsetTable ----------------------------
(***************************************************************************)
(* What decoding a compressed data section promises: the same subsets as   *)
(* if each had been decoded alone, as UncompressedDecoderTarget does, from *)
(* its own bits.  All subsets get their part of an item at once.           *)
(*                                                                         *)
(* An attribute without a value is like no attribute, and is not recorded. *)
(***************************************************************************)
EXTENDS Fields

CONSTANTS
  N,          (* how many subsets                                          *)
  Items,      (* what may be sent, see Item                                *)
  NoItem

VARIABLES
  table,      (* Bulletin::subsets                                         *)
  sent        (* an item on its way, or NoItem                             *)

(* An item is a field of every subset: its bits in each, raws, and those of its
   associated field, afs, if it has one.  A replication factor, a significance
   or a bitmap is the same for all; a class 33 element or a substituted value is
   for the variable at pos.  Character data and new reference values are not
   implemented for compressed data. *)
Item ==
  [dest : {"store", "uniform", "field", "attribute", "chardata", "refval"}, info : Varinfo, pos : Nat,
   field : [bit_count : 1..32, significance : 1..63, skip_missing : BOOLEAN],
   raws : [1..N -> Nat], afs : [1..N -> Nat]]

NoAttrs == [c \in {} |-> Unset]

SetAttr(attrs, code, val) ==
  IF val = Unset THEN attrs
  ELSE [c \in (DOMAIN attrs) \cup {code} |-> IF c = code THEN val ELSE attrs[c]]

FieldAttrs(field, af) ==
  IF MakesAttribute(field, af)
    THEN SetAttr(NoAttrs, AttributeOf[field.significance], AttributeValue(field, af))
    ELSE NoAttrs

NewVar(info, raw, attrs) ==
  [code |-> info.code, val |-> DecodeValue(info, raw), attrs |-> attrs]

(* The variables of subset s when the item has been decoded. *)
Decoded(vars, item, s) ==
  CASE item.dest \in {"store", "uniform"} ->
         Append(vars, NewVar(item.info, item.raws[s], NoAttrs))
    [] item.dest = "field" ->
         Append(vars, NewVar(item.info, item.raws[s],
                             FieldAttrs(item.field, item.afs[s])))
    [] item.dest = "attribute" ->
         [vars EXCEPT ![item.pos].attrs =
            SetAttr(@, item.info.code, DecodeValue(item.info, item.raws[s]))]
    [] item.dest \in {"chardata", "refval"} -> vars

Sendable(item, width) == item.dest = "attribute" => item.pos \in 1..width

Init == table = [s \in 1..N |-> <<>>] /\ sent = NoItem

Send ==
  /\ sent = NoItem
  /\ sent' \in {item \in Items : Sendable(item, Len(table[1]))}
  /\ UNCHANGED table

Decode ==
  /\ sent # NoItem
  /\ table' = [s \in 1..N |-> Decoded(table[s], sent, s)]
  /\ sent' = NoItem

Next == Send \/ Decode

Spec == Init /\ [][Next]_<<table, sent>>
============================================================================
