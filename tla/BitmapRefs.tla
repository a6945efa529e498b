----------------------------- MODULE BitmapRefs -----------------------------
(***************************************************************************)
(* What the constructor of Bitmap (bulletin/bitmaps.cc) computes: which    *)
(* variables of a subset the bits of a data present bitmap refer to.       *)
(* BitmapWalk.tla models the loop that computes it.                        *)
(*                                                                         *)
(* A subset is a sequence of kinds: "B" for a variable with F=0, "C" for   *)
(* one with F=2, a bitmap or character data.  Positions count from 1.      *)
(***************************************************************************)
EXTENDS Naturals, Sequences, FiniteSets

Kinds == {"B", "C"}

DataBefore(sub, anchor) == {p \in 1..anchor : sub[p] = "B"}

(* How many data variables there are from p to the anchor, p included: the
   last bit of a bitmap refers to the nearest one, of rank 1. *)
Rank(sub, anchor, p) == Cardinality({q \in DataBefore(sub, anchor) : q >= p})

(* Bit i of a bitmap, counted from 1, refers to the data variable of rank
   Len(bits) + 1 - i. *)
RefsOf(sub, anchor, bits) ==
  {p \in DataBefore(sub, anchor) :
     LET r == Rank(sub, anchor, p)
     IN r <= Len(bits) /\ bits[Len(bits) + 1 - r]}

(* The constructor throws when the bitmap is empty and when it has more bits
   than there are data variables before it. *)
Constructible(sub, anchor, bits) ==
  bits # <<>> /\ Len(bits) <= Cardinality(DataBefore(sub, anchor))

============================================================================
