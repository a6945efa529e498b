------------------------------ MODULE Bitmaps ------------------------------
(***************************************************************************)
(* The data present bitmaps of one interpreter run, bulletin/bitmaps.cc,   *)
(* with the calls that bulletin/interpreter.cc makes on them.              *)
(*                                                                         *)
(* While a subset is decoded or encoded, variables are stored one after    *)
(* the other.  A bitmap is stored like a variable (its F is 2), and says   *)
(* of each of the data variables that precede it whether something (a      *)
(* quality value, a substituted value) follows for it.  The interpreter    *)
(* then asks Bitmaps::next() for the position of the variable that the     *)
(* next class 33 element, or substituted value, belongs to.                *)
(*                                                                         *)
(* Positions here count from 1; in the code they count from 0.             *)
(***************************************************************************)
EXTENDS BitmapRefs, FiniteSetsExt

CONSTANTS
  MaxVars,     (* Bound: variables stored in a subset.                     *)
  MaxBits,     (* Bound: length of a bitmap.                               *)
  NoBitmap     (* The null pointer of Bitmaps::current and Bitmaps::last.  *)

Positions == Nat \ {0}

(* A Bitmap object.  refs is kept as the set of the positions collected by
   the constructor; left is what its iterator has still to go through. *)
Bitmap == [id : Nat, bits : Seq(BOOLEAN), anchor : Nat,
           refs : SUBSET Positions, left : SUBSET Positions]

ASSUME BoundsAssumption == MaxVars \in Nat /\ MaxBits \in Nat
ASSUME NoBitmapAssumption == NoBitmap \notin Bitmap

VARIABLES
  subset,    (* kinds of the variables stored so far: "B" has F=0, a data
                variable; "C" has F=2, a bitmap or character data          *)
  pending,   (* pending_definitions is not zero: a bitmap is expected      *)
  current,   (* the bitmap being iterated, or NoBitmap                     *)
  last,      (* the last bitmap iterated to its end, or NoBitmap           *)
  live,      (* the ids of the Bitmap objects that are allocated           *)
  defined,   (* number of Bitmap objects constructed so far, the next id   *)
  served,    (* history: positions next() has returned since the current
                bitmap became active                                       *)
  status     (* "run"; "error" once an exception was thrown; "undefined"
                once an exhausted iterator was dereferenced                *)

vars == <<subset, pending, current, last, live, defined, served, status>>

----------------------------------------------------------------------------

(* Mutant: variables that are not data are counted too. *)
NewBitmapAllKinds(sub, anchor, bits) ==
  LET refs == {p \in 1..anchor : /\ anchor + 1 - p <= Len(bits)
                                 /\ bits[Len(bits) - anchor + p]}
  IN [id |-> defined, bits |-> bits, anchor |-> anchor,
      refs |-> refs, left |-> refs]

NewBitmap(sub, anchor, bits) ==
  LET refs == RefsOf(sub, anchor, bits)
  IN [id |-> defined, bits |-> bits, anchor |-> anchor,
      refs |-> refs, left |-> refs]

(* The object a pointer points to, for delete: deleting null does nothing. *)
Pointee(b) == IF b = NoBitmap THEN {} ELSE {b.id}

Running == status = "run"

----------------------------------------------------------------------------
Init ==
  /\ subset = <<>>
  /\ pending = FALSE
  /\ current = NoBitmap
  /\ last = NoBitmap
  /\ live = {}
  /\ defined = 0
  /\ served = {}
  /\ status = "run"

(* A variable is stored: a data variable, or one with F=2 that is not a
   bitmap (the characters of a C05 operator). *)
Store(kind) ==
  /\ Running
  /\ Len(subset) < MaxVars
  /\ subset' = Append(subset, kind)
  /\ UNCHANGED <<pending, current, last, live, defined, served, status>>

(* C22000 and C23000: the next replication is a bitmap. *)
ExpectBitmap ==
  /\ Running
  /\ pending' = TRUE
  /\ UNCHANGED <<subset, current, last, live, defined, served, status>>

(* r_bitmap and Bitmaps::define: the bitmap is stored in the subset, the
   current one is deleted and the new one takes its place. *)
Define(bits) ==
  /\ Running
  /\ pending
  /\ Len(subset) < MaxVars
  /\ subset' = Append(subset, "C")
  /\ Constructible(subset', Len(subset'), bits)
  /\ current' = NewBitmap(subset', Len(subset'), bits)
  /\ live' = (live \ Pointee(current)) \cup {defined}
  /\ defined' = defined + 1
  /\ pending' = FALSE
  /\ served' = {}
  /\ UNCHANGED <<last, status>>

(* The constructor throws after the current bitmap was deleted: the pointer
   keeps its value. *)
DefineFails(bits) ==
  /\ Running
  /\ pending
  /\ Len(subset) < MaxVars
  /\ subset' = Append(subset, "C")
  /\ ~Constructible(subset', Len(subset'), bits)
  /\ live' = live \ Pointee(current)
  /\ status' = "error"
  /\ UNCHANGED <<pending, current, last, defined, served>>

(* Mutant: positions are served in the order they were collected. *)
NextRefFromTheEnd ==
  /\ Running
  /\ current # NoBitmap
  /\ current.left # {}
  /\ LET pos  == Max(current.left)
         rest == [current EXCEPT !.left = @ \ {pos}]
     IN /\ served' = served \cup {pos}
        /\ IF rest.left = {}
             THEN /\ live' = live \ Pointee(last)
                  /\ last' = rest
                  /\ current' = NoBitmap
             ELSE /\ current' = rest
                  /\ UNCHANGED <<last, live>>
  /\ UNCHANGED <<subset, pending, defined, status>>

(* Mutant: the last bitmap is not deleted before it is replaced. *)
NextRefLeaksLast ==
  /\ Running
  /\ current # NoBitmap
  /\ current.left # {}
  /\ LET pos  == Min(current.left)
         rest == [current EXCEPT !.left = @ \ {pos}]
     IN /\ served' = served \cup {pos}
        /\ IF rest.left = {}
             THEN /\ last' = rest
                  /\ current' = NoBitmap
             ELSE /\ current' = rest
                  /\ UNCHANGED last
  /\ UNCHANGED <<subset, pending, live, defined, status>>

(* Mutant: a bitmap is the last one after its first position. *)
NextRefHandsOverEarly ==
  /\ Running
  /\ current # NoBitmap
  /\ current.left # {}
  /\ LET pos  == Min(current.left)
         rest == [current EXCEPT !.left = @ \ {pos}]
     IN /\ served' = served \cup {pos}
        /\ live' = live \ Pointee(last)
        /\ last' = rest
        /\ current' = NoBitmap
  /\ UNCHANGED <<subset, pending, defined, status>>

(* Bitmaps::next, for a class 33 element or a C23255, when the bitmap has
   more to say: a bitmap that reaches its end becomes the last one. *)
NextRef ==
  /\ Running
  /\ current # NoBitmap
  /\ current.left # {}
  /\ LET pos  == Min(current.left)
         rest == [current EXCEPT !.left = @ \ {pos}]
     IN /\ served' = served \cup {pos}
        /\ IF rest.left = {}
             THEN /\ live' = live \ Pointee(last)
                  /\ last' = rest
                  /\ current' = NoBitmap
             ELSE /\ current' = rest
                  /\ UNCHANGED <<last, live>>
  /\ UNCHANGED <<subset, pending, defined, status>>

(* Bitmaps::next on a bitmap without data present: its iterator is already at
   the end, and dereferencing it has no defined outcome. *)
NextPastEnd ==
  /\ Running
  /\ current # NoBitmap
  /\ current.left = {}
  /\ status' = "undefined"
  /\ UNCHANGED <<subset, pending, current, last, live, defined, served>>

(* C23255 while no bitmap is active. *)
NextFails ==
  /\ Running
  /\ current = NoBitmap
  /\ status' = "error"
  /\ UNCHANGED <<subset, pending, current, last, live, defined, served>>

(* Mutant: the iterator is not started again. *)
ReuseLastKeepsIterator ==
  /\ Running
  /\ live' = live \ Pointee(current)
  /\ current' = last
  /\ last' = NoBitmap
  /\ served' = {}
  /\ pending' = FALSE
  /\ UNCHANGED <<subset, defined, status>>

(* C37000, Bitmaps::reuse_last: the last bitmap becomes the current one and
   starts again, and a pending definition is cancelled. *)
ReuseLast ==
  /\ Running
  /\ live' = live \ Pointee(current)
  /\ current' = IF last = NoBitmap THEN last
                ELSE [last EXCEPT !.left = last.refs]
  /\ last' = NoBitmap
  /\ served' = {}
  /\ pending' = FALSE
  /\ UNCHANGED <<subset, defined, status>>

(* C37255, Bitmaps::discard_last. *)
DiscardLast ==
  /\ Running
  /\ live' = live \ Pointee(last)
  /\ last' = NoBitmap
  /\ UNCHANGED <<subset, pending, current, defined, served, status>>

BitStrings == UNION {[1..n -> BOOLEAN] : n \in 0..MaxBits}

Next ==
  \/ \E kind \in Kinds : Store(kind)
  \/ ExpectBitmap
  \/ \E bits \in BitStrings : Define(bits) \/ DefineFails(bits)
  \/ NextRef
  \/ NextPastEnd
  \/ NextFails
  \/ ReuseLast
  \/ DiscardLast

Spec == Init /\ [][Next]_vars

----------------------------------------------------------------------------
Pointers == {current, last} \ {NoBitmap}

(* Every variable has its type. *)
TypeOK ==
  /\ subset \in Seq(Kinds)
  /\ pending \in BOOLEAN
  /\ current \in Bitmap \cup {NoBitmap}
  /\ last \in Bitmap \cup {NoBitmap}
  /\ live \in SUBSET Nat
  /\ defined \in Nat
  /\ served \in SUBSET Positions
  /\ status \in {"run", "error", "undefined"}

(* However the subset grows, and however often a bitmap is used again, the
   positions it holds are those of the data variables before its own anchor
   that its bits declare present: a class 33 value never lands on a bitmap,
   on character data, or on a variable stored after the bitmap. *)
Aligned ==
  \A b \in Pointers :
    /\ b.anchor <= Len(subset)
    /\ b.refs = RefsOf(subset, b.anchor, b.bits)

(* While a bitmap is active, what next() returned and what it has still to
   return are together the positions declared present, each once and in
   the order of the subset. *)
InOrder ==
  current # NoBitmap =>
    /\ served \cap current.left = {}
    /\ served \cup current.left = current.refs
    /\ \A p \in served, q \in current.left : p < q

(* Bitmaps owns its objects: current and last are different objects, both
   allocated, and no other object is: none leaks and none is deleted twice.
   This is about the code that runs: when its constructor throws, Bitmaps::define
   leaves in current a pointer to the object it has just deleted. *)
Ownership ==
  status # "error" =>
    /\ live = {b.id : b \in Pointers}
    /\ current # NoBitmap /\ last # NoBitmap => current.id # last.id

(* A bitmap can be used again only after it was used to its end: every
   position it declares present has had its value. *)
LastIsComplete == last # NoBitmap => last.left = {}

(* A bitmap that is iterated to its end is handed over whole: at that step
   the positions served are exactly the positions it declares present. *)
HandedOverWhole ==
  [][current # NoBitmap /\ last' # last /\ last' # NoBitmap
       => last'.id = current.id /\ served' = current.refs]_vars

============================================================================
