----------------------------- MODULE BitmapWalk -----------------------------
(***************************************************************************)
(* The loop of Bitmap's constructor, bulletin/bitmaps.cc, step by step: it *)
(* walks back from the anchor, pairing the bits of the bitmap, last one    *)
(* first, with the data variables it meets.  The outcome is the one that   *)
(* Bitmaps.tla takes for granted, BitmapRefs.tla's definitions.                *)
(*                                                                         *)
(* s_cur and b_cur are the code's, and count from 0: position p of the     *)
(* subset is sub[p + 1] here.  refs holds positions counted from 1.        *)
(***************************************************************************)
EXTENDS BitmapRefs

CONSTANTS
  MaxVars,   (* Bound: variables in the subset.                            *)
  MaxBits    (* Bound: length of the bitmap.                               *)

ASSUME WalkBoundsAssumption == MaxVars \in Nat /\ MaxBits \in Nat

VARIABLES
  sub,     (* kinds of the variables of the subset, as in Bitmaps          *)
  anchor,  (* the anchor argument                                          *)
  bits,    (* the bitmap: TRUE for '+'                                     *)
  b_cur, s_cur,
  refs,    (* Bitmap::refs, in the order of push_back                      *)
  pc       (* "enter", "back", "skip", "pair", "done" or "error"           *)

vars == <<sub, anchor, bits, b_cur, s_cur, refs, pc>>
input == <<sub, anchor, bits>>

SeqsUpTo(S, n) == UNION {[1..k -> S] : k \in 0..n}

----------------------------------------------------------------------------
Init ==
  /\ sub \in SeqsUpTo({"B", "C"}, MaxVars)
  /\ bits \in SeqsUpTo(BOOLEAN, MaxBits)
  /\ anchor \in 0..Len(sub)
  /\ b_cur = Len(bits)
  /\ s_cur = anchor
  /\ refs = <<>>
  /\ pc = "enter"

(* The checks before the loop. *)
Enter ==
  /\ pc = "enter"
  /\ pc' = IF b_cur = 0 \/ s_cur = 0 THEN "error" ELSE "back"
  /\ UNCHANGED <<input, b_cur, s_cur, refs>>

(* The head of the loop: both cursors move back. *)
Back ==
  /\ pc = "back"
  /\ b_cur' = b_cur - 1
  /\ s_cur' = s_cur - 1
  /\ pc' = "skip"
  /\ UNCHANGED <<input, refs>>

(* Mutant: one variable that is not data is passed over, no more. *)
SkipOnce ==
  /\ pc = "skip"
  /\ IF sub[s_cur + 1] = "B" \/ s_cur = 0
       THEN pc' = "pair" /\ s_cur' = s_cur
       ELSE pc' = "pair" /\ s_cur' = s_cur - 1
  /\ UNCHANGED <<input, b_cur, refs>>

(* Mutant: the cursor does not move. *)
SkipStays ==
  /\ pc = "skip"
  /\ IF sub[s_cur + 1] = "B"
       THEN pc' = "pair" /\ s_cur' = s_cur
       ELSE IF s_cur = 0
         THEN pc' = "error" /\ s_cur' = s_cur
         ELSE pc' = "skip" /\ s_cur' = s_cur
  /\ UNCHANGED <<input, b_cur, refs>>

(* The inner loop: variables whose F is not 0 are passed over. *)
Skip ==
  /\ pc = "skip"
  /\ IF sub[s_cur + 1] = "B"
       THEN pc' = "pair" /\ s_cur' = s_cur
       ELSE IF s_cur = 0
         THEN pc' = "error" /\ s_cur' = s_cur
         ELSE pc' = "skip" /\ s_cur' = s_cur - 1
  /\ UNCHANGED <<input, b_cur, refs>>

(* The rest of the loop: the variable at s_cur belongs to the bit at b_cur. *)
Pair ==
  /\ pc = "pair"
  /\ refs' = IF bits[b_cur + 1] THEN Append(refs, s_cur + 1) ELSE refs
  /\ pc' = IF b_cur = 0 THEN "done" ELSE IF s_cur = 0 THEN "error" ELSE "back"
  /\ UNCHANGED <<input, b_cur, s_cur>>

Next == Enter \/ Back \/ Skip \/ Pair

Spec == Init /\ [][Next]_vars /\ WF_vars(Next)

----------------------------------------------------------------------------
Collected == {refs[i] : i \in DOMAIN refs}

(* Every variable has its type, and the cursors stay inside the subset and
   the bitmap whenever they are used. *)
TypeOK ==
  /\ sub \in Seq({"B", "C"})
  /\ bits \in Seq(BOOLEAN)
  /\ anchor \in 0..Len(sub)
  /\ b_cur \in 0..Len(bits)
  /\ s_cur \in 0..anchor
  /\ refs \in Seq(Nat)
  /\ pc \in {"enter", "back", "skip", "pair", "done", "error"}
  /\ pc = "back" => b_cur > 0 /\ s_cur > 0
  /\ pc \in {"skip", "pair"} => b_cur < Len(bits) /\ s_cur < anchor

(* When the constructor returns, it has collected the positions that the bits
   declare present, and it returns only when there are enough variables. *)
ReturnsRefs ==
  pc = "done" => /\ Collected = RefsOf(sub, anchor, bits)
                 /\ Constructible(sub, anchor, bits)

(* The constructor throws only for an empty bitmap, or one that has more bits
   than there are data variables before it. *)
ThrowsRightly == pc = "error" => ~Constructible(sub, anchor, bits)

(* refs is strictly decreasing, so that the reverse iterator that next() uses
   hands the positions out in the order of the subset, each once. *)
Decreasing ==
  \A i, j \in DOMAIN refs : i < j => refs[i] > refs[j]

(* The walk ends, by a return or by an exception. *)
Ends == <>(pc \in {"done", "error"})

============================================================================
