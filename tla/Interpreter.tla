---------------------------- MODULE Interpreter ----------------------------
(***************************************************************************)
(* The state and the bookkeeping of bulletin/interpreter.cc: the sequences *)
(* of descriptors under way and the C modifiers in force.  What is done    *)
(* with each field is up to the subclass, see Transcode.tla.               *)
(***************************************************************************)
EXTENDS Fields

CONSTANTS
  BTable,   (* descriptors with F=0 to their Varinfo, as in Vartable        *)
  DTable    (* descriptors with F=3 to sequences of descriptors             *)

VARIABLES
  stack,    (* what run() has under way, innermost last: a frame has the
               descriptors still to visit, all those of its sequence, and how
               often the sequence is repeated after this time              *)
  mods,     (* the C modifiers in force                                    *)
  refvals,  (* c03_refval_overrides: descriptors to reference values       *)
  field     (* associated_field: bit_count, significance, skip_missing     *)

Frame == [ops : Seq(Code), body : Seq(Code), left : Nat]

NewFrame(ops, times) == [ops |-> ops, body |-> ops, left |-> times - 1]

NoModifiers == [scale |-> 0, width |-> 0, increase |-> 0, string_len |-> 0,
                refval_bits |-> 0]

(* The interpreter as its constructor leaves it. *)
Fresh(datadesc, skip_missing) ==
  [stack   |-> <<NewFrame(datadesc, 1)>>,
   mods    |-> NoModifiers,
   refvals |-> [c \in {} |-> 0],
   field   |-> [bit_count |-> 0, significance |-> 63,
                skip_missing |-> skip_missing]]

----------------------------------------------------------------------------
Top == stack[Len(stack)]

(* The descriptor that run() takes next, and those after it. *)
Cur == Head(Top.ops)
Rest == Tail(Top.ops)

AtDescriptor == stack # <<>> /\ Top.ops # <<>>
AtFrameEnd == stack # <<>> /\ Top.ops = <<>>

(* run() goes on with ops in the innermost sequence. *)
Continue(ops) == [stack EXCEPT ![Len(stack)].ops = ops]

(* Mutant: the last pop of a sequence is forgotten. *)
AfterFrameUnpopped ==
  IF Top.left > 0
    THEN [stack EXCEPT ![Len(stack)] =
            [@ EXCEPT !.ops = Top.body, !.left = @ - 1]]
    ELSE stack

(* A sequence is over: it is run again, or the one around it goes on. *)
AfterFrame ==
  IF Top.left > 0
    THEN [stack EXCEPT ![Len(stack)] =
            [@ EXCEPT !.ops = Top.body, !.left = @ - 1]]
    ELSE SubSeq(stack, 1, Len(stack) - 1)

----------------------------------------------------------------------------
(* C01 and C02: Y is an excess-128 number, and 0 cancels. *)
Change(y) == IF y = 0 THEN 0 ELSE y - 128

(* c_modifier for the operators that only set a modifier. *)
SetModifier(x, y) ==
  CASE x = 1 -> [mods EXCEPT !.width = Change(y)]
    [] x = 2 -> [mods EXCEPT !.scale = Change(y)]
    [] x = 3 -> [mods EXCEPT !.refval_bits = IF y = 255 THEN 0 ELSE y]
    [] x = 7 -> [mods EXCEPT !.increase = y]
    [] x = 8 -> [mods EXCEPT !.string_len = y]

(* get_varinfo: the Table B entry with the modifiers in force. *)
GetVarinfo(code) ==
  LET peek  == BTable[code]
      width == CASE peek.type = "String" /\ mods.string_len # 0 ->
                      mods.string_len * 8
                 [] OTHER -> peek.bit_len + mods.width
      ref   == peek.bit_ref * 10^mods.increase
  IN [peek EXCEPT
        !.scale   = @ + mods.scale + mods.increase,
        !.bit_len = width + (10 * mods.increase + 2) \div 3,
        !.bit_ref = IF code \in DOMAIN refvals THEN refvals[code] ELSE ref]

(* Whether get_varinfo returns: the descriptor is in Table B, and
   query_altered accepts the scale and the width. *)
Resolves(code) ==
  /\ code \in DOMAIN BTable
  /\ LET info == GetVarinfo(code)
     IN /\ info.bit_len > 0
        /\ info.type = "Integer" =>
             info.scale \in -16..16 /\ info.bit_len <= 32

(* The sequence that a replication descriptor repeats, and what follows it:
   a delayed replication takes its factor's descriptor from the sequence if
   there is one, and B31012 otherwise, as CREX does. *)
Delayed(y) == y = 0

HasFactor(ops) == ops # <<>> /\ Head(ops)[1] = 0 /\ Head(ops)[2] = 31

FactorCode(ops) == IF HasFactor(ops) THEN Head(ops) ELSE <<0, 31, 12>>

AfterFactor(y, ops) == IF Delayed(y) /\ HasFactor(ops) THEN Tail(ops) ELSE ops

============================================================================
