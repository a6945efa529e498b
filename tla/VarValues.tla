------------------------------ MODULE VarValues ------------------------------
(***************************************************************************)
(* Variables as their users see them: each has a value of its own, and     *)
(* attributes that are a map from codes to values.  No two share anything. *)
(*                                                                         *)
(* What the users may not expect: an attribute that is copied out of a     *)
(* variable brings those of greater codes along, and a variable that is    *)
(* set to itself loses its attributes.  A copy assignment takes the info   *)
(* of the other, a move assignment keeps its own: between infos that do    *)
(* not go together either may break the memory, and then there is no value *)
(* to be had of any variable.                                              *)
(*                                                                         *)
(* What a call may leave in the variable that is set is a parameter: the   *)
(* outcomes are records [val, raised].                                     *)
(***************************************************************************)
EXTENDS Integers

CONSTANTS
  Unset,                    (* the value of a variable that is not set *)
  Outcomes(_, _, _),        (* what a call may leave in a variable *)
  OutcomesFrom(_, _, _, _), (* and being set from another *)
  IsText(_),                (* the types of what has a buffer *)
  Holds(_, _),              (* whether an info has a value in its domain *)
  Name,       (* the variables *)
  Infos,      (* what they can be, records of Varinfos *)
  Attributes, (* the infos of those that are set as attributes *)
  Calls       (* what they are set to: [by, arg] by info *)

VARIABLES
  vals,   (* what the variables are, those that are there *)
  last,   (* the last call *)
  broken  (* whether it broke the memory *)

vars == <<vals, last, broken>>

None == [k \in {} |-> k]
NoAttrs == None
Put(f, k, v) == [j \in DOMAIN f \cup {k} |-> IF j = k THEN v ELSE f[j]]
Only(f, keys) == [j \in DOMAIN f \cap keys |-> f[j]]

There == DOMAIN vals
Value(info, val, attrs) == [info |-> info, val |-> val, attrs |-> attrs]

(* One without its attributes, as an attribute is kept. *)
Bare(v) == [info |-> v.info, val |-> v.val]

(* Attributes are in the order of their codes. *)
Earlier(c, d) == c[2] < d[2] \/ (c[2] = d[2] /\ c[3] < d[3])

Become(x, v) == vals' = Put(vals, x, v)

----------------------------------------------------------------------------
Construct(x, info) ==
  /\ last' = <<"Construct", x, info>>
  /\ x \notin There
  /\ Become(x, Value(info, Unset, NoAttrs))

(* A constructor that throws makes no variable. *)
ConstructWith(x, info, call) ==
  /\ last' = <<"ConstructWith", x, info, call>>
  /\ x \notin There
  /\ \E r \in Outcomes(info, Unset, call) :
       /\ ~r.raised
       /\ Become(x, Value(info, r.val, NoAttrs))

ConstructFrom(x, info, y) ==
  /\ last' = <<"ConstructFrom", x, info, y>>
  /\ x \notin There
  /\ \E r \in OutcomesFrom(info, Unset, vals[y].info, vals[y].val) :
       /\ ~r.raised
       /\ Become(x, Value(info, r.val, vals[y].attrs))

Copy(x, y) ==
  /\ last' = <<"Copy", x, y>>
  /\ x \notin There
  /\ Become(x, vals[y])

CopyAttr(x, y, code) ==
  /\ last' = <<"CopyAttr", x, y, code>>
  /\ x \notin There
  /\ code \in DOMAIN vals[y].attrs
  /\ LET later == {c \in DOMAIN vals[y].attrs : Earlier(code, c)}
         a == vals[y].attrs[code]
     IN Become(x, Value(a.info, a.val, Only(vals[y].attrs, later)))

Move(x, y) ==
  /\ last' = <<"Move", x, y>>
  /\ x \notin There
  /\ vals' = [Put(vals, x, vals[y]) EXCEPT ![y] = Value(vals[y].info, Unset, NoAttrs)]

SameKind(a, b) == IsText(a.info.type) = IsText(b.info.type)

(* A buffer may be kept that is shorter than what is copied, or lost, or a number
   taken for one. *)
CopyMayBreak(a, b) ==
  ~SameKind(a, b) \/ (IsText(b.info.type) /\ a.info.len < b.info.len)

Assign(x, y) ==
  /\ last' = <<"Assign", x, y>>
  /\ x # y
  /\ \/ broken' = FALSE /\ Become(x, vals[y])
     \/ broken' = TRUE /\ CopyMayBreak(vals[x], vals[y]) /\ vals' = vals

(* A buffer may be taken that is shorter than the info that is kept, or a value
   that is not in its domain. *)
MoveMayBreak(a, b) ==
  /\ b.val # Unset
  /\ \/ ~SameKind(a, b)
     \/ IsText(a.info.type) /\ b.info.len < a.info.len
     \/ ~Holds(a.info, b.val)
     \/ a.info.type = "String" /\ b.info.type = "Binary"

MoveAssign(x, y) ==
  /\ last' = <<"MoveAssign", x, y>>
  /\ x # y
  /\ \/ /\ broken' = FALSE
        /\ vals' = [vals EXCEPT ![x] = Value(vals[x].info, vals[y].val, vals[y].attrs),
                               ![y] = Value(vals[y].info, Unset, NoAttrs)]
     \/ broken' = TRUE /\ MoveMayBreak(vals[x], vals[y]) /\ vals' = vals

Destroy(x) ==
  /\ last' = <<"Destroy", x>>
  /\ vals' = Only(vals, There \ {x})

Set(x, call) ==
  /\ last' = <<"Set", x, call>>
  /\ \E r \in Outcomes(vals[x].info, vals[x].val, call) :
       vals' = [vals EXCEPT ![x].val = r.val]

SetFrom(x, y) ==
  /\ last' = <<"SetFrom", x, y>>
  /\ \E r \in OutcomesFrom(vals[x].info, vals[x].val, vals[y].info, vals[y].val) :
       vals' = [vals EXCEPT ![x].val = r.val]

AttrsFor(x, y) == IF x = y THEN NoAttrs ELSE vals[y].attrs

(* set(const Var&): the attributes follow only if the value was taken. *)
SetAll(x, y) ==
  /\ last' = <<"SetAll", x, y>>
  /\ \E r \in OutcomesFrom(vals[x].info, vals[x].val, vals[y].info, vals[y].val) :
       vals' = [vals EXCEPT ![x].val = r.val,
                            ![x].attrs = IF r.raised THEN @ ELSE AttrsFor(x, y)]

SetAttrs(x, y) ==
  /\ last' = <<"SetAttrs", x, y>>
  /\ vals' = [vals EXCEPT ![x].attrs = AttrsFor(x, y)]

Unsetting(x) ==
  /\ last' = <<"Unsetting", x>>
  /\ vals' = [vals EXCEPT ![x].val = Unset]

ClearAttrs(x) ==
  /\ last' = <<"ClearAttrs", x>>
  /\ vals' = [vals EXCEPT ![x].attrs = NoAttrs]

SetA(x, y) ==
  /\ last' = <<"SetA", x, y>>
  /\ vals[y].info \in Attributes
  /\ vals' = [vals EXCEPT ![x].attrs = Put(@, vals[y].info.code, Bare(vals[y]))]

UnsetA(x, code) ==
  /\ last' = <<"UnsetA", x, code>>
  /\ vals' = [vals EXCEPT ![x].attrs = Only(@, DOMAIN @ \ {code})]

Init == vals = None /\ last = <<>> /\ broken = FALSE

Codes == {info.code : info \in Attributes}

Call ==
  \/ \E x \in Name, info \in Infos :
       \/ Construct(x, info)
       \/ \E call \in Calls[info] : ConstructWith(x, info, call)
       \/ \E y \in There : ConstructFrom(x, info, y)
  \/ \E x \in Name, y \in There : Copy(x, y) \/ Move(x, y)
  \/ \E x \in Name, y \in There, code \in Codes : CopyAttr(x, y, code)
  \/ \E x, y \in There :
       \/ SetAttrs(x, y) \/ SetA(x, y) \/ SetFrom(x, y) \/ SetAll(x, y)
  \/ \E x \in There :
       \/ Destroy(x) \/ Unsetting(x) \/ ClearAttrs(x)
       \/ \E code \in Codes : UnsetA(x, code)
       \/ \E call \in Calls[vals[x].info] : Set(x, call)

Assignment == \E x, y \in There : Assign(x, y) \/ MoveAssign(x, y)

Next == ~broken /\ ((Call /\ UNCHANGED broken) \/ Assignment)

Spec == Init /\ [][Next]_vars
=============================================================================
