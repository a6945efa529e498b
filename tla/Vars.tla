-------------------------------- MODULE Vars --------------------------------
(***************************************************************************)
(* Variables as Var makes them (var.cc): objects with a flag, a slot that  *)
(* holds a number or points to a buffer of characters, and a pointer to    *)
(* the first of their attributes, each of which points to the next.        *)
(*                                                                         *)
(* A call of a public function is one action.  What it does to the memory  *)
(* is an operator from memory to memory, mem being [obj, buf]: what is at  *)
(* the addresses that are allocated.  Objects and buffers come from two    *)
(* pools: it makes no difference which one is taken.                       *)
(*                                                                         *)
(* Any variable may be assigned to any other.  A copy assignment takes the *)
(* info of the other and keeps its own buffer, a move assignment keeps its *)
(* info and takes the other's buffer: where the two do not go together the *)
(* memory is broken, and what follows is not modelled.                     *)
(***************************************************************************)
EXTENDS VarSetters

CONSTANTS
  Name, Infos, Attributes, Calls,
  MaxAttr,   (* attributes that there is room for *)
  MaxBuf,    (* buffers that there is room for *)
  Nil,       (* a null pointer *)
  Wild       (* what is read of a union when its other member was written *)

VARIABLES
  mem,    (* the objects and the buffers *)
  seen,   (* what the users see of them: it is computed from mem *)
  last,   (* the last call *)
  broken  (* whether it was an assignment that broke the memory *)

vars == <<mem, seen, last, broken>>

Attr == 1..MaxAttr
Buffer == 1..MaxBuf
Codes == {info.code : info \in Attributes}

(* Attributes are B entries, and numbers have a range and a step. *)
ASSUME InfosAssumption ==
  /\ Attributes \subseteq Infos
  /\ Codes \subseteq {0} \X Nat \X Nat
  /\ \A info \in Infos :
       /\ info.type \in {"String", "Binary", "Integer", "Decimal"}
       /\ info.len \in Nat
       /\ info.imin \in Int /\ info.imax \in Int /\ info.imin <= info.imax
       /\ Step(info) \in Nat \ {0}

ASSUME CallsAssumption ==
  \A info \in Infos : \A call \in Calls[info] :
    \/ call.by = "seti" /\ call.arg \in Int
    \/ call.by = "setd" /\ (call.arg = NaN \/ call.arg \in Int)
    \/ call.by \in {"setc", "setc_truncate", "sets", "setf"} /\ call.arg \in Seq(Nat)

(* Pointers are told apart, and there is room for every attribute and its copy, and
   for a buffer of each object. *)
ASSUME RoomAssumption ==
  /\ Name \cap Attr = {} /\ Nil \notin Name \cup Attr \cup Buffer
  /\ Wild \notin Int \cup Buffer \cup {Nil}
  /\ IsFiniteSet(Name) /\ IsFiniteSet(Codes)
  /\ MaxAttr \in Nat /\ MaxAttr > Cardinality(Name) * Cardinality(Codes)
  /\ MaxBuf \in Nat /\ MaxBuf >= Cardinality(Name) + MaxAttr

----------------------------------------------------------------------------
(* Reading the memory *)

IsThere(m, o) == o \in DOMAIN m.obj
InfoOf(m, o) == m.obj[o].info
CodeOf(m, o) == m.obj[o].info.code

Held(m, o) ==
  CASE ~m.obj[o].isset -> Unset
    [] m.obj[o].isset /\ IsText(InfoOf(m, o).type) -> m.buf[m.obj[o].slot].bytes
    [] OTHER -> m.obj[o].slot

Earlier(c, d) == c[2] < d[2] \/ (c[2] = d[2] /\ c[3] < d[3])

(* The attributes of an object, in the order of the pointers. *)
Chain(m, o) ==
  LET chain[n \in 0..MaxAttr] ==
        IF n = 0 THEN <<>>
        ELSE LET s == chain[n - 1]
                 a == m.obj[IF s = <<>> THEN o ELSE s[Len(s)]].next
             IN IF a # Nil /\ IsThere(m, a) THEN Append(s, a) ELSE s
  IN chain[MaxAttr]

ChainSet(m, o) == LET chain == Chain(m, o) IN {chain[i] : i \in 1..Len(chain)}

(* How many attributes are passed: those before the first that has not a smaller
   code. *)
Passed(m, chain, code) ==
  Cardinality({i \in 1..Len(chain) : \A j \in 1..i : Earlier(CodeOf(m, chain[j]), code)})

(* enqa gives up at the first attribute that has not a smaller code. *)
Enqa(m, o, code) ==
  LET chain == Chain(m, o)
      i == Passed(m, chain, code) + 1
  IN IF i <= Len(chain) /\ CodeOf(m, chain[i]) = code THEN chain[i] ELSE Nil

(* Where seta and unseta stop: the last object that has a smaller code than the
   attribute, or the variable itself. *)
Before(m, o, code) ==
  LET chain == Chain(m, o)
      i == Passed(m, chain, code)
  IN IF i = 0 THEN o ELSE chain[i]

----------------------------------------------------------------------------
(* Changing it *)

Put(f, k, v) == [j \in DOMAIN f \cup {k} |-> IF j = k THEN v ELSE f[j]]
Without(f, keys) == [j \in DOMAIN f \ keys |-> f[j]]

AnyOf(pool) == CHOOSE a \in pool : TRUE
FreeAttrs(m) == Attr \ DOMAIN m.obj
FreeBufs(m) == Buffer \ DOMAIN m.buf

EmptySlot(info) == IF IsText(info.type) THEN Nil ELSE 0
NewVar(info) == [info |-> info, isset |-> FALSE, next |-> Nil, slot |-> EmptySlot(info)]

(* The members of the union: a number that is zero reads as a null pointer. *)
Pointer(m, o) ==
  IF IsText(InfoOf(m, o).type) THEN m.obj[o].slot
  ELSE IF m.obj[o].slot = 0 THEN Nil ELSE Wild
Number(m, o) ==
  IF ~IsText(InfoOf(m, o).type) THEN m.obj[o].slot
  ELSE IF m.obj[o].slot = Nil THEN 0 ELSE Wild

WithObj(m, o, v) == [m EXCEPT !.obj = Put(@, o, v)]
Link(m, o, next) == [m EXCEPT !.obj[o].next = next]

(* A text needs a buffer, which is allocated once. *)
Allocate(m, o) ==
  IF m.obj[o].slot # Nil THEN m
  ELSE LET b == AnyOf(FreeBufs(m))
       IN [m EXCEPT !.obj[o].slot = b,
                    !.buf = Put(@, b, [cap |-> InfoOf(m, o).len, bytes |-> <<>>])]

Fill(m, o, bytes) ==
  [m EXCEPT !.obj[o].isset = TRUE, !.buf[m.obj[o].slot].bytes = bytes]

Clear(m, o) == [m EXCEPT !.obj[o].isset = FALSE]

Store(m, o, val) ==
  CASE val = Unset -> Clear(m, o)
    [] val # Unset /\ IsText(InfoOf(m, o).type) -> Fill(Allocate(m, o), o, val)
    [] OTHER -> [m EXCEPT !.obj[o].isset = TRUE, !.obj[o].slot = val]

(* Deleting objects frees their buffers. *)
Delete(m, objs) ==
  LET bufs == {m.obj[o].slot : o \in {p \in objs : IsText(InfoOf(m, p).type)}}
  IN [obj |-> Without(m.obj, objs), buf |-> Without(m.buf, bufs)]

Clear_attrs(m, o) == Link(Delete(m, ChainSet(m, o)), o, Nil)
Destructed(m, o) == Delete(m, {o} \cup ChainSet(m, o))

Copy_value(m, o, from) == Store(m, o, Held(m, from))

(* Mutant: the info stays what it was. *)
KeepingInfo(m, o, info) == Clear(m, o)

(* Another info: the same bytes are the slot, read as the other kind. *)
Retyped(m, o, info) ==
  [m EXCEPT !.obj[o].info = info,
            !.obj[o].isset = FALSE,
            !.obj[o].slot = IF IsText(info.type) THEN Pointer(m, o) ELSE Number(m, o)]

(* Mutant: the buffer stays with both. *)
MoveSharing(m, o, from) ==
  IF ~m.obj[from].isset THEN Clear(m, o)
  ELSE Clear([m EXCEPT !.obj[o].isset = TRUE, !.obj[o].slot = m.obj[from].slot], from)

(* The buffer goes along, and the one that was there is deleted. *)
Move_value(m, o, from) ==
  CASE ~m.obj[from].isset -> Clear(m, o)
    [] m.obj[from].isset /\ IsText(InfoOf(m, o).type) ->
         [m EXCEPT !.buf = Without(@, {m.obj[o].slot}),
                   !.obj[o].isset = TRUE, !.obj[o].slot = Pointer(m, from),
                   !.obj[from].isset = FALSE, !.obj[from].slot = EmptySlot(InfoOf(m, from))]
    [] OTHER ->
         [m EXCEPT !.obj[o].isset = TRUE, !.obj[o].slot = Number(m, from),
                   !.obj[from].isset = FALSE]

(* new Var(attr), with its own attributes when it is one of a chain. *)
Append_copy(m, end, from) ==
  LET a == AnyOf(FreeAttrs(m))
  IN Copy_value(Link(WithObj(m, a, NewVar(InfoOf(m, from))), end, a), a, from)

Last_of(m, o) == LET chain == Chain(m, o) IN IF chain = <<>> THEN o ELSE chain[Len(chain)]

CopyChain(m, o, from) ==
  LET chain == Chain(m, from)
      copied[n \in 0..Len(chain)] ==
        IF n = 0 THEN m
        ELSE Append_copy(copied[n - 1], Last_of(copied[n - 1], o), chain[n])
  IN copied[Len(chain)]

(* Mutant: attributes are replaced by those of the other, if it has any. *)
SetattrsIfAny(m, o, from) ==
  IF m.obj[from].next = Nil THEN m
  ELSE LET cleared == Clear_attrs(m, o) IN CopyChain(cleared, o, from)

(* The attributes are deleted before those of the other are looked at. *)
Setattrs(m, o, from) ==
  LET cleared == Clear_attrs(m, o) IN CopyChain(cleared, o, from)

(* seta: a copy goes after the attributes of smaller codes, in the place of the
   one that has its code.  The copy's own attributes are deleted at once. *)
Seta(m, o, from) ==
  LET code == CodeOf(m, from)
      before == Before(m, o, code)
      old == Enqa(m, o, code)
      a == AnyOf(FreeAttrs(m))
      made == Copy_value(WithObj(m, a, NewVar(InfoOf(m, from))), a, from)
  IN IF old = Nil
       THEN Link(Link(made, a, m.obj[before].next), before, a)
       ELSE Delete(Link(Link(made, a, m.obj[old].next), before, a), {old})

Unseta(m, o, code) ==
  LET before == Before(m, o, code)
      old == Enqa(m, o, code)
  IN IF old = Nil THEN m ELSE Delete(Link(m, before, m.obj[old].next), {old})

----------------------------------------------------------------------------
(* Calls.  x, y are variables. *)

There == {x \in Name : IsThere(mem, x)}
Made(x, info) == WithObj(mem, x, NewVar(info))

Results(x, call) == Outcomes(InfoOf(mem, x), Held(mem, x), call)
ResultsFrom(x, y) ==
  OutcomesFrom(InfoOf(mem, x), Held(mem, x), InfoOf(mem, y), Held(mem, y))

Construct(x, info) ==
  /\ last' = <<"Construct", x, info>>
  /\ ~IsThere(mem, x)
  /\ mem' = Made(x, info)

ConstructWith(x, info, call) ==
  /\ last' = <<"ConstructWith", x, info, call>>
  /\ ~IsThere(mem, x)
  /\ \E r \in Outcomes(info, Unset, call) :
       /\ ~r.raised
       /\ mem' = Store(Made(x, info), x, r.val)

ConstructFrom(x, info, y) ==
  /\ last' = <<"ConstructFrom", x, info, y>>
  /\ ~IsThere(mem, x)
  /\ \E r \in OutcomesFrom(info, Unset, InfoOf(mem, y), Held(mem, y)) :
       /\ ~r.raised
       /\ mem' = Setattrs(Store(Made(x, info), x, r.val), x, y)

Copy(x, y) ==
  /\ last' = <<"Copy", x, y>>
  /\ ~IsThere(mem, x)
  /\ mem' = Setattrs(Copy_value(Made(x, InfoOf(mem, y)), x, y), x, y)

CopyAttr(x, y, code) ==
  LET a == Enqa(mem, y, code)
  IN /\ last' = <<"CopyAttr", x, y, code>>
     /\ ~IsThere(mem, x)
     /\ a # Nil
     /\ mem' = Setattrs(Copy_value(Made(x, InfoOf(mem, a)), x, a), x, a)

Move(x, y) ==
  /\ last' = <<"Move", x, y>>
  /\ ~IsThere(mem, x)
  /\ LET moved == Move_value(Made(x, InfoOf(mem, y)), x, y)
     IN mem' = Link(Link(moved, x, mem.obj[y].next), y, Nil)

(* A buffer that is there is kept, whatever the new info: it must be long enough
   for it, and there must be none when a number follows. *)
CopyFits(x, y) ==
  IF IsText(InfoOf(mem, y).type)
    THEN LET p == Pointer(mem, x)
         IN p = Nil \/ (p \in DOMAIN mem.buf /\ mem.buf[p].cap >= InfoOf(mem, y).len)
    ELSE ~IsText(InfoOf(mem, x).type) \/ mem.obj[x].slot = Nil

Assign(x, y) ==
  /\ last' = <<"Assign", x, y>>
  /\ x # y
  /\ mem' = Setattrs(Copy_value(Retyped(mem, x, InfoOf(mem, y)), x, y), x, y)
  /\ broken' = ~CopyFits(x, y)

(* A buffer that is taken must be long enough for the info that stays, what is
   taken must be in its domain, and a copied binary has no NUL at its end. *)
MoveFits(x, y) ==
  LET old == InfoOf(mem, x)
      new == InfoOf(mem, y)
  IN mem.obj[y].isset =>
       /\ IsText(old.type) = IsText(new.type)
       /\ Holds(old, Held(mem, y))
       /\ IsText(old.type) => mem.buf[mem.obj[y].slot].cap >= old.len
       /\ ~(old.type = "String" /\ new.type = "Binary")

MoveAssign(x, y) ==
  /\ last' = <<"MoveAssign", x, y>>
  /\ x # y
  /\ LET moved == Clear_attrs(Move_value(mem, x, y), x)
     IN mem' = Link(Link(moved, x, mem.obj[y].next), y, Nil)
  /\ broken' = ~MoveFits(x, y)

Destroy(x) ==
  /\ last' = <<"Destroy", x>>
  /\ mem' = Destructed(mem, x)

Set(x, call) ==
  /\ last' = <<"Set", x, call>>
  /\ \E r \in Results(x, call) : mem' = Store(mem, x, r.val)

SetFrom(x, y) ==
  /\ last' = <<"SetFrom", x, y>>
  /\ \E r \in ResultsFrom(x, y) : mem' = Store(mem, x, r.val)

SetAll(x, y) ==
  /\ last' = <<"SetAll", x, y>>
  /\ \E r \in ResultsFrom(x, y) :
       LET stored == Store(mem, x, r.val)
       IN mem' = IF r.raised THEN stored ELSE Setattrs(stored, x, y)

SetAttrs(x, y) ==
  /\ last' = <<"SetAttrs", x, y>>
  /\ mem' = Setattrs(mem, x, y)

Unsetting(x) ==
  /\ last' = <<"Unsetting", x>>
  /\ mem' = Clear(mem, x)

ClearAttrs(x) ==
  /\ last' = <<"ClearAttrs", x>>
  /\ mem' = Clear_attrs(mem, x)

SetA(x, y) ==
  /\ last' = <<"SetA", x, y>>
  /\ InfoOf(mem, y) \in Attributes /\ mem' = Seta(mem, x, y)

UnsetA(x, code) ==
  /\ last' = <<"UnsetA", x, code>>
  /\ mem' = Unseta(mem, x, code)

(* What the users see: the abstract variables. *)
View(m, o) == [info |-> InfoOf(m, o), val |-> Held(m, o)]

AttrsOf(m, x) ==
  LET found == [c \in Codes |-> Enqa(m, x, c)]
  IN [c \in {d \in Codes : found[d] # Nil} |-> View(m, found[c])]

ViewOf(m) ==
  [x \in {y \in Name : IsThere(m, y)} |->
     [info |-> InfoOf(m, x), val |-> Held(m, x), attrs |-> AttrsOf(m, x)]]

Nothing == [k \in {} |-> k]

Init ==
  /\ mem = [obj |-> Nothing, buf |-> Nothing]
  /\ seen = ViewOf(mem)
  /\ last = <<>>
  /\ broken = FALSE

Call ==
  \/ \E x \in Name, info \in Infos :
       \/ Construct(x, info)
       \/ \E call \in Calls[info] : ConstructWith(x, info, call)
       \/ \E y \in There : ConstructFrom(x, info, y)
  \/ \E x \in Name, y \in There : Copy(x, y) \/ Move(x, y)
  \/ \E x \in Name, y \in There, code \in Codes : CopyAttr(x, y, code)
  \/ \E x, y \in There :
       \/ SetAttrs(x, y) \/ SetA(x, y) \/ SetFrom(x, y) \/ SetAll(x, y)
  \/ \E x \in There :
       \/ Destroy(x) \/ Unsetting(x) \/ ClearAttrs(x)
       \/ \E code \in Codes : UnsetA(x, code)
       \/ \E call \in Calls[InfoOf(mem, x)] : Set(x, call)

Assignment == \E x, y \in There : Assign(x, y) \/ MoveAssign(x, y)

(* When the memory is broken the users see what they saw before. *)
Next ==
  /\ ~broken
  /\ (Call /\ UNCHANGED broken) \/ Assignment
  /\ seen' = IF broken' THEN seen ELSE ViewOf(mem')

Spec == Init /\ [][Next]_vars

----------------------------------------------------------------------------
(* Comparing *)

(* diff of the values of two objects, without their attributes. *)
ValuesDiffer(m, o, p) ==
  \/ CodeOf(m, o) # CodeOf(m, p)
  \/ m.obj[o].isset # m.obj[p].isset
  \/ m.obj[o].isset /\ (InfoOf(m, o).type # InfoOf(m, p).type \/ Held(m, o) # Held(m, p))

(* operator==: the attributes are compared as the objects are. *)
Equal(m, o, p) ==
  LET a == <<o>> \o Chain(m, o)
      b == <<p>> \o Chain(m, p)
  IN Len(a) = Len(b) /\ \A i \in 1..Len(a) : ~ ValuesDiffer(m, a[i], b[i])

(* Mutant: attributes are compared up to the last of the first. *)
DiffOfFirst(m, o, p) ==
  LET a == Chain(m, o)
      b == Chain(m, p)
      differ(i) == i > Len(b) \/ ValuesDiffer(m, a[i], b[i])
  IN IF ValuesDiffer(m, o, p) \/ \E i \in 1..Len(a) : differ(i) THEN 1 ELSE 0

(* diff: the number of attributes that one has more than the other, or one for
   the first difference of another kind.  Attributes of variables that are not
   set are not looked at. *)
Diff(m, o, p) ==
  LET a == Chain(m, o)
      b == Chain(m, p)
  IN IF ValuesDiffer(m, o, p) THEN 1
     ELSE IF ~m.obj[o].isset THEN 0
     ELSE IF Len(a) # Len(b)
       THEN IF a = <<>> \/ b = <<>> THEN 1 ELSE Abs(Len(a) - Len(b))
     ELSE IF \E i \in 1..Len(a) : ValuesDiffer(m, a[i], b[i]) THEN 1 ELSE 0

----------------------------------------------------------------------------
(* Properties *)

Objects == DOMAIN mem.obj
Texts == {o \in Objects : IsText(InfoOf(mem, o).type)}

Abstract == INSTANCE VarValues WITH vals <- seen

(* The last call was an assignment between variables whose infos, as the users
   saw them before it, do not go together: one a text and one a number, or texts
   of different lengths. *)
Misassigned ==
  /\ broken
  /\ \E x, y \in DOMAIN seen :
       \/ last = <<"Assign", x, y>> /\ Abstract!CopyMayBreak(seen[x], seen[y])
       \/ last = <<"MoveAssign", x, y>> /\ Abstract!MoveMayBreak(seen[x], seen[y])

(* Every attribute is in the chain of one variable and nowhere twice, every
   buffer is that of one object, long enough for its info, a text that is set
   has one, and nothing that is allocated is out of reach. *)
Whole ==
  /\ LET sets == [x \in There |-> ChainSet(mem, x)]
     IN \A a \in Attr \cap Objects :
          \E x \in There : a \in sets[x] /\ \A y \in There \ {x} : a \notin sets[y]
  /\ \A x \in There : LET set == ChainSet(mem, x)
                     IN Cardinality(set) = Len(Chain(mem, x)) /\ set \subseteq Objects
  /\ \A b \in DOMAIN mem.buf :
       Cardinality({o \in Texts : mem.obj[o].slot = b}) = 1
  /\ \A o \in Texts :
       IF mem.obj[o].slot = Nil THEN ~mem.obj[o].isset
       ELSE /\ mem.obj[o].slot \in DOMAIN mem.buf
            /\ mem.buf[mem.obj[o].slot].cap >= InfoOf(mem, o).len

(* The memory is whole after any calls: copies share nothing, what is moved has
   one owner, what is replaced is deleted.  Only an assignment between variables
   whose infos do not go together can break it. *)
Owned == Misassigned \/ Whole

InDomains == \A o \in Objects : Holds(InfoOf(mem, o), Held(mem, o))

(* A number that is set is in the domain of its info, and a text fits it,
   whichever function set it under whichever options, hook or conversion, until
   an assignment breaks the memory. *)
InDomain == Misassigned \/ InDomains

(* No assignment is said to break the memory unless it does: a buffer is lost or
   too short, a pointer is not one, a value is not in its domain, or a string has
   the bytes of a binary, which have no NUL after them when they were copied. *)
BrokenIndeed ==
  broken =>
    \/ ~Whole
    \/ ~InDomains
    \/ /\ last[1] = "MoveAssign"
       /\ InfoOf(mem, last[2]).type = "String" /\ InfoOf(mem, last[3]).type = "Binary"

(* operator== tells whether two variables have the same code, value and
   attributes, and diff finds nothing when they have: when diff finds nothing
   between two that are set, they have. *)
Comparable ==
  \/ Misassigned
  \/ \A x, y \in There :
       LET same == /\ CodeOf(mem, x) = CodeOf(mem, y)
                   /\ seen[x].val = seen[y].val /\ seen[x].attrs = seen[y].attrs
       IN /\ Equal(mem, x, y) <=> same
          /\ same => Diff(mem, x, y) = 0
          /\ mem.obj[x].isset /\ Diff(mem, x, y) = 0 => same

(* Call by call, the objects, buffers and pointers behave as variables that have
   values and maps of attributes, each its own: no call on one is seen in another. *)
AsValues == Abstract!Spec
=============================================================================
