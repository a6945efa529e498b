----------------------------- MODULE PyObjects ------------------------------
(***************************************************************************)
(* The Python module (src/python): objects that hold a table, an entry of  *)
(* a table or a variable, and count the references to themselves.          *)
(*                                                                         *)
(* A statement of a Python program is one action: what is made is bound to *)
(* a name, and what the name stood for loses a reference.  Objects that    *)
(* are not of this module, as numbers, strings, True and None, are left    *)
(* out: a name that stands for one of them stands for Other.               *)
(***************************************************************************)
EXTENDS Vartables, VarSetters

CONSTANTS
  PyName,      (* names of the program *)
  MaxObjects,  (* Bound: objects at one time *)
  MaxAttrs,    (* Bound: attributes of a variable *)
  Given,       (* values whose conversion is looked at: [py, is] *)
  PyValues,    (* what the program gives for a variable: [py, is] *)
  LongMax,     (* the largest C long *)
  Other, NullPointer, NotGiven

VARIABLES
  dummy,    (* dummy_var, an entry of no table: NullPointer until import *)
  objs,     (* what is at each address in use *)
  names,    (* what each name stands for *)
  leaked,   (* objects that nobody can reach *)
  crashed   (* a null pointer was followed *)

python == <<dummy, objs, names, leaked, crashed>>
vars == <<library, python>>

Slot == 1..MaxObjects
There == DOMAIN objs

(* There are so many names and addresses, and one that is none of them; a long has
   some bits. *)
ASSUME ObjectsAssumption ==
  /\ IsFiniteSet(PyName) /\ MaxObjects \in Nat /\ LongMax \in Nat
  /\ Other \notin Slot

(* What Python gives is of its type. *)
ASSUME GivenAssumption ==
  \A v \in Given \cup PyValues :
    \/ v.py = "int" /\ v.is \in Int
    \/ v.py = "float" /\ v.is \in Int \cup {NaN}
    \/ v.py \in {"bytes", "str"} /\ v.is \in Seq(Nat)
    \/ v.py = "other"

(* What a column of a file, or an operator, may ask of an entry: the decimals are
   those of doubles, and a reference value is an int. *)
HasPlaces(scale) == 10^(Places - scale) \in Nat \ {0}
Varcode == (0..3) \X (0..63) \X (0..255)

(* Lines and operators say no more than that, nor do fewer digits than those of the
   largest int make a larger number. *)
ASSUME ColumnsAssumption ==
  /\ \A file \in Contents \ {NoFile} : \A i \in 1..Len(file) :
       LET line == file[i]
       IN /\ line.code \in Varcode
          /\ line.bit_len \in Nat /\ line.bit_ref \in IntMin..IntMax /\ HasPlaces(line.scale)
          /\ line.crex_len \in Nat /\ HasPlaces(line.crex_scale)
  /\ \A a \in Alterations :
       a.bit_len \in Nat /\ a.bit_ref \in IntMin..IntMax /\ HasPlaces(a.scale)
  /\ \A digits \in 0..(CountDigits(IntMax) - 1) : 10^digits - 1 \in 0..IntMax

Bound == {n \in PyName : names[n] # Other}
Of(type) == {n \in Bound : objs[names[n]].type = type}
Here(n) == objs[names[n]]

NoOptions == [silent |-> FALSE, clamp |-> FALSE, hook |-> FALSE]

----------------------------------------------------------------------------
(* Variables, as Var makes them: the value and the attributes by their codes. *)

NoAttrs == <<>>
Variable(p, val, attrs) == [info |-> p, val |-> val, attrs |-> attrs]
InfoAt(p) == memory[p].info
CodeAt(p) == InfoAt(p).code

Put(f, k, v) == [j \in DOMAIN f \cup {k} |-> IF j = k THEN v ELSE f[j]]
Only(f, keys) == [j \in DOMAIN f \cap keys |-> f[j]]
Bare(v) == [info |-> v.info, val |-> v.val]

(* Copying an attribute copies those of greater codes with it. *)
CopyOfAttr(v, code) ==
  LET later == {c \in DOMAIN v.attrs : Rank(c) > Rank(code)}
  IN Variable(v.attrs[code].info, v.attrs[code].val, Only(v.attrs, later))

(* Mutant: get_attrs copies the attribute, as enqa does. *)
ListedCopying(v, code) == CopyOfAttr(v, code)

(* get_attrs makes a variable and sets its value, which leaves the others out. *)
ListedAttr(v, code) ==
  LET a == v.attrs[code]
  IN Variable(a.info,
              (CHOOSE r \in SetVal(InfoAt(a.info), Unset, InfoAt(a.info), a.val, NoOptions) :
                 TRUE).val, NoAttrs)

(* The i-th of a set of codes. *)
Nth(codes, i) ==
  CHOOSE c \in codes : Cardinality({d \in codes : Rank(d) < Rank(c)}) = i - 1

----------------------------------------------------------------------------
(* Values *)

Raise(r) == [r EXCEPT !.raised = TRUE]
OrThrow(results, old) == IF results = {} THEN {Error(old)} ELSE results

(* Mutant: integers are measures, as floats are. *)
ValueFromPythonMeasured(info, old, v) ==
  OrThrow(CASE v.py = "int" -> SetD(info, old, v.is * 10^Places, NoOptions)
            [] v.py = "float" -> SetD(info, old, v.is, NoOptions)
            [] v.py = "bytes" -> SetC(info, old, UpToNul(v.is), NoOptions)
            [] v.py = "str" -> SetS(info, old, v.is, NoOptions)
            [] v.py = "other" -> {}, old)

(* var_value_from_python: an int becomes a C long and then a C int.  One that is
   too large for a long is -1 with an error that nobody looks at until the call
   is over. *)
ValueFromPython(info, old, v) ==
  OrThrow(CASE v.py = "int" /\ Abs(v.is) <= LongMax ->
                 SetI(info, old, Signed(v.is), NoOptions)
            [] v.py = "int" /\ Abs(v.is) > LongMax ->
                 {Raise(r) : r \in SetI(info, old, -1, NoOptions)}
            [] v.py = "float" -> SetD(info, old, v.is, NoOptions)
            [] v.py = "bytes" -> SetC(info, old, UpToNul(v.is), NoOptions)
            [] v.py = "str" -> SetS(info, old, v.is, NoOptions)
            [] v.py = "other" -> {}, old)

(* var_value_to_python *)
ValueToPython(info, val) ==
  CASE info.type = "String" -> [py |-> "str", is |-> val]
    [] info.type = "Binary" -> [py |-> "bytes", is |-> UpToNul(val)]
    [] info.type = "Integer" -> [py |-> "int", is |-> val]
    [] info.type = "Decimal" -> [py |-> "float", is |-> Measure(info, val)]

----------------------------------------------------------------------------
(* References.  w is [objs, names, leaked, crashed]. *)

World == [objs |-> objs, names |-> names, leaked |-> leaked, crashed |-> crashed]
Becomes(w) ==
  /\ dummy' = dummy
  /\ objs' = w.objs /\ names' = w.names /\ leaked' = w.leaked /\ crashed' = w.crashed

FreeSlots(w) == Slot \ DOMAIN w.objs
FirstFree(w) == CHOOSE s \in FreeSlots(w) : \A r \in FreeSlots(w) : s <= r

Alloc(w, type, holds) ==
  [w EXCEPT !.objs = Put(@, FirstFree(w), [type |-> type, rc |-> 1, holds |-> holds])]

Incref(w, s) == [w EXCEPT !.objs[s].rc = @ + 1]

(* _dealloc: the destructor of a variable reads its info first. *)
Dealloc(w, s) ==
  [w EXCEPT !.objs = Only(@, DOMAIN @ \ {s}),
            !.crashed = @ \/ (w.objs[s].type = "Var" /\ w.objs[s].holds = NullPointer)]

DecrefOne(w, s) ==
  IF w.objs[s].rc > 1 THEN [w EXCEPT !.objs[s].rc = @ - 1] ELSE Dealloc(w, s)

(* What a list held loses a reference each. *)
DropAll(w, items) ==
  LET drop[i \in 0..Len(items)] ==
        IF i = 0 THEN w ELSE DecrefOne(drop[i - 1], items[i])
  IN drop[Len(items)]

(* A list drops what it holds: variables only. *)
Decref(w, s) ==
  IF w.objs[s].type = "list" /\ w.objs[s].rc = 1
    THEN DropAll(DecrefOne(w, s), w.objs[s].holds)
    ELSE DecrefOne(w, s)

(* name = ..., with the reference that was made for it. *)
Bind(w, n, s) ==
  LET bound == [w EXCEPT !.names[n] = s]
  IN IF w.names[n] = Other THEN bound ELSE Decref(bound, w.names[n])

BindNew(w, n, type, holds) == Bind(Alloc(w, type, holds), n, FirstFree(w))

----------------------------------------------------------------------------
(* Tables and their entries *)

(* Vartable.load_bufr and load_crex, get_bufr and get_crex. *)
LoadTable(n, t) ==
  /\ HaveTable(t)
  /\ Becomes(BindNew(World, n, "Vartable", t))

GetTable(n, format, name) ==
  /\ Get(format, name)
  /\ Becomes(BindNew(World, n, "Vartable", <<format, Named[name]>>))

(* table[code] *)
Subscript(n, m, code) ==
  /\ m \in Of("Vartable")
  /\ LET t == Here(m).holds
     IN IF t = NullPointer THEN Becomes([World EXCEPT !.crashed = TRUE])
        ELSE /\ ContainsCode(t, code)
             /\ Becomes(BindNew(World, n, "Varinfo", Query(t, code)))
  /\ UNCHANGED library

(* Vartable() and Varinfo() throw and leave nothing. *)
MakeBare(n, type) ==
  /\ type \in {"Vartable", "Varinfo", "Var"}
  /\ Becomes(BindNew(World, n, type, NullPointer))
  /\ UNCHANGED library

(* var.info *)
GetInfo(n, m) ==
  /\ m \in Of("Var")
  /\ Becomes(IF Here(m).holds = NullPointer THEN [World EXCEPT !.crashed = TRUE]
             ELSE BindNew(World, n, "Varinfo", Here(m).holds.info))
  /\ UNCHANGED library

----------------------------------------------------------------------------
(* Var(...): the object is made full of zeros, and then _init constructs it. *)

Construct(w, s, v) == [w EXCEPT !.objs[s].holds = v]

(* What _init does with the object at s: the outcomes, and whether it throws.  The
   value is not looked at when the first argument is a variable. *)
FromInfo(w, s, p, value) ==
  {[w |-> Construct(w, s, Variable(p, r.val, NoAttrs)), raised |-> r.raised] :
     r \in IF value = NotGiven THEN {Result(Unset)}
           ELSE ValueFromPython(InfoAt(p), Unset, value)}

FromVar(w, s, v) == {[w |-> Construct(w, s, v), raised |-> FALSE]}

(* A first argument of another kind makes a variable of no use. *)
FromOther(w, s) ==
  {[w |-> Construct(w, s, Variable(dummy, Unset, NoAttrs)), raised |-> TRUE]}

Initialised(w, s, from, value) ==
  CASE from.type \in {"Varinfo", "Var"} /\ from.holds = NullPointer ->
         {[w |-> [w EXCEPT !.crashed = TRUE], raised |-> FALSE]}
    [] from.type = "Varinfo" /\ from.holds # NullPointer -> FromInfo(w, s, from.holds, value)
    [] from.type = "Var" /\ from.holds # NullPointer -> FromVar(w, s, from.holds)
    [] from.type \in {"Vartable", "list"} -> FromOther(w, s)

(* name = Var(m, value): an object that _init refuses loses its only reference. *)
NewVar(n, m, value) ==
  /\ m \in Bound
  /\ LET w == Alloc(World, "Var", NullPointer)
         s == FirstFree(World)
     IN \E r \in Initialised(w, s, Here(m), value) :
          Becomes(IF r.w.crashed THEN r.w
                  ELSE IF r.raised THEN Decref(r.w, s) ELSE Bind(r.w, n, s))
  /\ UNCHANGED library

(* Var() and all that PyArg_ParseTupleAndKeywords refuses: nothing is constructed,
   and the object is deallocated all the same. *)
NewVarOfNothing ==
  /\ Becomes(Decref(Alloc(World, "Var", NullPointer), FirstFree(World)))
  /\ UNCHANGED library

(* var.__init__(m, value) constructs a variable over the one that is there,
   whose memory is lost.  One is not made from itself: that reads what it writes. *)
InitAgain(k, m, value) ==
  /\ k \in Of("Var") /\ m \in Bound /\ names[k] # names[m]
  /\ \E r \in Initialised(World, names[k], Here(m), value) : Becomes(r.w)
  /\ UNCHANGED library

(* The functions that other extensions call: when a constructor throws, the
   exception goes through them and the object is lost. *)
CreateFromC(n, p, value) ==
  /\ p \in Pointer
  /\ \E r \in ValueFromPython(InfoAt(p), Unset, value) :
       LET made == Alloc(World, "Var", Variable(p, r.val, NoAttrs))
       IN Becomes(IF r.raised THEN [made EXCEPT !.leaked = @ \cup {FirstFree(World)}]
                  ELSE Bind(made, n, FirstFree(World)))
  /\ UNCHANGED library

----------------------------------------------------------------------------
(* Methods of Var.  Those that only read, or make a number or a string, follow the
   same null pointer when the variable is not constructed. *)

Usable(m) == m \in Of("Var") /\ Here(m).holds # NullPointer

Read(m) ==
  /\ m \in Of("Var") /\ Here(m).holds = NullPointer
  /\ Becomes([World EXCEPT !.crashed = TRUE])
  /\ UNCHANGED library

Enqa(n, m, code) ==
  /\ Usable(m)
  /\ Becomes(IF code \in DOMAIN Here(m).holds.attrs
               THEN BindNew(World, n, "Var", CopyOfAttr(Here(m).holds, code))
               ELSE Bind(World, n, Other))
  /\ UNCHANGED library

Seta(m, k) ==
  /\ Usable(m) /\ Usable(k)
  /\ LET code == CodeAt(Here(k).holds.info)
     IN /\ Cardinality(DOMAIN Here(m).holds.attrs \cup {code}) <= MaxAttrs
        /\ Becomes([World EXCEPT !.objs[names[m]].holds.attrs =
                      Put(@, code, Bare(Here(k).holds))])
  /\ UNCHANGED library

Unseta(m, code) ==
  /\ Usable(m)
  /\ Becomes([World EXCEPT !.objs[names[m]].holds.attrs = Only(@, DOMAIN @ \ {code})])
  /\ UNCHANGED library

(* Mutant: the reference that the list has not taken is kept too. *)
AppendKeeping(w, list, v) ==
  LET s == FirstFree(w)
  IN [Incref(Alloc(w, "Var", v), s) EXCEPT !.objs[list].holds = Append(@, s)]

(* PyList_Append takes a reference of its own, and the one that was made goes with
   the pointer that held it. *)
AppendTo(w, list, v) ==
  LET s == FirstFree(w)
  IN DecrefOne([Incref(Alloc(w, "Var", v), s) EXCEPT !.objs[list].holds = Append(@, s)], s)

(* A variable with the value of each attribute, in the order of their codes. *)
AppendAll(w, list, v) ==
  LET codes == DOMAIN v.attrs
      made[i \in 0..Cardinality(codes)] ==
        IF i = 0 THEN w
        ELSE AppendTo(made[i - 1], list, ListedAttr(v, Nth(codes, i)))
  IN made[Cardinality(codes)]

GetAttrs(n, m) ==
  /\ Usable(m)
  /\ LET v == Here(m).holds
         list == FirstFree(World)
     IN /\ Cardinality(FreeSlots(World)) > Cardinality(DOMAIN v.attrs)
        /\ Becomes(Bind(AppendAll(Alloc(World, "list", <<>>), list, v), n, list))
  /\ UNCHANGED library

(* var.get(default): the default gets a reference when it is returned. *)
GetOr(n, m, k) ==
  /\ m \in Of("Var") /\ k \in Bound
  /\ Becomes(IF Here(m).holds # NullPointer /\ Here(m).holds.val # Unset
               THEN Bind(World, n, Other)
               ELSE Bind(Incref(World, names[k]), n, names[k]))
  /\ UNCHANGED library

----------------------------------------------------------------------------
(* What Python does by itself *)

Name(n, m) ==
  /\ m \in Bound
  /\ Becomes(Bind(Incref(World, names[m]), n, names[m]))
  /\ UNCHANGED library

Item(n, m, i) ==
  /\ m \in Of("list") /\ i \in DOMAIN Here(m).holds
  /\ LET s == Here(m).holds[i] IN Becomes(Bind(Incref(World, s), n, s))
  /\ UNCHANGED library

Del(n) ==
  /\ n \in Bound
  /\ Becomes(Bind(World, n, Other))
  /\ UNCHANGED library

----------------------------------------------------------------------------
(* PyInit__wreport makes the entry of variables of no use. *)
Import ==
  /\ dummy = NullPointer /\ Len(memory) < MaxEntries
  /\ \E info \in SetBufr(<<0, 0, 0>>, "?", 1, 0, 0) : memory' = Append(memory, Entry(info, 0))
  /\ dummy' = Len(memory')
  /\ UNCHANGED <<disk, tables, dtables, objs, names, leaked, crashed>>

Init ==
  /\ InitLibrary
  /\ dummy = NullPointer
  /\ objs = <<>>
  /\ names = [n \in PyName |-> Other]
  /\ leaked = {}
  /\ crashed = FALSE

Codes == {InfoAt(p).code : p \in Pointer}

Making(n) ==
  \/ \E t \in BTable : LoadTable(n, t)
  \/ \E format \in Format, name \in Wanted : GetTable(n, format, name)
  \/ \E m \in PyName, code \in Codes : Subscript(n, m, code) \/ Enqa(n, m, code)
  \/ \E m \in PyName : GetInfo(n, m) \/ GetAttrs(n, m)
  \/ \E type \in {"Vartable", "Varinfo", "Var"} : MakeBare(n, type)
  \/ \E m \in PyName, value \in PyValues \cup {NotGiven} : NewVar(n, m, value)
  \/ \E p \in Pointer, value \in PyValues : CreateFromC(n, p, value)

Using(n) ==
  \/ \E m \in PyName : Name(n, m)
  \/ \E m, k \in PyName : GetOr(n, m, k)
  \/ \E m \in PyName, i \in 1..MaxAttrs : Item(n, m, i)
  \/ \E m \in PyName, value \in PyValues \cup {NotGiven} : InitAgain(n, m, value)
  \/ \E m \in PyName : Seta(n, m)
  \/ \E code \in Codes : Unseta(n, code)
  \/ Read(n) \/ Del(n)

Next ==
  \/ NextLibrary /\ UNCHANGED python
  \/ Import
  \/ /\ dummy # NullPointer /\ ~crashed
     /\ \/ FreeSlots(World) # {} /\ ((\E n \in PyName : Making(n)) \/ NewVarOfNothing)
        \/ \E n \in PyName : Using(n)

Spec == Init /\ [][Next]_vars

----------------------------------------------------------------------------

(* Who refers to an object: the names of the program, and the lists. *)
Lists == {l \in There : objs[l].type = "list"}
Held == UNION {{<<l, i>> : i \in DOMAIN objs[l].holds} : l \in Lists}

Referring(s) ==
  Cardinality({n \in PyName : names[n] = s})
    + Cardinality({p \in Held : objs[p[1]].holds[p[2]] = s})

(* An object counts those who refer to it, whatever was bound, returned, put in a
   list or refused by a constructor: none is freed under somebody, and none stays
   for nobody but those that a C function lost. *)
Balanced ==
  ~crashed => \A s \in Slot : IF s \in There \ leaked
                                THEN objs[s].rc = Referring(s) /\ objs[s].rc > 0
                                ELSE Referring(s) = 0

(* What a program gives to a variable comes back from it, or is refused: ints up
   to those of C, which for a decimal are its digits as they are stored, floats up
   to half of the last digit, strings up to the length of the info when they have no
   NUL. *)
ValuesComeBack ==
  \A p \in Pointer, v \in Given :
    \A r \in ValueFromPython(InfoAt(p), Unset, v) :
      LET info == InfoAt(p)
          back == ValueToPython(info, r.val)
      IN ~r.raised /\ r.val # Unset =>
           /\ v.py = "int" /\ v.is \in IntMin..IntMax => r.val = v.is
           /\ v.py = "float" /\ back.py = "float" => 2 * Abs(back.is - v.is) <= Step(info)
           /\ v.py = "str" /\ back.py = "str" /\ 0 \notin Range(v.is)
                => back.is = Cut(v.is, info.len)

(* get_attrs makes a new list, of one variable for each attribute in the order of
   their codes: its value, and no attribute of its own. *)
NewList(n) ==
  names'[n] # Other /\ objs'[names'[n]].type = "list" /\ names'[n] \notin There

ListsAttributes ==
  \A n, m \in PyName :
    ~crashed /\ NewList(n) /\ GetAttrs(n, m) =>
      LET attrs == Here(m).holds.attrs
          list == objs'[names'[n]].holds
      IN [i \in DOMAIN list |-> objs'[list[i]].holds]
           = [i \in 1..Cardinality(DOMAIN attrs) |->
                LET a == attrs[Nth(DOMAIN attrs, i)] IN Variable(a.info, a.val, NoAttrs)]

AttributesAreListed == [][ListsAttributes]_vars
=============================================================================
