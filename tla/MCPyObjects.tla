---------------------------- MODULE MCPyObjects -----------------------------
(* A Python program of two names, over a table of two numbers or of one text. *)
EXTENDS PyObjects

Line(code, unit, bits, ref, scale) ==
  [length |-> 157, code |-> code, unit |-> unit, bit_len |-> bits, bit_ref |-> ref,
   scale |-> scale, crex_unit |-> unit, crex_len |-> 1, crex_scale |-> scale]

Temperature == Line(<<0, 12, 101>>, "K", 4, 0, 1)
Blocks == Line(<<0, 1, 1>>, "NUMERIC", 3, -2, 0)
Station == Line(<<0, 1, 19>>, "CCITTIA5", 16, 0, 0)

MCContents == {<<Blocks, Temperature>>, <<Station>>}
MCDContents == {NoFile}
MCNamed == [n \in {"blocks", "none"} |-> IF n = "blocks" THEN "p" ELSE NoFile]

PyInt(n) == [py |-> "int", is |-> n]
PyFloat(d) == [py |-> "float", is |-> d]
PyStr(text) == [py |-> "str", is |-> text]
PyOther == [py |-> "other", is |-> 0]

MCGiven ==
  {PyInt(n) : n \in {-3, -2, 1, 4, 5, IntMax, IntMax + 1, LongMax + 1}}
    \cup {PyFloat(d) : d \in {-200, 15, 49, 51, 2^WordBits * 100}}
    \cup {PyStr(text) : text \in {<<45, 49>>, <<65, 66>>, <<65, 66, 67>>, <<65, 0, 66>>}}
    \cup {PyOther}

MCPyValues == {PyInt(1), PyInt(LongMax + 1)}

(* The module is imported first and the table is BUFR.  Variables are of its entries
   and all but one have a value; there are two attributes, with values, and a list. *)
Vars == {s \in There : objs[s].type = "Var" /\ objs[s].holds # NullPointer}
Attrs == {<<s, code>> \in Vars \X Codes : code \in DOMAIN objs[s].holds.attrs}

Focus ==
  /\ dummy \in {NullPointer, 1} /\ tables[<<"crex", "p">>] = NotLoaded
  /\ \A s \in Vars : objs[s].holds.info # dummy
  /\ \A a \in Attrs : objs[a[1]].holds.attrs[a[2]].val # Unset
  /\ Cardinality({s \in Vars : objs[s].holds.val = Unset}) <= 1
  /\ Cardinality(Attrs) <= 2 /\ Cardinality(Lists) <= 1

Symmetry == Permutations(PyName)
=============================================================================
