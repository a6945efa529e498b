---------------------------- MODULE MCTranscode ----------------------------
(* Tables and data descriptor sections to check Transcode with. *)
EXTENDS SectionVisitors

Entry(code, type, scale, bit_ref, bit_len) ==
  [code |-> code, type |-> type, scale |-> scale, bit_ref |-> bit_ref,
   bit_len |-> bit_len]

(* Part of Table B, version 14 of WMO; the string is shorter. *)
Entries == {
  Entry(<<0, 1, 1>>, "Integer", 0, 0, 7),
  Entry(<<0, 1, 11>>, "String", 0, 0, 16),
  Entry(<<0, 12, 101>>, "Integer", 2, 0, 16),
  Entry(<<0, 22, 42>>, "Integer", 1, -20, 9),
  Entry(<<0, 31, 0>>, "Integer", 0, 0, 1),
  Entry(<<0, 31, 1>>, "Integer", 0, 0, 8),
  Entry(<<0, 31, 12>>, "Integer", 0, 0, 16),
  Entry(<<0, 31, 21>>, "Integer", 0, 0, 6),
  Entry(<<0, 31, 31>>, "Integer", 0, 0, 1),
  Entry(<<0, 33, 2>>, "Integer", 0, 0, 2),
  Entry(<<0, 33, 3>>, "Integer", 0, 0, 3),
  Entry(<<0, 33, 7>>, "Integer", 0, 0, 7),
  Entry(<<0, 33, 40>>, "Integer", 0, 0, 7),
  Entry(<<0, 33, 41>>, "Integer", 0, 0, 2),
  Entry(<<0, 33, 50>>, "Integer", 0, 0, 4)}

MCBTable == [c \in {e.code : e \in Entries} |-> CHOOSE e \in Entries : e.code = c]

MCDTable == [c \in {<<3, 1, 1>>} |-> <<<<0, 1, 1>>, <<0, 22, 42>>>>]

B(x, y) == <<0, x, y>>
R(x, y) == <<1, x, y>>
C(x, y) == <<2, x, y>>
D(x, y) == <<3, x, y>>

SIG == B(31, 21)
BITMAP(n) == <<R(1, n), B(31, 31)>>
DELAYED == <<R(1, 0), B(31, 1), B(31, 31)>>

(* Replications, sequences and the modifiers of width, scale and reference. *)
LayoutTemplates == {
  <<R(3, 0), B(31, 1), B(1, 1), R(1, 2), B(31, 0)>>,
  <<D(1, 1), R(1, 2), B(1, 11)>>,
  <<R(1, 0), B(1, 1), R(1, 0), B(31, 0), D(1, 1)>>,
  <<C(1, 130), B(1, 1), C(1, 0), C(2, 129), B(12, 101), C(2, 0),
    C(7, 1), B(22, 42), C(7, 0), C(8, 1), B(1, 11), C(8, 0), B(22, 42)>>,
  <<R(2, 2), C(1, 130), B(1, 1), B(1, 1), C(1, 0), B(1, 1)>>,
  <<C(36, 0), B(1, 1), C(24, 0), C(1, 130), B(1, 1)>>}

(* Associated fields. *)
FieldTemplates == {
  <<C(4, 2), SIG, B(1, 1), B(1, 11), C(4, 0), B(31, 0)>>,
  <<C(4, 8), SIG, C(1, 129), B(22, 42), C(4, 0), C(4, 1), SIG, B(1, 1)>>,
  <<C(4, 3), SIG, R(1, 0), B(31, 0), B(1, 1), C(6, 7), B(1, 1)>>}

(* Character data and local descriptors: known with their width, with another
   width, and unknown. *)
LocalTemplates == {
  <<C(5, 2), B(1, 1), C(5, 1), C(5, 2)>>,
  <<C(6, 7), B(1, 1), C(6, 9), B(1, 1), C(6, 8), B(63, 1), C(6, 8), B(63, 1)>>,
  <<C(6, 0), B(63, 1), C(1, 130), C(6, 9), B(1, 1), C(1, 0), B(1, 1)>>}

(* Reference values: used, used for some, and cancelled. *)
RefvalTemplates == {
  <<C(3, 4), B(12, 101), B(22, 42), C(3, 255), R(1, 2), B(12, 101), B(22, 42)>>}

(* Bitmaps: quality information, substituted values, bitmaps used again. *)
BitmapTemplates == {
  <<B(1, 1), B(1, 11), C(23, 0)>> \o DELAYED \o <<C(23, 255)>>,
  <<B(1, 1), C(22, 0)>> \o BITMAP(1)
    \o <<B(33, 7), C(23, 0), C(37, 0), C(23, 255), C(37, 255), B(33, 7)>>,
  <<C(4, 2), SIG, B(22, 42), C(4, 0), C(22, 0)>> \o BITMAP(1) \o <<B(33, 2)>>}

(* Sections that the interpreter refuses. *)
MalformedTemplates == {
  <<B(1, 1), C(22, 1)>>, <<B(1, 1), C(23, 1)>>, <<B(1, 1), C(37, 1)>>,
  <<B(1, 1), C(23, 255)>>, <<B(1, 1), C(6, 7)>>, <<B(1, 1), B(9, 1)>>,
  <<B(1, 1), D(9, 1)>>, <<B(1, 1), R(2, 1), B(1, 1)>>,
  <<B(1, 1), R(1, 0), B(31, 5), B(1, 1)>>, <<B(1, 1), C(4, 40), SIG, B(1, 1)>>,
  <<C(4, 2), SIG, C(4, 2), SIG, B(1, 1)>>, <<C(4, 2), B(1, 1)>>,
  <<B(1, 1), C(22, 0), R(2, 2), B(31, 31), B(31, 31)>>,
  <<B(1, 1), C(22, 0), R(1, 2), B(1, 1)>>,
  <<B(1, 1), C(22, 0), R(1, 0), B(31, 5), B(31, 31)>>,
  <<B(1, 1), C(22, 0)>> \o DELAYED, <<R(1, 0), B(31, 0), B(9, 1)>>,
  <<B(1, 1), C(1, 120), B(1, 1)>>, <<B(1, 1), C(1, 160), C(6, 7), B(1, 1)>>,
  <<B(1, 1), C(22, 0)>> \o BITMAP(1) \o <<C(23, 255), C(23, 255)>>,
  <<C(22, 0), C(37, 0), B(1, 1), B(33, 7)>>,
  <<C(3, 4), B(9, 1), C(3, 255), B(9, 1)>>}

(* Sections that are encoded as they were, see Exact. *)
ExactTemplates == {
  <<D(1, 1), R(3, 0), B(31, 0), B(1, 1), R(1, 2), B(12, 101)>>,
  <<C(4, 4), SIG, B(1, 1), C(4, 0), C(4, 8), SIG, B(1, 1)>>,
  <<C(3, 5), B(22, 42), C(3, 255), B(22, 42), C(7, 1), B(22, 42)>>,
  <<C(6, 9), B(1, 1), C(6, 8), B(63, 1), C(6, 7), B(1, 1)>>,
  <<B(1, 1), B(22, 42), C(22, 0)>> \o BITMAP(2) \o <<R(1, 0), B(31, 0), B(33, 7)>>,
  <<B(1, 1), C(22, 0)>> \o DELAYED
    \o <<B(33, 7), C(23, 0), C(37, 0), C(23, 255), C(37, 255), B(33, 7)>>}

(* Sections whose subsets are changed by the program. *)
EditableTemplates == {
  <<R(1, 0), B(31, 0), B(1, 1), C(4, 1), SIG, B(22, 42)>>,
  <<B(1, 1), C(22, 0)>> \o DELAYED \o <<B(33, 7), R(1, 0), B(31, 0), B(33, 7)>>}

(* A section with quality information, and subsets that a program makes for it:
   attributes for some of the variables, and character data between them. *)
BuiltTemplate == <<B(1, 1), C(5, 1), B(22, 42), B(1, 11), C(22, 0)>> \o DELAYED
                   \o <<R(1, 0), B(31, 1), B(33, 7)>>

MCBuilt ==
  LET attrs == {NoAttrs} \cup {[c \in {B(33, 7)} |-> q] : q \in {0, 5}}
      info(code) == MCBTable[code]
      characters == [code |-> C(5, 1), type |-> "String", scale |-> 0, bit_ref |-> 0,
                     bit_len |-> 8]
      var(inf, val, as) == [NewVar(inf, val) EXCEPT !.attrs = as]
  IN {<<BuiltTemplate, <<var(info(B(1, 1)), 3, a[1]), var(characters, 65, NoAttrs),
                         var(info(B(22, 42)), a[4], a[2]),
                         var(info(B(1, 11)), Text(16), a[3])>>>> :
        a \in attrs \X attrs \X attrs \X {-20, Unset}}

MCTemplates == LayoutTemplates \cup FieldTemplates \cup LocalTemplates
                 \cup RefvalTemplates \cup BitmapTemplates \cup MalformedTemplates
                 \cup ExactTemplates \cup EditableTemplates \cup {BuiltTemplate}

(* Whether missing fields are skipped is of interest where there are any. *)
MCBulletins ==
  {<<t, TRUE>> : t \in MCTemplates} \cup
  {<<t, FALSE>> : t \in FieldTemplates \cup BitmapTemplates}
============================================================================
