------------------------------- MODULE MCCrex -------------------------------
(* Tables and messages to check Crex with. *)
EXTENDS Crex

Entry(code, type, len) ==
  [code |-> code, type |-> type, len |-> len]

(* Part of the CREX Table B; the string is shorter. *)
Entries == {
  Entry(<<0, 2, 1>>, "Integer", 1),
  Entry(<<0, 4, 2>>, "Integer", 2),
  Entry(<<0, 12, 101>>, "Integer", 5),
  Entry(<<0, 1, 11>>, "String", 2),
  Entry(<<0, 31, 0>>, "Integer", 1),
  Entry(<<0, 31, 1>>, "Integer", 3),
  Entry(<<0, 31, 11>>, "Integer", 3),
  Entry(<<0, 31, 12>>, "Integer", 5)}

MCBTable == [c \in {e.code : e \in Entries} |-> CHOOSE e \in Entries : e.code = c]
MCDTable == [c \in {<<3, 1, 1>>} |-> <<<<0, 4, 2>>, <<0, 2, 1>>>>]

B(x, y) == <<0, x, y>>
R(x, y) == <<1, x, y>>
D(x, y) == <<3, x, y>>

Message(source, digits, supp, subsets, datadesc, version, category) ==
  [source |-> source, digits |-> digits, supp |-> supp, subsets |-> subsets,
   datadesc |-> datadesc, version |-> version, category |-> category]

MCVersions == {<<0, 1, 3>>}

(* Sequences and replications: fixed, delayed with the factor listed or not,
   followed by others or not, nested. *)
Templates == {
  <<D(1, 1), B(1, 11)>>,
  <<R(1, 2), B(2, 1)>>,
  <<R(1, 0), B(31, 1), B(2, 1), B(4, 2)>>,
  <<R(2, 0), R(1, 0), B(2, 1)>>}

(* With factors that are not four characters long, or are missed. *)
OddTemplates == {
  <<B(4, 2), R(1, 0), B(31, 0), B(4, 2)>>,
  <<R(1, 0), B(31, 11), B(4, 2)>>,
  <<R(3, 0), R(1, 0), B(31, 1), B(2, 1)>>,
  <<B(9, 1)>>, <<D(9, 1)>>}

MCJobs ==
  {Message("encoder", FALSE, FALSE, 1, t, <<0, 1, 3>>, <<1, 255>>) :
      t \in Templates \cup OddTemplates}
  \cup
  {Message("sender", d, FALSE, 1, t, <<0, 1, 3>>, <<1, 4>>) :
      d \in BOOLEAN, t \in {<<D(1, 1), B(1, 11)>>, <<R(1, 0), B(12, 101)>>}}
  \cup
  {Message("encoder", FALSE, FALSE, 2, <<t>>, <<0, 1, 3>>, <<1, 255>>) :
      t \in {B(4, 2), B(12, 101), B(1, 11)}}
  \cup
  {Message("sender", d, s, n, <<B(4, 2)>>, <<0, 1, 3>>, <<1, 255>>) :
      d \in BOOLEAN, s \in BOOLEAN, n \in 1..2}
  \cup
  {Message("encoder", FALSE, FALSE, 1, <<B(4, 2)>>, v, c) :
      v \in {<<0, 1, 3>>, <<0, 1, 99>>}, c \in {<<1, 4>>, <<1, 200>>, <<1, 130>>}}

MCInts == {-7, 0, 98}
MCTexts == {<<"A">>, <<"A", "B">>, <<" ", "A">>, <<"/", "A">>, <<>>}
============================================================================
