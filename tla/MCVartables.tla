---------------------------- MODULE MCVartables -----------------------------
(* Small tables, whose files are replaced: B tables by themselves, and D tables
   by themselves. *)
EXTENDS Vartables

Line(length, code, unit, bits, ref, scale) ==
  [length |-> length, code |-> code, unit |-> unit, bit_len |-> bits,
   bit_ref |-> ref, scale |-> scale, crex_unit |-> unit, crex_len |-> 1,
   crex_scale |-> scale]

Temperature == Line(157, <<0, 12, 101>>, "K", 3, 0, 1)
Blocks == Line(157, <<0, 1, 1>>, "NUMERIC", 3, -2, 0)
Station == Line(157, <<0, 1, 11>>, "CCITTIA5", 8, 0, 0)
BufrOnly == [Station EXCEPT !.length = 119]
TooShort == [Station EXCEPT !.length = 118]
TooLarge == [Temperature EXCEPT !.bit_len = WordBits - 1, !.bit_ref = 1]

Plain == <<Blocks, Temperature>>
MCContents ==
  {Plain, <<Blocks, Station, Temperature>>, <<Temperature, Blocks>>,
   <<Blocks, TooShort>>, <<BufrOnly>>, <<Blocks, TooLarge>>, NoFile}

(* A temperature as it is, of one scale more and of one bit more, and three that an
   entry cannot become. *)
Alteration(scale, bits, ref) == [scale |-> scale, bit_len |-> bits, bit_ref |-> ref]
MCAlterations ==
  {Alteration(1, 3, 0), Alteration(2, 3, 0), Alteration(1, 4, 0),
   Alteration(MaxScale + 1, 3, 0), Alteration(1, WordBits + 1, 0),
   Alteration(1, WordBits - 1, 1)}

D(y) == <<3, 1, y>>
B(y) == <<0, 1, y>>
MCStart(code, count, item) ==
  [looks |-> "start", code |-> code, count |-> count, item |-> item]
More(item) == [looks |-> "more", item |-> item]
Odd == [looks |-> "other"]

DLines == {MCStart(D(1), 1, B(1)), MCStart(D(2), 2, B(1)), MCStart(D(3), 0, B(1)),
           MCStart(D(3), 1, NoCode), More(B(2)), More(B(3)), Odd}

(* Every file of four lines or less, and longer ones that grow or do not. *)
One(y) == MCStart(D(y), 1, B(y))
MCDContents ==
  UNION {[1..n -> DLines] : n \in 0..3}
    \cup {<<One(1), One(2), One(3), One(4), One(5)>>, <<One(1), One(3), One(2), One(4)>>,
          <<One(1), MCStart(D(2), 3, B(1)), More(B(2)), More(B(3)), One(4)>>, NoFile}

MCNamed == [n \in {"blocks", "none"} |-> IF n = "blocks" THEN "p" ELSE NoFile]

Focus == disk["d"] = NoFile \/ (disk["p"] = NoFile /\ memory = <<>>)
=============================================================================
