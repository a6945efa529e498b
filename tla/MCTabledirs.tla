----------------------------- MODULE MCTabledirs -----------------------------
(* Two directories and a few tables to check Tabledirs with. *)
EXTENDS Tabledirs

CONSTANTS d1, d2

Bufr(centre, subcentre, mtv, local) ==
  [format |-> "bufr", centre |-> centre, subcentre |-> subcentre, mt |-> 0,
   mtv |-> mtv, local |-> local]

(* Dir::refresh knows the edition and the version of a CREX table, and no more. *)
Crex(edition, mtv) ==
  [format |-> "crex", edition |-> edition, centre |-> 0, subcentre |-> 0, mt |-> 0,
   mtv |-> mtv, mtv_bufr |-> 0, local |-> 0]

Wmo3 == Bufr(0, 0, 3, 0)
Wmo4 == Bufr(0, 0, 4, 0)
Local3 == Bufr(98, 0, 3, 1)
Local3Next == Bufr(98, 0, 3, 2)
Crex2 == Crex(1, 3)

MCFiles == {Wmo3, Wmo4, Local3, Local3Next, Crex2}
MCDirs == {d1, d2}
MCInstalled == (d1 :> {Wmo4, Local3Next}) @@ (d2 :> {Wmo4, Crex2})
MCInstallable == {<<d2, Local3>>}

(* What decoding a BUFR and a CREX bulletin asks for, and one set by a program. *)
MCWanted ==
  {Bufr(98, 1, 2, 1), Crex(1, 3), [Crex(1, 3) EXCEPT !.mtv_bufr = 4]}
MCBroken == {<<"D", [dir |-> d1, id |-> Local3Next]>>, <<"B", [dir |-> d2, id |-> Local3]>>}
(* What decoding a CREX bulletin asks for when its own tables are not there. *)
MCDecoded == {Bufr(98, 1, 2, 1), Crex(1, 4)}
MCOverrides == {NONE, NEWEST}
=============================================================================
