------------------------------ MODULE TableIds ------------------------------
(***************************************************************************)
(* What identifies a table (tableinfo.h), which tables may replace the one *)
(* that a bulletin asks for, and which of two is the closest to it.        *)
(*                                                                         *)
(* closest_match is three-way and symmetrical: here it is Closer, which    *)
(* holds when it returns -1 for (a, b) and 1 for (b, a).                   *)
(***************************************************************************)
EXTENDS Naturals

Newest == 255       (* MASTER_TABLE_VERSION_NUMBER_NEWEST, and "not set"      *)
AnyCentre == 65535

Octet == 0..255
Pair == 0..65535

BufrTableID ==
  [format : {"bufr"}, centre : Pair, subcentre : Pair, mt : Octet, mtv : Octet,
   local : Octet]

CrexTableID ==
  [format : {"crex"}, edition : Octet, centre : Pair, subcentre : Pair, mt : Octet,
   mtv : Octet, mtv_bufr : Octet, local : Octet]

TableID == BufrTableID \cup CrexTableID

(* is_acceptable_replacement: a BUFR table can also be used to decode CREX. *)
AcceptableForBufr(want, id) ==
  /\ id.format = "bufr" /\ id.mt = want.mt
  /\ want.mtv = Newest \/ id.mtv >= want.mtv

AcceptableForCrex(want, id) ==
  /\ id.mt = want.mt
  /\ IF id.format = "bufr" THEN want.mtv = Newest \/ id.mtv >= want.mtv_bufr
     ELSE /\ id.edition = want.edition /\ id.mtv >= want.mtv
          /\ id.mtv_bufr >= want.mtv_bufr

Acceptable(want, id) ==
  IF want.format = "bufr" THEN AcceptableForBufr(want, id)
  ELSE AcceptableForCrex(want, id)

----------------------------------------------------------------------------
(* compare_mtv, compare_mtv_bufr and compare_mtv_bufrcrex: the highest version when
   the newest is wanted, and otherwise the lowest. *)
Better(want, x, y) == IF want.mtv = Newest THEN x > y ELSE x < y

BufrVersion(id) == IF id.format = "bufr" THEN id.mtv ELSE id.mtv_bufr

NearerVersion(want, a, b) ==
  IF a.format # b.format THEN Better(want, BufrVersion(a), BufrVersion(b))
  ELSE \/ Better(want, a.mtv, b.mtv)
       \/ a.format = "crex" /\ a.mtv = b.mtv /\ Better(want, a.mtv_bufr, b.mtv_bufr)

(* compare_centre *)
CentreMatch(want, id) ==
  IF id.centre = want.centre THEN 3
  ELSE IF id.centre = 0 THEN 2 ELSE IF id.centre = AnyCentre THEN 1 ELSE 0

(* compare_mt_local: the first local version from the one wanted on, or else the
   last before it. *)
NearerLocal(want, a, b) ==
  /\ want.local # 0
  /\ IF a.local < want.local THEN b.local < want.local /\ b.local < a.local
     ELSE b.local < want.local \/ a.local < b.local

(* compare_subcentre *)
NearerSubcentre(want, a, b) ==
  a.subcentre = want.subcentre /\ b.subcentre # want.subcentre

NearerCentre(want, a, b) ==
  \/ CentreMatch(want, a) > CentreMatch(want, b)
  \/ /\ CentreMatch(want, a) = 3 /\ CentreMatch(want, b) = 3
     /\ \/ NearerLocal(want, a, b)
        \/ ~NearerLocal(want, b, a) /\ NearerSubcentre(want, a, b)

(* closest_match, for acceptable tables *)
Closer(want, a, b) ==
  \/ NearerVersion(want, a, b)
  \/ ~NearerVersion(want, b, a) /\ NearerCentre(want, a, b)
=============================================================================
