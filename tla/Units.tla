-------------------------------- MODULE Units --------------------------------
(***************************************************************************)
(* Conversions between units, and between the code tables of different     *)
(* forms of a report (conv.cc).  A conversion of a code table is a function*)
(* whose domain is what the code accepts: outside of it the code throws.   *)
(***************************************************************************)
EXTENDS Varinfos

CONSTANT Registered   (* the conversions of the repository *)

ASSUME RegisteredAssumption ==
  \A r \in Registered : r.num \in Nat \ {0} /\ r.den \in Nat \ {0} /\ r.add \in Int

(* A conversion multiplies by num / den and adds add. *)
Linear(from, to, num, den, add) ==
  [from |-> from, to |-> to, num |-> num, den |-> den, add |-> add]

(* The conversion back divides, and takes off what was added: it is the inverse
   of the other when only one of the two is there. *)
AddLinear(from, to, num, den, add) ==
  {Linear(from, to, num, den, add), Linear(to, from, den, num, -add)}

AddIdent(from, to) == AddLinear(from, to, 1, 1, 0)

Repo == UNION {AddLinear(r.from, r.to, r.num, r.den, r.add) : r \in Registered}

(* Some pairs are registered twice: which one is found depends on the sort. *)
Find(from, to) == {c \in Repo : c.from = from /\ c.to = to}

Convert(c, d) == Rint(d * c.num, c.den) + c.add

----------------------------------------------------------------------------
(* Code tables *)

Slash == -1   (* the / of a report *)

(* Clouds: ten codes in a row, and one for the slash. *)
CloudsToBUFR20012(first, slash) ==
  [from \in 0..9 \cup {Slash} |-> IF from = Slash THEN slash ELSE from + first]

BUFR20012ToClouds(first, slash) ==
  [from \in first..(first + 9) \cup {slash} |->
     IF from = slash THEN Slash ELSE from - first]

WMO0500_to_BUFR20012 == CloudsToBUFR20012(0, 59)
BUFR20012_to_WMO0500 == BUFR20012ToClouds(0, 59)
WMO0509_to_BUFR20012 == CloudsToBUFR20012(10, 60)
BUFR20012_to_WMO0509 == BUFR20012ToClouds(10, 60)
WMO0515_to_BUFR20012 == CloudsToBUFR20012(20, 61)
BUFR20012_to_WMO0515 == BUFR20012ToClouds(20, 61)
WMO0513_to_BUFR20012 == CloudsToBUFR20012(30, 62)
BUFR20012_to_WMO0513 == BUFR20012ToClouds(30, 62)

(* Weather: the codes are the same up to the last; those below 0 pass too. *)
SameCodes(last) == [from \in IntMin..last |-> from]
Weather(wmo) == CASE wmo = "4677" -> SameCodes(99) [] wmo = "4561" -> SameCodes(9)

(* Vertical soundings: sets of flags.  B08001 has one flag for temperature and
   humidity, B08042 has two. *)
SharedFlags == {"SIGWIND", "MAXWIND", "TROPO", "STD", "SURFACE"}
Flags08001 == SharedFlags \cup {"SIGTH", "MISSING"}
Flags08042 ==
  SharedFlags \cup {"SIGTEMP", "SIGHUM", "MISSING", "BEGMISST", "ENDMISST",
                    "BEGMISSH", "ENDMISSH", "BEGMISSW", "ENDMISSW", "TOPWIND",
                    "REGIONAL", "RESERVED", "H2PRESS"}

BUFR08001_to_BUFR08042(from) ==
  IF "MISSING" \in from THEN Flags08042
  ELSE (from \cap SharedFlags)
         \cup (IF "SIGTH" \in from THEN {"SIGTEMP", "SIGHUM"} ELSE {})

BUFR08042_to_BUFR08001(from) ==
  IF "MISSING" \in from THEN Flags08001
  ELSE (from \cap SharedFlags)
         \cup (IF from \cap {"SIGTEMP", "SIGHUM"} # {} THEN {"SIGTH"} ELSE {})

AOFVSS_to_BUFR08042 ==
  LET flag == [bit \in {0, 1, 3, 5, 6, 7, 8} |->
                 CASE bit = 0 -> "MAXWIND" [] bit = 1 -> "TROPO"
                   [] bit \in {3, 5} -> "STD" [] bit = 6 -> "SURFACE"
                   [] bit = 7 -> "SIGWIND" [] bit = 8 -> "SIGTEMP"]
  IN [from \in SUBSET (0..8) |-> {flag[bit] : bit \in from \cap DOMAIN flag}]

(* Wind directions.  Degrees are doubles; 0 is the calm, and the North is 8,
   whether a little over 337.5 degrees or up to 22.5. *)
Degrees(n) == n * 10^Places

Octants_to_degrees == [from \in 0..8 |-> Degrees(45 * from)]

Degrees_to_octants(from) ==
  CASE from = 0 -> 0
    [] from # 0 /\ 2 * from <= Degrees(45) -> 8
    [] OTHER -> (2 * from + Degrees(45) - 1) \div Degrees(90)

DegreesAccepted == 0..Degrees(360)

----------------------------------------------------------------------------
(* convert_units: what a double may become, nothing when the conversion is not
   implemented or does not accept the value. *)
ConvertUnits(from, to, d) ==
  CASE from = to -> {d}
    [] from = "octants" /\ to = "DEGREE TRUE" ->
         {Octants_to_degrees[n] : n \in {d \div 10^Places} \cap DOMAIN Octants_to_degrees}
    [] from = "DEGREE TRUE" /\ to = "octants" ->
         {Degrees(Degrees_to_octants(a)) : a \in {d} \cap DegreesAccepted}
    [] OTHER -> {Convert(c, d) : c \in Find(from, to)}

----------------------------------------------------------------------------
Undoes(f, g) == \A v \in DOMAIN f : f[v] \in DOMAIN g /\ g[f[v]] = v

(* What one table makes of another's code, the other makes that code again, and
   no two of the cloud tables make the same code. *)
CodeTablesInvert ==
  /\ Undoes(WMO0500_to_BUFR20012, BUFR20012_to_WMO0500)
  /\ Undoes(WMO0509_to_BUFR20012, BUFR20012_to_WMO0509)
  /\ Undoes(WMO0515_to_BUFR20012, BUFR20012_to_WMO0515)
  /\ Undoes(WMO0513_to_BUFR20012, BUFR20012_to_WMO0513)
  /\ \A from \in SUBSET (Flags08001 \ {"MISSING"}) \cup {Flags08001} :
       BUFR08042_to_BUFR08001(BUFR08001_to_BUFR08042(from)) = from
  /\ \A n \in DOMAIN Octants_to_degrees :
       Degrees_to_octants(Octants_to_degrees[n]) = n
  /\ \A d \in DegreesAccepted : Degrees_to_octants(d) \in 0..8
=============================================================================
