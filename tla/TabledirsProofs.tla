--------------------------- MODULE TabledirsProofs ---------------------------
(* A cached table is the best of those listed, and lookups are as TableLookup promises,
   for any files, directories, bulletins and overrides. *)
EXTENDS Tabledirs, SequenceTheorems, TLAPS

(* best is what choose_best makes of the tables T for one of the formats. *)
BestOf(want, T, format, best) ==
  IF best = NoTable THEN \A t \in T : ~(Acceptable(want, t.id) /\ t.id.format = format)
  ELSE /\ best \in T /\ Acceptable(want, best.id) /\ best.id.format = format
       /\ \A t \in T : Acceptable(want, t.id) /\ t.id.format = format
                         => ~Closer(want, t.id, best.id)

(* The tables that a search has considered. *)
Seen(n) == {listing[j] : j \in {j \in DOMAIN listing : j < n}}

(* The inductive invariant, in parts. *)
Listed == /\ listing \in Seq(Tables) \cup {NoListing}
          /\ phase \in {"list", "search"} => listing # NoListing

NothingStale == listing = NoListing \/ phase = "list" => DOMAIN cache = {}

WorldOK == disk \in [Dirs -> SUBSET Files] /\ dirs \in Seq(Dirs) /\ override \in Int

Asking(want) == want \in TableID /\ query = [NoQuery EXCEPT !.want = want]

Pending ==
  /\ phase \notin {"list", "search"} => query = NoQuery
  /\ phase = "list" => query = NoQuery \/ \E want \in TableID : Asking(want)

Searching ==
  phase = "search" =>
    /\ query = [want |-> query.want, at |-> query.at, bufr |-> query.bufr,
                crex |-> query.crex]
    /\ query.want \in TableID /\ query.at \in Nat \ {0}
    /\ BestOf(query.want, Seen(query.at), "bufr", query.bufr)
    /\ BestOf(query.want, Seen(query.at), "crex", query.crex)

CacheInv ==
  /\ Listed /\ NothingStale /\ Pending /\ Searching
  /\ DOMAIN cache \subseteq TableID /\ CachedIsBest

----------------------------------------------------------------------------
(* Each part of closest_match orders the tables that it tells apart, and so does
   their combination. *)
LEMMA VersionOrder ==
  ASSUME NEW want, NEW a, NEW b, NEW c, a.mtv \in Nat, b.mtv \in Nat, c.mtv \in Nat,
         a.format = "bufr", b.format = "bufr", c.format = "bufr"
  PROVE  /\ ~NearerVersion(want, a, a)
         /\ NearerVersion(want, a, b) => ~NearerVersion(want, b, a)
         /\ NearerVersion(want, a, c) =>
              NearerVersion(want, a, b) \/ NearerVersion(want, b, c)
  BY DEF NearerVersion, Better

(* How well a centre matches is a number. *)
LEMMA CentreOrder ==
  ASSUME NEW want, NEW a
  PROVE  CentreMatch(want, a) \in 0..3
  BY DEF CentreMatch

(* Local versions are in an order. *)
LEMMA LocalOrder ==
  ASSUME NEW want, NEW a, NEW b, NEW c, want.local \in Nat,
         a.local \in Nat, b.local \in Nat, c.local \in Nat
  PROVE  /\ ~NearerLocal(want, a, a)
         /\ NearerLocal(want, a, b) => ~NearerLocal(want, b, a)
         /\ NearerLocal(want, a, c) =>
              NearerLocal(want, a, b) \/ NearerLocal(want, b, c)
  BY DEF NearerLocal

(* Centres are in an order. *)
LEMMA NearerCentreOrder ==
  ASSUME NEW want, NEW a, NEW b, NEW c, want.local \in Nat,
         a.local \in Nat, b.local \in Nat, c.local \in Nat
  PROVE  /\ ~NearerCentre(want, a, a)
         /\ NearerCentre(want, a, b) => ~NearerCentre(want, b, a)
         /\ NearerCentre(want, a, c) =>
              NearerCentre(want, a, b) \/ NearerCentre(want, b, c)
<1>1. /\ CentreMatch(want, a) \in Nat /\ CentreMatch(want, b) \in Nat
      /\ CentreMatch(want, c) \in Nat
  BY CentreOrder
<1>2. /\ ~NearerLocal(want, a, a)
      /\ NearerLocal(want, a, b) => ~NearerLocal(want, b, a)
      /\ NearerLocal(want, a, c) => NearerLocal(want, a, b) \/ NearerLocal(want, b, c)
      /\ NearerLocal(want, c, a) => NearerLocal(want, c, b) \/ NearerLocal(want, b, a)
      /\ NearerLocal(want, b, a) => NearerLocal(want, b, c) \/ NearerLocal(want, c, a)
      /\ NearerLocal(want, c, b) => NearerLocal(want, c, a) \/ NearerLocal(want, a, b)
  BY LocalOrder
<1> QED
  BY <1>1, <1>2 DEF NearerCentre, NearerSubcentre

(* BUFR tables are in an order. *)
LEMMA CloserBufr ==
  ASSUME NEW want \in TableID, NEW a \in BufrTableID, NEW b \in BufrTableID,
         NEW c \in BufrTableID
  PROVE  /\ ~Closer(want, a, a)
         /\ Closer(want, a, b) => ~Closer(want, b, a)
         /\ Closer(want, a, c) => Closer(want, a, b) \/ Closer(want, b, c)
<1>1. /\ want.local \in Nat
      /\ a.mtv \in Nat /\ a.local \in Nat /\ a.format = "bufr"
      /\ b.mtv \in Nat /\ b.local \in Nat /\ b.format = "bufr"
      /\ c.mtv \in Nat /\ c.local \in Nat /\ c.format = "bufr"
  <2>1. \A id \in BufrTableID : id.mtv \in Nat /\ id.local \in Nat /\ id.format = "bufr"
    BY DEF BufrTableID, Octet
  <2>2. want.local \in Nat
    BY DEF TableID, BufrTableID, CrexTableID, Octet
  <2> QED
    BY <2>1, <2>2
<1>2. /\ ~NearerVersion(want, a, a)
      /\ NearerVersion(want, a, b) => ~NearerVersion(want, b, a)
      /\ NearerVersion(want, a, c) => NearerVersion(want, a, b) \/ NearerVersion(want, b, c)
      /\ NearerVersion(want, c, a) => NearerVersion(want, c, b) \/ NearerVersion(want, b, a)
      /\ NearerVersion(want, b, a) => NearerVersion(want, b, c) \/ NearerVersion(want, c, a)
      /\ NearerVersion(want, c, b) => NearerVersion(want, c, a) \/ NearerVersion(want, a, b)
  BY <1>1, VersionOrder
<1>3. /\ ~NearerCentre(want, a, a)
      /\ NearerCentre(want, a, b) => ~NearerCentre(want, b, a)
      /\ NearerCentre(want, a, c) => NearerCentre(want, a, b) \/ NearerCentre(want, b, c)
  BY <1>1, NearerCentreOrder
<1> QED
  BY <1>2, <1>3 DEF Closer

(* Next to a BUFR table, a CREX one counts as the BUFR table of version 0. *)
LEMMA CloserMixed ==
  ASSUME NEW want \in TableID, NEW a \in BufrTableID, NEW c \in CrexTableID,
         c \in Files
  PROVE  LET b == [format |-> "bufr", centre |-> 0, subcentre |-> 0, mt |-> 0,
                   mtv |-> 0, local |-> 0]
         IN /\ b \in BufrTableID
            /\ Closer(want, c, a) <=> Closer(want, b, a)
            /\ Closer(want, a, c) <=> Closer(want, a, b)
<1> DEFINE b == [format |-> "bufr", centre |-> 0, subcentre |-> 0, mt |-> 0,
                 mtv |-> 0, local |-> 0]
<1>1. b \in BufrTableID
  <2>1. 0 \in Octet /\ 0 \in Pair
    BY DEF Octet, Pair
  <2> QED
    BY <2>1 DEF BufrTableID
<1>2. /\ c.format = "crex" /\ a.format = "bufr" /\ c.mtv_bufr = 0 /\ c.local = 0
      /\ c.centre = 0 /\ c.subcentre = 0
  BY NamesAssumption DEF CrexTableID, BufrTableID
<1>3. /\ b.format = "bufr" /\ b.centre = 0 /\ b.subcentre = 0 /\ b.mtv = 0 /\ b.local = 0
  OBVIOUS
<1> HIDE DEF b
<1>4. \A x, y : /\ x.local = y.local /\ x.centre = y.centre /\ x.subcentre = y.subcentre
                => /\ NearerCentre(want, x, a) <=> NearerCentre(want, y, a)
                   /\ NearerCentre(want, a, x) <=> NearerCentre(want, a, y)
  BY DEF NearerCentre, CentreMatch, NearerLocal, NearerSubcentre
<1>5. /\ NearerCentre(want, c, a) <=> NearerCentre(want, b, a)
      /\ NearerCentre(want, a, c) <=> NearerCentre(want, a, b)
  BY <1>2, <1>3, <1>4
<1>6. /\ NearerVersion(want, c, a) <=> NearerVersion(want, b, a)
      /\ NearerVersion(want, a, c) <=> NearerVersion(want, a, b)
  BY <1>2, <1>3 DEF NearerVersion, BufrVersion
<1>7. /\ Closer(want, c, a) <=> Closer(want, b, a)
      /\ Closer(want, a, c) <=> Closer(want, a, b)
  BY <1>5, <1>6 DEF Closer
<1> QED
  BY <1>1, <1>7 DEF b

(* Among CREX tables only the version counts. *)
LEMMA CloserCrex ==
  ASSUME NEW want \in TableID, NEW a \in CrexTableID, NEW b \in CrexTableID,
         NEW c \in CrexTableID, a \in Files, b \in Files, c \in Files
  PROVE  /\ ~Closer(want, a, a)
         /\ Closer(want, a, b) => ~Closer(want, b, a)
         /\ Closer(want, a, c) => Closer(want, a, b) \/ Closer(want, b, c)
<1> DEFINE Plain(x) == /\ x.format = "crex" /\ x.mtv \in Nat /\ x.mtv_bufr = 0
                       /\ x.local = 0 /\ x.centre = 0 /\ x.subcentre = 0
<1>1. Plain(a) /\ Plain(b) /\ Plain(c)
  BY NamesAssumption DEF CrexTableID, Octet
<1>2. \A x, y : Plain(x) /\ Plain(y) =>
        /\ ~NearerCentre(want, x, y)
        /\ NearerVersion(want, x, y) <=> Better(want, x.mtv, y.mtv)
  BY DEF NearerCentre, CentreMatch, NearerLocal, NearerSubcentre, NearerVersion, Better
<1>3. \A x, y : Plain(x) /\ Plain(y) =>
        (Closer(want, x, y) <=> Better(want, x.mtv, y.mtv))
  BY <1>2 DEF Closer
<1> QED
  BY <1>1, <1>3 DEF Better

(* Tables of one format are ordered. *)
LEMMA CloserOrder ==
  ASSUME NEW want \in TableID, NEW a \in Tables, NEW b \in Tables, NEW c \in Tables,
         a.id.format = b.id.format, b.id.format = c.id.format
  PROVE  /\ ~Closer(want, a.id, a.id)
         /\ Closer(want, a.id, b.id) => ~Closer(want, b.id, a.id)
         /\ Closer(want, a.id, c.id) =>
              Closer(want, a.id, b.id) \/ Closer(want, b.id, c.id)
<1>1. a.id \in Files /\ b.id \in Files /\ c.id \in Files
  BY DEF Tables
<1>2. CASE /\ a.id \in BufrTableID /\ b.id \in BufrTableID /\ c.id \in BufrTableID
  BY <1>2, CloserBufr
<1>3. CASE /\ a.id \in CrexTableID /\ b.id \in CrexTableID /\ c.id \in CrexTableID
  BY <1>1, <1>3, CloserCrex
<1>4. \A id \in TableID : /\ id \in BufrTableID => id.format = "bufr"
                          /\ id \in CrexTableID => id.format = "crex"
  BY DEF BufrTableID, CrexTableID
<1> QED
  BY <1>1, <1>2, <1>3, <1>4, IdsAssumption DEF TableID

----------------------------------------------------------------------------
(* What a search has considered when it goes on to the next table. *)
LEMMA KeepsBest ==
  ASSUME NEW want \in TableID, NEW format, NEW T, T \subseteq Tables, NEW t \in Tables,
         NEW best, BestOf(want, T, format, best),
         Acceptable(want, t.id), t.id.format = format,
         NEW new, new = IF best = NoTable \/ Closer(want, t.id, best.id) THEN t ELSE best
  PROVE  BestOf(want, T \cup {t}, format, new)
<1> USE DEF BestOf
<1>1. t # NoTable
  BY NothingAssumption
<1>2. new # NoTable /\ new \in T \cup {t} /\ Acceptable(want, new.id)
      /\ new.id.format = format
  BY <1>1
<1>3. ASSUME NEW u \in T \cup {t}, Acceptable(want, u.id), u.id.format = format
      PROVE  ~Closer(want, u.id, new.id)
  <2>1. u \in Tables /\ new \in Tables
    BY <1>2
  <2>2. ~Closer(want, t.id, t.id)
    BY CloserOrder
  <2>3. CASE best = NoTable
    BY <1>3, <2>2, <2>3
  <2>4. CASE best # NoTable /\ Closer(want, t.id, best.id)
    <3>1. best \in Tables /\ best.id.format = format
      BY <2>4
    <3>2. CASE u = t
      BY <2>2, <2>4, <3>2
    <3>3. CASE u \in T
      <4>1. ~Closer(want, u.id, best.id)
        BY <1>3, <2>4, <3>3
      <4>2. Closer(want, u.id, t.id) => ~Closer(want, t.id, u.id)
        BY <1>3, <2>1, CloserOrder
      <4>3. Closer(want, t.id, u.id) \/ Closer(want, u.id, best.id)
        BY <1>3, <2>1, <2>4, <3>1, CloserOrder
      <4> QED
        BY <2>4, <4>1, <4>2, <4>3
    <3> QED
      BY <3>2, <3>3
  <2>5. CASE best # NoTable /\ ~Closer(want, t.id, best.id)
    BY <1>3, <2>5
  <2> QED
    BY <2>3, <2>4, <2>5
<1> QED
  BY <1>2, <1>3

(* A table that is not acceptable, or is of the other format, changes nothing. *)
LEMMA PassesOver ==
  ASSUME NEW want, NEW format, NEW T, NEW t, NEW best, BestOf(want, T, format, best),
         ~(Acceptable(want, t.id) /\ t.id.format = format)
  PROVE  BestOf(want, T \cup {t}, format, best)
  BY DEF BestOf

(* The end of a search: the best of the two formats is the best of all. *)
LEMMA BestOfBoth ==
  ASSUME NEW want \in TableID, NEW T, T \subseteq Tables, NEW b, NEW c,
         BestOf(want, T, "bufr", b), BestOf(want, T, "crex", c),
         NEW r, r = IF b = NoTable THEN c ELSE IF c = NoTable THEN b
                    ELSE IF Closer(want, c.id, b.id) THEN c ELSE b,
         r # NoTable
  PROVE  /\ r \in T /\ Acceptable(want, r.id)
         /\ \A t \in T : Acceptable(want, t.id) => ~Closer(want, t.id, r.id)
<1>1. \A t \in T : /\ t.id \in Files /\ t.id \in TableID
                   /\ t.id.format = "bufr" => t.id \in BufrTableID
                   /\ t.id.format = "crex" => t.id \in CrexTableID
                   /\ t.id.format = "bufr" \/ t.id.format = "crex"
  <2>1. \A t \in T : t.id \in Files /\ t.id \in TableID
    BY IdsAssumption DEF Tables
  <2>2. \A id \in TableID : \/ id \in BufrTableID /\ id.format = "bufr"
                            \/ id \in CrexTableID /\ id.format = "crex"
    BY DEF TableID, BufrTableID, CrexTableID
  <2> QED
    BY <2>1, <2>2
<1>2. /\ b # NoTable => /\ b \in T /\ Acceptable(want, b.id) /\ b.id.format = "bufr"
                        /\ \A t \in T : Acceptable(want, t.id) /\ t.id.format = "bufr"
                                         => ~Closer(want, t.id, b.id)
      /\ c # NoTable => /\ c \in T /\ Acceptable(want, c.id) /\ c.id.format = "crex"
                        /\ \A t \in T : Acceptable(want, t.id) /\ t.id.format = "crex"
                                         => ~Closer(want, t.id, c.id)
      /\ b = NoTable => \A t \in T : Acceptable(want, t.id) => t.id.format # "bufr"
      /\ c = NoTable => \A t \in T : Acceptable(want, t.id) => t.id.format # "crex"
  BY DEF BestOf
<1>3. r \in T /\ Acceptable(want, r.id)
  BY <1>2
<1>4. ASSUME NEW t \in T, Acceptable(want, t.id)
      PROVE  ~Closer(want, t.id, r.id)
  <2>1. CASE b = NoTable \/ c = NoTable
    BY <1>1, <1>2, <1>4, <2>1
  <2>2. CASE b # NoTable /\ c # NoTable
    <3> DEFINE v == [format |-> "bufr", centre |-> 0, subcentre |-> 0, mt |-> 0,
                     mtv |-> 0, local |-> 0]
    <3>1. \A x \in T : x.id.format = "crex" =>
            /\ v \in BufrTableID
            /\ Closer(want, x.id, b.id) <=> Closer(want, v, b.id)
      BY <1>1, <1>2, <2>2, CloserMixed
    <3>2. \A x \in T : x.id.format = "bufr" =>
            /\ Closer(want, c.id, x.id) <=> Closer(want, v, x.id)
            /\ Closer(want, x.id, c.id) <=> Closer(want, x.id, v)
      BY <1>1, <1>2, <2>2, CloserMixed
    <3> HIDE DEF v
    <3>3. CASE Closer(want, c.id, b.id) /\ t.id.format = "bufr"
      <4>1. v \in BufrTableID /\ Closer(want, v, b.id)
        BY <1>2, <2>2, <3>1, <3>3
      <4>2. ~Closer(want, t.id, b.id)
        BY <1>2, <1>4, <2>2, <3>3
      <4>3. t.id \in BufrTableID /\ b.id \in BufrTableID
        BY <1>1, <1>2, <2>2, <3>3
      <4>4. /\ Closer(want, v, t.id) \/ Closer(want, t.id, b.id)
            /\ Closer(want, v, t.id) => ~Closer(want, t.id, v)
        BY <4>1, <4>3, CloserBufr
      <4> QED
        BY <2>2, <3>2, <3>3, <4>2, <4>4
    <3>4. CASE Closer(want, c.id, b.id) /\ t.id.format = "crex"
      BY <1>2, <1>4, <2>2, <3>4
    <3>5. CASE ~Closer(want, c.id, b.id) /\ t.id.format = "bufr"
      BY <1>2, <1>4, <2>2, <3>5
    <3>6. CASE ~Closer(want, c.id, b.id) /\ t.id.format = "crex"
      BY <1>2, <2>2, <3>1, <3>6
    <3> QED
      BY <1>1, <3>3, <3>4, <3>5, <3>6
  <2> QED
    BY <2>1, <2>2
<1> QED
  BY <1>3, <1>4

----------------------------------------------------------------------------
(* Options are integers, and a version is an octet: what is looked up is always an
   identifier. *)
LEMMA OverriddenType ==
  ASSUME NEW id \in Wanted, override \in Int
  PROVE  Overridden(id) \in TableID
<1>1. id \in TableID
  BY IdsAssumption
<1>2. override % 256 \in Octet /\ Newest \in Octet
  BY DEF Octet, Newest
<1>3. ASSUME NEW v \in Octet
      PROVE  [id EXCEPT !.mtv = v] \in TableID
  BY <1>1, <1>3 DEF TableID, BufrTableID, CrexTableID
<1> QED
  BY <1>1, <1>2, <1>3 DEF Overridden

(* A new search has considered nothing. *)
LEMMA SearchStarts ==
  ASSUME listing \in Seq(Tables), NEW want
  PROVE  BestOf(want, Seen(1), "bufr", NoTable) /\ BestOf(want, Seen(1), "crex", NoTable)
<1>1. Seen(1) = {}
  BY LenProperties DEF Seen
<1> QED
  BY <1>1 DEF BestOf

(* What an invariant step keeps when the index, the cache and the lookup stay. *)
LEMMA KeepsCache ==
  ASSUME CacheInv, UNCHANGED <<listing, cache, query>>,
         phase' = phase \/ {phase, phase'} \cap {"list", "search"} = {}
  PROVE  CacheInv'
  BY DEF CacheInv, Listed, NothingStale, Pending, Asking, Searching, CachedIsBest, Seen

(* A directory is added: the index and what was found in it go away. *)
LEMMA AddKeeps ==
  ASSUME CacheInv, NEW d, AddDirectory(d)
  PROVE  CacheInv'
<1>1. CASE d \in ToSet(dirs)
  BY <1>1, KeepsCache DEF AddDirectory, lookup
<1>2. CASE d \notin ToSet(dirs)
  <2>1. /\ phase = "idle" /\ phase' = "idle" /\ listing' = NoListing /\ cache' = NoCache
        /\ query' = query
    BY <1>2 DEF AddDirectory, lookup
  <2>2. DOMAIN NoCache = {}
    BY DEF NoCache
  <2> QED
    BY <2>1, <2>2 DEF CacheInv, Listed, NothingStale, Pending, Searching, CachedIsBest
<1> QED
  BY <1>1, <1>2

(* The directories are listed only while nothing is cached. *)
LEMMA ListingKeeps ==
  ASSUME CacheInv, WorldOK, Listing
  PROVE  CacheInv'
<1> USE DEF world, index, lookup, tables
<1>1. /\ phase = "list" /\ DOMAIN cache = {} /\ cache' = cache /\ query' = query
      /\ listing \in Seq(Tables)
  BY DEF CacheInv, Listed, NothingStale, Listing, ReadEntry, NextDirectory, EndListing
<1>2. DOMAIN cache' = {} /\ CachedIsBest'
  BY <1>1 DEF CachedIsBest
<1>3. CASE ReadEntry
  <2>1. PICK t \in Unread(dirs[reading]) : listing' = Append(listing, t)
    BY <1>3 DEF ReadEntry
  <2>2. dirs[reading] \in Dirs
    BY <1>3, LenProperties DEF WorldOK, ReadEntry
  <2>3. t \in Tables
    BY <2>2 DEF Unread, WorldOK, Tables
  <2>4. listing' \in Seq(Tables)
    BY <1>1, <2>1, <2>3, AppendProperties
  <2>5. phase' = "list"
    BY <1>1, <1>3 DEF ReadEntry
  <2> QED
    BY <1>1, <1>2, <2>4, <2>5, NoListingAssumption
    DEF CacheInv, Listed, NothingStale, Pending, Asking, Searching
<1>4. CASE NextDirectory
  BY <1>4, KeepsCache DEF NextDirectory
<1>5. CASE EndListing
  <2>1. listing' = listing
    BY <1>5 DEF EndListing
  <2>2. CASE query = NoQuery
    BY <1>1, <1>2, <1>5, <2>1, <2>2
    DEF EndListing, CacheInv, Listed, NothingStale, Pending, Searching
  <2>3. CASE query # NoQuery
    <3>1. PICK want \in TableID : query = [NoQuery EXCEPT !.want = want]
      BY <1>1, <2>3 DEF CacheInv, Pending, Asking
    <3>2. query = [want |-> want, at |-> 1, bufr |-> NoTable, crex |-> NoTable]
      BY <3>1 DEF NoQuery
    <3>3. /\ BestOf(want, Seen(1), "bufr", NoTable)
          /\ BestOf(want, Seen(1), "crex", NoTable)
      BY <1>1, SearchStarts
    <3>4. /\ BestOf(want, Seen(1), "bufr", NoTable)'
          /\ BestOf(want, Seen(1), "crex", NoTable)'
      BY <2>1, <3>3 DEF Seen, BestOf
    <3>5. Searching'
      BY <1>1, <3>2, <3>4 DEF Searching
    <3>6. phase' = "search"
      BY <1>5, <2>3 DEF EndListing
    <3> QED
      BY <1>1, <1>2, <2>1, <3>5, <3>6, NoListingAssumption
      DEF CacheInv, Listed, NothingStale, Pending
  <2> QED
    BY <2>2, <2>3
<1> QED
  BY <1>3, <1>4, <1>5 DEF Listing

(* A lookup asks for an identifier, and lists the directories if nobody has. *)
LEMMA FindKeeps ==
  ASSUME CacheInv, WorldOK, NEW id \in Wanted, FindBufr(id) \/ FindCrex(id)
  PROVE  CacheInv'
<1> USE DEF world, index, lookup, tables
<1>1. Overridden(id) \in TableID
  BY OverriddenType DEF WorldOK
<1>2. phase = "idle" /\ query = NoQuery /\ cache' = cache
  BY DEF CacheInv, Pending, FindBufr, FindCrex
<1>3. ASSUME NEW want \in TableID, listing # NoListing, FindListed(want)
      PROVE  CacheInv'
  <2>1. listing' = listing /\ listing \in Seq(Tables)
    BY <1>3 DEF FindListed, CacheInv, Listed
  <2>2. CASE want \in DOMAIN cache
    BY <1>2, <1>3, <2>1, <2>2, KeepsCache DEF FindListed
  <2>3. CASE want \notin DOMAIN cache
    <3>1. phase' = "search" /\ query' = [NoQuery EXCEPT !.want = want]
      BY <1>3, <2>3 DEF FindListed, Search
    <3>2. query' = [want |-> want, at |-> 1, bufr |-> NoTable, crex |-> NoTable]
      BY <3>1 DEF NoQuery
    <3>3. /\ BestOf(want, Seen(1), "bufr", NoTable)
          /\ BestOf(want, Seen(1), "crex", NoTable)
      BY <2>1, SearchStarts
    <3>4. /\ BestOf(want, Seen(1), "bufr", NoTable)'
          /\ BestOf(want, Seen(1), "crex", NoTable)'
      BY <2>1, <3>3 DEF Seen, BestOf
    <3>5. Searching'
      BY <1>3, <3>2, <3>4 DEF Searching
    <3>6. CachedIsBest'
      BY <1>2, <2>1 DEF CacheInv, CachedIsBest
    <3> QED
      BY <1>2, <1>3, <2>1, <3>1, <3>5, <3>6, NoListingAssumption
      DEF CacheInv, Listed, NothingStale, Pending
  <2> QED
    BY <2>2, <2>3
<1>4. ASSUME NEW want \in TableID, listing = NoListing, StartListing, Search(want)
      PROVE  CacheInv'
  <2>1. /\ phase' = "list" /\ listing' = <<>> /\ DOMAIN cache' = {}
        /\ query' = [NoQuery EXCEPT !.want = want]
    BY <1>2, <1>4 DEF StartListing, Search, CacheInv, NothingStale
  <2>2. listing' \in Seq(Tables)
    BY <2>1, EmptySeq
  <2> QED
    BY <1>2, <1>4, <2>1, <2>2, NoListingAssumption
    DEF CacheInv, Listed, NothingStale, Pending, Asking, Searching, CachedIsBest
<1>5. CASE listing = NoListing /\ phase' = "undefined" /\ UNCHANGED <<listing, lookup>>
  BY <1>2, <1>5, KeepsCache
<1> QED
  BY <1>1, <1>3, <1>4, <1>5 DEF FindBufr, FindCrex

(* A lookup by name lists the directories for nobody. *)
LEMMA FindByNameKeeps ==
  ASSUME CacheInv, FindByName
  PROVE  CacheInv'
<1>1. /\ phase' = "list" /\ listing' = <<>> /\ DOMAIN cache' = {} /\ query' = NoQuery
  BY DEF FindByName, StartListing, CacheInv, NothingStale, Pending, lookup
<1>2. listing' \in Seq(Tables)
  BY <1>1, EmptySeq
<1> QED
  BY <1>1, <1>2, NoListingAssumption
  DEF CacheInv, Listed, NothingStale, Pending, Searching, CachedIsBest

(* What has been considered after one more table. *)
LEMMA SeenNext ==
  ASSUME listing \in Seq(Tables), NEW n \in DOMAIN listing
  PROVE  Seen(n + 1) = Seen(n) \cup {listing[n]} /\ listing[n] \in Tables
<1>1. /\ n \in Nat /\ DOMAIN listing \subseteq Nat
      /\ \A j \in DOMAIN listing : listing[j] \in Tables
  BY LenProperties
<1>2. \A j \in DOMAIN listing : j < n + 1 <=> j < n \/ j = n
  BY <1>1
<1> QED
  BY <1>1, <1>2 DEF Seen

(* What has been considered at the end is all there is. *)
LEMMA SeenAll ==
  ASSUME listing \in Seq(Tables), NEW n \in Nat \ {0}, n \notin DOMAIN listing
  PROVE  Seen(n) = ToSet(listing) /\ Seen(n) \subseteq Tables
<1>1. DOMAIN listing = 1..Len(listing) /\ Len(listing) \in Nat
      /\ \A j \in DOMAIN listing : listing[j] \in Tables
  BY LenProperties
<1>2. \A j \in DOMAIN listing : j < n
  BY <1>1
<1> QED
  BY <1>1, <1>2 DEF Seen, ToSet

(* A table is compared with the best of its format. *)
LEMMA ConsiderKeeps ==
  ASSUME CacheInv, Consider
  PROVE  CacheInv'
<1> DEFINE t == listing[query.at]
<1>1. /\ phase = "search" /\ phase' = phase /\ listing' = listing /\ cache' = cache
      /\ query.at \in DOMAIN listing
  BY DEF Consider, index
<1>2. /\ listing \in Seq(Tables) /\ query.want \in TableID /\ query.at \in Nat \ {0}
      /\ query = [want |-> query.want, at |-> query.at, bufr |-> query.bufr,
                  crex |-> query.crex]
      /\ BestOf(query.want, Seen(query.at), "bufr", query.bufr)
      /\ BestOf(query.want, Seen(query.at), "crex", query.crex)
  BY <1>1 DEF CacheInv, Listed, Searching
<1>3. Seen(query.at + 1) = Seen(query.at) \cup {t} /\ t \in Tables
      /\ Seen(query.at) \subseteq Tables
  <2>1. Seen(query.at) \subseteq Tables
    BY <1>2, LenProperties DEF Seen
  <2> QED
    BY <1>1, <1>2, <2>1, SeenNext
<1>4. ASSUME NEW b, NEW c,
             query' = [want |-> query.want, at |-> query.at + 1, bufr |-> b, crex |-> c],
             BestOf(query.want, Seen(query.at) \cup {t}, "bufr", b),
             BestOf(query.want, Seen(query.at) \cup {t}, "crex", c)
      PROVE  CacheInv'
  <2>1. PICK want, n : want = query.want /\ n = query.at + 1
    OBVIOUS
  <2>2. BestOf(want, Seen(n), "bufr", b) /\ BestOf(want, Seen(n), "crex", c)
    BY <1>3, <1>4, <2>1
  <2>3. (BestOf(want, Seen(n), "bufr", b) /\ BestOf(want, Seen(n), "crex", c))'
    BY <1>1, <2>2 DEF Seen, BestOf
  <2>4. query' = [want |-> want, at |-> n, bufr |-> b, crex |-> c]
    BY <1>4, <2>1
  <2>5. want \in TableID /\ n \in Nat \ {0}
    BY <1>2, <2>1
  <2>6. Searching'
    BY <2>3, <2>4, <2>5 DEF Searching
  <2> QED
    BY <1>1, <2>6 DEF CacheInv, Listed, NothingStale, Pending, CachedIsBest
<1>5. query' = IF ~Acceptable(query.want, t.id) THEN [query EXCEPT !.at = @ + 1]
               ELSE IF t.id.format = "bufr"
                 THEN [[query EXCEPT !.at = @ + 1] EXCEPT !.bufr = ChooseBest(@, t)]
                 ELSE [[query EXCEPT !.at = @ + 1] EXCEPT !.crex = ChooseBest(@, t)]
  BY DEF Consider
<1>6. t.id.format = "bufr" \/ t.id.format = "crex"
  BY <1>3, IdsAssumption DEF Tables, TableID, BufrTableID, CrexTableID
<1> HIDE DEF t
<1>7. CASE ~Acceptable(query.want, t.id)
  <2>1. query' = [want |-> query.want, at |-> query.at + 1, bufr |-> query.bufr,
                  crex |-> query.crex]
    BY <1>2, <1>5, <1>7
  <2>2. /\ BestOf(query.want, (Seen(query.at) \cup {t}), "bufr", query.bufr)
        /\ BestOf(query.want, (Seen(query.at) \cup {t}), "crex", query.crex)
    BY <1>2, <1>7, PassesOver
  <2> QED
    BY <1>4, <2>1, <2>2
<1>8. CASE Acceptable(query.want, t.id) /\ t.id.format = "bufr"
  <2>1. query' = [want |-> query.want, at |-> query.at + 1,
                  bufr |-> ChooseBest(query.bufr, t), crex |-> query.crex]
    BY <1>2, <1>5, <1>8
  <2>2. BestOf(query.want, (Seen(query.at) \cup {t}), "bufr", ChooseBest(query.bufr, t))
    BY <1>2, <1>3, <1>8, KeepsBest DEF ChooseBest
  <2>3. BestOf(query.want, (Seen(query.at) \cup {t}), "crex", query.crex)
    BY <1>2, <1>8, PassesOver
  <2> QED
    BY <1>4, <2>1, <2>2, <2>3
<1>9. CASE Acceptable(query.want, t.id) /\ t.id.format = "crex"
  <2>1. query' = [want |-> query.want, at |-> query.at + 1, bufr |-> query.bufr,
                  crex |-> ChooseBest(query.crex, t)]
    BY <1>2, <1>5, <1>9
  <2>2. BestOf(query.want, (Seen(query.at) \cup {t}), "crex", ChooseBest(query.crex, t))
    BY <1>2, <1>3, <1>9, KeepsBest DEF ChooseBest
  <2>3. BestOf(query.want, (Seen(query.at) \cup {t}), "bufr", query.bufr)
    BY <1>2, <1>9, PassesOver
  <2> QED
    BY <1>4, <2>1, <2>2, <2>3
<1> QED
  BY <1>6, <1>7, <1>8, <1>9

(* What a search finds is the best there is, and is remembered as such. *)
LEMMA ConcludeKeeps ==
  ASSUME CacheInv, Conclude
  PROVE  CacheInv'
<1>1. /\ phase = "search" /\ phase' \in {"idle", "load_b"} /\ listing' = listing
      /\ cache' = CacheResult /\ query' = NoQuery /\ query.at \notin DOMAIN listing
  BY DEF Conclude
<1>2. /\ listing \in Seq(Tables) /\ listing # NoListing
      /\ query.want \in TableID /\ query.at \in Nat \ {0}
      /\ BestOf(query.want, Seen(query.at), "bufr", query.bufr)
      /\ BestOf(query.want, Seen(query.at), "crex", query.crex)
  BY <1>1 DEF CacheInv, Listed, Searching
<1>3. Seen(query.at) = ToSet(listing) /\ Seen(query.at) \subseteq Tables
  BY <1>1, <1>2, SeenAll
<1>4. ASSUME Result # NoTable
      PROVE  /\ Result \in ToSet(listing) /\ Acceptable(query.want, Result.id)
             /\ \A t \in ToSet(listing) :
                  Acceptable(query.want, t.id) => ~Closer(query.want, t.id, Result.id)
  <2>1. Result = IF query.bufr = NoTable THEN query.crex
                 ELSE IF query.crex = NoTable THEN query.bufr
                 ELSE IF Closer(query.want, query.crex.id, query.bufr.id)
                   THEN query.crex ELSE query.bufr
    BY DEF Result, ChooseBest
  <2> QED
    BY <1>2, <1>3, <1>4, <2>1, BestOfBoth
<1>5. DOMAIN cache' \subseteq TableID /\ CachedIsBest'
  <2>1. CASE Result = NoTable
    BY <1>1, <2>1 DEF CacheResult, CacheInv, CachedIsBest
  <2>2. CASE Result # NoTable
    <3>1. /\ DOMAIN cache' = (DOMAIN cache) \cup {query.want}
          /\ \A id \in DOMAIN cache' :
               cache'[id] = IF id = query.want THEN Result ELSE cache[id]
      BY <1>1, <2>2 DEF CacheResult
    <3>2. DOMAIN cache' \subseteq TableID
      BY <1>2, <3>1 DEF CacheInv
    <3> QED
      BY <1>1, <1>2, <1>4, <2>2, <3>1, <3>2 DEF CacheInv, CachedIsBest
  <2> QED
    BY <2>1, <2>2
<1> QED
  BY <1>1, <1>2, <1>5 DEF CacheInv, Listed, NothingStale, Pending, Searching

----------------------------------------------------------------------------
(* Before anything is looked up the cache is empty, and what it says holds. *)
LEMMA InitCache ==
  ASSUME Init
  PROVE  WorldOK /\ CacheInv
<1>1. <<>> \in Seq(Dirs) /\ NONE \in Int
  BY EmptySeq DEF NONE
<1>2. DOMAIN NoCache = {}
  BY DEF NoCache
<1> QED
  BY <1>1, <1>2, DiskAssumption
  DEF Init, WorldOK, CacheInv, Listed, NothingStale, Pending, Searching, CachedIsBest

(* The disk, the list of directories and the options keep their types. *)
LEMMA StepWorld ==
  ASSUME WorldOK, [Next]_vars
  PROVE  WorldOK'
<1> USE DEF world
<1>1. CASE UNCHANGED world
  BY <1>1 DEF WorldOK
<1>2. ASSUME NEW d \in Dirs, AddDirectory(d)
      PROVE  WorldOK'
  BY <1>2, AppendProperties DEF WorldOK, AddDirectory
<1>3. CASE SetOverride
  BY <1>3, OverridesAssumption DEF WorldOK, SetOverride
<1>4. CASE Install
  <2>1. PICK f \in Installable : disk' = [disk EXCEPT ![f[1]] = @ \cup {f[2]}]
    BY <1>4 DEF Install
  <2>2. f[1] \in Dirs /\ f[2] \in Files
    BY DiskAssumption
  <2>3. disk' \in [Dirs -> SUBSET Files]
    BY <2>1, <2>2 DEF WorldOK
  <2> QED
    BY <1>4, <2>3 DEF WorldOK, Install
<1> QED
  BY <1>1, <1>2, <1>3, <1>4
  DEF Next, vars, Listing, Loading, FindBufr, FindCrex, FindByName, ReadEntry, NextDirectory,
      EndListing, Consider, Conclude, LoadB, LoadD

(* What was cached stays the best there is, one step per action. *)
LEMMA StepCache ==
  ASSUME CacheInv, WorldOK, [Next]_vars
  PROVE  CacheInv'
<1> USE DEF index, lookup
<1>1. ASSUME NEW d \in Dirs, AddDirectory(d)
      PROVE  CacheInv'
  BY <1>1, AddKeeps
<1>2. ASSUME NEW id \in Wanted, FindBufr(id) \/ FindCrex(id)
      PROVE  CacheInv'
  BY <1>2, FindKeeps
<1>3. CASE FindByName
  BY <1>3, FindByNameKeeps
<1>4. CASE Listing
  BY <1>4, ListingKeeps
<1>5. CASE Consider
  BY <1>5, ConsiderKeeps
<1>6. CASE Conclude
  BY <1>6, ConcludeKeeps
<1>7. CASE LoadB
  <2>1. phase = "load_b" /\ phase' \in {"idle", "load_d"}
    BY <1>7 DEF LoadB
  <2> QED
    BY <1>7, <2>1, KeepsCache DEF LoadB
<1>8. CASE LoadD
  BY <1>8, KeepsCache DEF LoadD
<1>9. CASE SetOverride
  BY <1>9, KeepsCache DEF SetOverride
<1>10. CASE Install
  BY <1>10, KeepsCache DEF Install
<1>11. CASE UNCHANGED vars
  BY <1>11, KeepsCache DEF vars
<1> QED
  BY <1>1, <1>2, <1>3, <1>4, <1>5, <1>6, <1>7, <1>8, <1>9, <1>10, <1>11 DEF Next, Loading

(* A cached answer is the closest table of the index, whatever directories were added,
   overrides set and files installed since it was found (tabledir.cc). *)
THEOREM CachedAreBest == Spec => []CachedIsBest
<1>1. Init => WorldOK /\ CacheInv
  BY InitCache
<1>2. (WorldOK /\ CacheInv) /\ [Next]_vars => (WorldOK /\ CacheInv)'
  BY StepWorld, StepCache
<1>3. CacheInv => CachedIsBest
  BY DEF CacheInv
<1> QED
  BY <1>1, <1>2, <1>3, PTL DEF Spec
----------------------------------------------------------------------------

(* best is the first of the tables of its format that are as close as it. *)
First(want, best) ==
  \E i \in DOMAIN listing :
    /\ listing[i] = best
    /\ \A j \in DOMAIN listing :
         j < i /\ Acceptable(want, listing[j].id) /\ listing[j].id.format = best.id.format
           => Closer(want, best.id, listing[j].id)

(* What a search has found, and what was cached, is the first of its equals: CacheInv
   does not say which of them. *)
FoundFirst ==
  phase = "search" =>
    \A best \in {query.bufr, query.crex} : best # NoTable => First(query.want, best)

CachedFirst == \A want \in DOMAIN cache : First(want, cache[want])

FirstInv == FoundFirst /\ CachedFirst

(* It stays so while the index, the cache and the lookup stay. *)
LEMMA KeepsFirst ==
  ASSUME FirstInv, UNCHANGED <<listing, cache, query>>,
         phase' = "search" => phase = "search"
  PROVE  FirstInv'
<1>1. ASSUME NEW want, NEW best, First(want, best)
      PROVE  First(want, best)'
  BY <1>1 DEF First
<1>2. CachedFirst'
  BY <1>1 DEF FirstInv, CachedFirst
<1>3. FoundFirst'
  BY <1>1 DEF FirstInv, FoundFirst
<1> QED
  BY <1>2, <1>3 DEF FirstInv

(* A search that begins has found nothing, and the directories are listed while nothing
   is cached. *)
LEMMA StartsFirst ==
  ASSUME DOMAIN cache' = {} \/ (CachedFirst /\ UNCHANGED <<listing, cache>>),
         phase' = "search" => query'.bufr = NoTable /\ query'.crex = NoTable
  PROVE  FirstInv'
<1>1. ASSUME NEW want, NEW best, First(want, best), UNCHANGED listing
      PROVE  First(want, best)'
  BY <1>1 DEF First
<1>2. CachedFirst'
  BY <1>1 DEF CachedFirst
<1> QED
  BY <1>2 DEF FirstInv, FoundFirst

(* A table takes the place of another only when it is closer, and so than all those
   before it. *)
LEMMA TakesFirst ==
  ASSUME CacheInv, FirstInv, Consider, NEW format,
         NEW t, t = listing[query.at], Acceptable(query.want, t.id), t.id.format = format,
         NEW best \in {query.bufr, query.crex},
         BestOf(query.want, Seen(query.at), format, best)
  PROVE  First(query.want, ChooseBest(best, t))
<1>1. /\ phase = "search" /\ query.at \in DOMAIN listing /\ listing \in Seq(Tables)
      /\ query.want \in TableID /\ query.at \in Nat \ {0}
  BY DEF Consider, CacheInv, Listed, Searching
<1>2. CASE best # NoTable /\ ~Closer(query.want, t.id, best.id)
  BY <1>1, <1>2 DEF ChooseBest, FirstInv, FoundFirst
<1>3. CASE best = NoTable \/ Closer(query.want, t.id, best.id)
  <2>1. ChooseBest(best, t) = t
    BY <1>3 DEF ChooseBest
  <2>2. ASSUME NEW j \in DOMAIN listing, j < query.at,
               Acceptable(query.want, listing[j].id), listing[j].id.format = t.id.format
        PROVE  Closer(query.want, t.id, listing[j].id)
    <3>1. listing[j] \in Tables /\ t \in Tables
      BY <1>1, LenProperties
    <3>2. listing[j] \in Seen(query.at)
      BY <2>2 DEF Seen
    <3>3. best # NoTable
      BY <2>2, <3>2 DEF BestOf
    <3>4. best \in Seen(query.at) /\ best.id.format = format
      BY <3>3 DEF BestOf
    <3>5. best \in Tables
      BY <1>1, <3>4, LenProperties DEF Seen
    <3>6. ~Closer(query.want, listing[j].id, best.id)
      BY <2>2, <3>2, <3>3 DEF BestOf
    <3>7. Closer(query.want, t.id, best.id)
      BY <1>3, <3>3
    <3>8. \/ Closer(query.want, t.id, listing[j].id)
          \/ Closer(query.want, listing[j].id, best.id)
      BY <1>1, <2>2, <3>1, <3>4, <3>5, <3>7, CloserOrder
    <3> QED
      BY <3>6, <3>8
  <2>3. query.at \in DOMAIN listing /\ listing[query.at] = t
    BY <1>1
  <2>4. First(query.want, t)
    BY <2>2, <2>3 DEF First
  <2> QED
    BY <2>1, <2>4
<1> QED
  BY <1>2, <1>3

(* The search goes on to the next table. *)
LEMMA ConsiderFirst ==
  ASSUME CacheInv, FirstInv, Consider
  PROVE  FirstInv'
<1> DEFINE t == listing[query.at]
<1>1. /\ phase = "search" /\ phase' = phase /\ listing' = listing /\ cache' = cache
      /\ query.at \in DOMAIN listing
  BY DEF Consider, index
<1>2. /\ query = [want |-> query.want, at |-> query.at, bufr |-> query.bufr,
                  crex |-> query.crex]
      /\ BestOf(query.want, Seen(query.at), "bufr", query.bufr)
      /\ BestOf(query.want, Seen(query.at), "crex", query.crex)
  BY <1>1 DEF CacheInv, Searching
<1>3. ASSUME NEW want, NEW best, First(want, best)
      PROVE  First(want, best)'
  BY <1>1, <1>3 DEF First
<1>4. CachedFirst'
  BY <1>1, <1>3 DEF FirstInv, CachedFirst
<1>5. t.id.format = "bufr" \/ t.id.format = "crex"
  <2>1. listing[query.at] \in Tables
    BY <1>1, LenProperties DEF CacheInv, Listed
  <2> QED
    BY <2>1, IdsAssumption DEF Tables, TableID, BufrTableID, CrexTableID
<1>6. query' = IF ~Acceptable(query.want, t.id) THEN [query EXCEPT !.at = @ + 1]
               ELSE IF t.id.format = "bufr"
                 THEN [[query EXCEPT !.at = @ + 1] EXCEPT !.bufr = ChooseBest(@, t)]
                 ELSE [[query EXCEPT !.at = @ + 1] EXCEPT !.crex = ChooseBest(@, t)]
  BY DEF Consider
<1>7. /\ query.bufr # NoTable => First(query.want, query.bufr)
      /\ query.crex # NoTable => First(query.want, query.crex)
  BY <1>1 DEF FirstInv, FoundFirst
<1> HIDE DEF t
<1>8. /\ query'.want = query.want
      /\ query'.bufr # NoTable => First(query.want, query'.bufr)
      /\ query'.crex # NoTable => First(query.want, query'.crex)
  <2>1. CASE ~Acceptable(query.want, t.id)
    <3>1. query' = [want |-> query.want, at |-> query.at + 1, bufr |-> query.bufr,
                    crex |-> query.crex]
      BY <1>2, <1>6, <2>1
    <3> QED
      BY <1>7, <3>1
  <2>2. CASE Acceptable(query.want, t.id) /\ t.id.format = "bufr"
    <3>1. query' = [want |-> query.want, at |-> query.at + 1,
                    bufr |-> ChooseBest(query.bufr, t), crex |-> query.crex]
      BY <1>2, <1>6, <2>2
    <3>2. First(query.want, ChooseBest(query.bufr, t))
      BY <1>2, <2>2, TakesFirst DEF t
    <3> QED
      BY <1>7, <3>1, <3>2
  <2>3. CASE Acceptable(query.want, t.id) /\ t.id.format = "crex"
    <3>1. query' = [want |-> query.want, at |-> query.at + 1, bufr |-> query.bufr,
                    crex |-> ChooseBest(query.crex, t)]
      BY <1>2, <1>6, <2>3
    <3>2. First(query.want, ChooseBest(query.crex, t))
      BY <1>2, <2>3, TakesFirst DEF t
    <3> QED
      BY <1>7, <3>1, <3>2
  <2> QED
    BY <1>5, <2>1, <2>2, <2>3
<1>9. FoundFirst'
  BY <1>3, <1>8 DEF FoundFirst
<1> QED
  BY <1>4, <1>9 DEF FirstInv

(* TableLookup has the order of identifiers of TableIds. *)
LEMMA SameOrder ==
  ASSUME NEW want, NEW a, NEW b
  PROVE  /\ Promise!Acceptable(want, a) <=> Acceptable(want, a)
         /\ Promise!Closer(want, a, b) <=> Closer(want, a, b)
  BY DEF Acceptable, AcceptableForBufr, AcceptableForCrex, Closer, NearerVersion, Better,
         BufrVersion, NearerCentre, CentreMatch, NearerLocal, NearerSubcentre, Newest,
         AnyCentre, Promise!Acceptable, Promise!AcceptableForBufr,
         Promise!AcceptableForCrex, Promise!Closer, Promise!NearerVersion, Promise!Better,
         Promise!BufrVersion, Promise!NearerCentre, Promise!CentreMatch,
         Promise!NearerLocal, Promise!NearerSubcentre, Promise!Newest, Promise!AnyCentre

(* The closest of the tables of the index, and the first among its equals, is an answer
   of TableLookup. *)
LEMMA FirstIsAnswer ==
  ASSUME NEW want, NEW best \in ToSet(listing), Acceptable(want, best.id),
         \A t \in ToSet(listing) : Acceptable(want, t.id) => ~Closer(want, t.id, best.id),
         First(want, best)
  PROVE  best \in Promise!Answers(listing, want)
<1>1. PICK i \in DOMAIN listing :
        /\ listing[i] = best
        /\ \A j \in DOMAIN listing :
             j < i /\ Acceptable(want, listing[j].id) /\ listing[j].id.format = best.id.format
               => Closer(want, best.id, listing[j].id)
  BY DEF First
<1>2. \A j \in DOMAIN listing : listing[j] \in ToSet(listing)
  BY DEF ToSet
<1>3. Promise!IsBest(listing, want, i)
  BY <1>1, <1>2, SameOrder DEF Promise!IsBest, Promise!Candidates
<1> QED
  BY <1>1, <1>3 DEF Promise!Answers

(* What a search gives is an answer of TableLookup. *)
LEMMA ResultIsAnswer ==
  ASSUME CacheInv, FirstInv, Conclude
  PROVE  Result \in Promise!Answers(listing, query.want)
<1>1. /\ phase = "search" /\ listing \in Seq(Tables) /\ query.want \in TableID
      /\ query.at \in Nat \ {0} /\ query.at \notin DOMAIN listing
      /\ BestOf(query.want, Seen(query.at), "bufr", query.bufr)
      /\ BestOf(query.want, Seen(query.at), "crex", query.crex)
  BY DEF CacheInv, Listed, Searching, Conclude
<1>2. Seen(query.at) = ToSet(listing) /\ Seen(query.at) \subseteq Tables
  BY <1>1, SeenAll
<1>3. Result = IF query.bufr = NoTable THEN query.crex
               ELSE IF query.crex = NoTable THEN query.bufr
               ELSE IF Closer(query.want, query.crex.id, query.bufr.id)
                 THEN query.crex ELSE query.bufr
  BY DEF Result, ChooseBest
<1>4. CASE Result = NoTable
  <2>1. query.bufr = NoTable /\ query.crex = NoTable
    BY <1>3, <1>4
  <2>2. ASSUME NEW j \in DOMAIN listing
        PROVE  ~Acceptable(query.want, listing[j].id)
    <3>1. listing[j] \in Seen(query.at)
      BY <1>2 DEF ToSet
    <3>2. listing[j].id.format = "bufr" \/ listing[j].id.format = "crex"
      BY <1>2, <3>1, IdsAssumption DEF Tables, TableID, BufrTableID, CrexTableID
    <3> QED
      BY <1>1, <2>1, <3>1, <3>2 DEF BestOf
  <2>3. Promise!Candidates(listing, query.want) = {}
    BY <2>2, SameOrder DEF Promise!Candidates
  <2> QED
    BY <1>4, <2>3 DEF Promise!Answers
<1>5. CASE Result # NoTable
  <2>1. /\ Result \in ToSet(listing) /\ Acceptable(query.want, Result.id)
        /\ \A t \in ToSet(listing) :
             Acceptable(query.want, t.id) => ~Closer(query.want, t.id, Result.id)
    BY <1>1, <1>2, <1>3, <1>5, BestOfBoth
  <2>2. First(query.want, Result)
    BY <1>1, <1>3, <1>5 DEF FirstInv, FoundFirst
  <2> QED
    BY <2>1, <2>2, FirstIsAnswer
<1> QED
  BY <1>4, <1>5

(* So is what was cached. *)
LEMMA CachedIsAnswer ==
  ASSUME CacheInv, FirstInv, NEW want \in DOMAIN cache
  PROVE  cache[want] \in Promise!Answers(listing, want)
  BY FirstIsAnswer DEF CacheInv, CachedIsBest, FirstInv, CachedFirst

(* What is cached when a search is over is what the search found. *)
LEMMA ConcludeFirst ==
  ASSUME CacheInv, FirstInv, Conclude
  PROVE  FirstInv'
<1>1. ASSUME NEW want, NEW best, First(want, best)
      PROVE  First(want, best)'
  BY <1>1 DEF First, Conclude
<1>2. phase' # "search" /\ cache' = CacheResult /\ phase = "search"
  BY DEF Conclude
<1>3. Result # NoTable => First(query.want, Result)
  <2>1. Result \in {query.bufr, query.crex}
    BY DEF Result, ChooseBest
  <2> QED
    BY <1>2, <2>1 DEF FirstInv, FoundFirst
<1>4. ASSUME NEW want \in DOMAIN cache'
      PROVE  First(want, cache'[want])
  BY <1>2, <1>3 DEF CacheResult, FirstInv, CachedFirst
<1>5. CachedFirst'
  BY <1>1, <1>4 DEF CachedFirst
<1> QED
  BY <1>2, <1>5 DEF FirstInv, FoundFirst

(* What was found and cached stays the first of its equals, one step per action. *)
LEMMA StepFirst ==
  ASSUME CacheInv, FirstInv, [Next]_vars
  PROVE  FirstInv'
<1> USE DEF world, index, lookup, tables
<1>1. ASSUME NEW d \in Dirs, AddDirectory(d)
      PROVE  FirstInv'
  <2>1. CASE d \in ToSet(dirs)
    BY <1>1, <2>1, KeepsFirst DEF AddDirectory
  <2>2. CASE d \notin ToSet(dirs)
    BY <1>1, <2>2, StartsFirst DEF AddDirectory, NoCache
  <2> QED
    BY <2>1, <2>2
<1>2. ASSUME NEW id \in Wanted, FindBufr(id) \/ FindCrex(id)
      PROVE  FirstInv'
  <2>1. ASSUME NEW want, FindListed(want), cache' = cache
        PROVE  FirstInv'
    <3>1. CASE want \in DOMAIN cache
      BY <2>1, <3>1, KeepsFirst DEF FindListed
    <3>2. CASE want \notin DOMAIN cache
      BY <2>1, <3>2, StartsFirst DEF FindListed, Search, NoQuery, FirstInv
    <3> QED
      BY <3>1, <3>2
  <2>2. CASE listing = NoListing /\ StartListing /\ cache' = cache
    BY <2>2, StartsFirst DEF StartListing, CacheInv, NothingStale
  <2>3. CASE phase' = "undefined" /\ UNCHANGED <<listing, cache, query>>
    BY <2>3, KeepsFirst
  <2> QED
    BY <1>2, <2>1, <2>2, <2>3 DEF FindBufr, FindCrex
<1>3. CASE FindByName
  BY <1>3, StartsFirst DEF FindByName, StartListing, CacheInv, NothingStale
<1>4. CASE Listing
  <2>1. DOMAIN cache' = {}
    BY <1>4 DEF Listing, ReadEntry, NextDirectory, EndListing, CacheInv, NothingStale
  <2>2. phase' = "search" => query'.bufr = NoTable /\ query'.crex = NoTable
    BY <1>4 DEF Listing, ReadEntry, NextDirectory, EndListing, CacheInv, Pending, Asking,
                NoQuery
  <2> QED
    BY <2>1, <2>2, StartsFirst
<1>5. CASE Consider
  BY <1>5, ConsiderFirst
<1>6. CASE Conclude
  BY <1>6, ConcludeFirst
<1>7. CASE LoadB \/ LoadD
  BY <1>7, KeepsFirst DEF LoadB, LoadD
<1>8. CASE SetOverride \/ Install
  BY <1>8, KeepsFirst DEF SetOverride, Install
<1>9. CASE UNCHANGED vars
  BY <1>9, KeepsFirst DEF vars
<1> QED
  BY <1>1, <1>2, <1>3, <1>4, <1>5, <1>6, <1>7, <1>8, <1>9 DEF Next, Loading

(* Each step of Tabledirs is a step of TableLookup, or none: the directories are listed
   when the last of them has been read, and a lookup is answered when it is found in the
   cache or its search is over. *)
LEMMA StepPromised ==
  ASSUME CacheInv, WorldOK, FirstInv, [Next]_vars
  PROVE  [Promise!Next]_<<IF phase = "list" THEN NoListing ELSE listing, asked, answer>>
<1> USE DEF world, index, lookup, tables
<1> DEFINE shown == IF phase = "list" THEN NoListing ELSE listing
           Stutter == UNCHANGED <<shown, asked, answer>>
<1> SUFFICES Promise!List \/ Promise!Answer \/ Stutter
  BY DEF Promise!Next
<1>1. ASSUME NEW d \in Dirs, AddDirectory(d)
      PROVE  Promise!List \/ Stutter
  BY <1>1 DEF AddDirectory, Promise!List
<1>2. ASSUME NEW id \in Wanted, FindBufr(id) \/ FindCrex(id)
      PROVE  Promise!Answer \/ Stutter
  <2>1. Overridden(id) \in TableID
    BY OverriddenType DEF WorldOK
  <2>2. (phase = "idle" /\ phase' # "list") \/ listing = NoListing
    BY <1>2 DEF FindBufr, FindCrex, FindListed
  <2>3. ASSUME NEW want \in TableID, phase = "idle", listing # NoListing, FindListed(want)
        PROVE  Promise!Answer \/ Stutter
    <3>1. CASE want \in DOMAIN cache
      <4>1. /\ phase' # "list" /\ listing' = listing
            /\ asked' = want /\ answer' = cache[want]
        BY <2>3, <3>1 DEF FindListed
      <4>2. want # NoTable
        BY NothingAssumption
      <4>3. cache[want] \in Promise!Answers(listing, want)
        BY <3>1, CachedIsAnswer
      <4> QED
        BY <2>3, <4>1, <4>2, <4>3 DEF Promise!Answer
    <3>2. CASE want \notin DOMAIN cache
      BY <2>3, <3>2 DEF FindListed, Search
    <3> QED
      BY <3>1, <3>2
  <2> QED
    BY <1>2, <2>1, <2>2, <2>3 DEF FindBufr, FindCrex, StartListing
<1>3. CASE FindByName
  BY <1>3 DEF FindByName, StartListing
<1>4. CASE Listing
  <2>1. phase = "list" /\ listing # NoListing
    BY <1>4 DEF Listing, ReadEntry, NextDirectory, EndListing, CacheInv, Listed
  <2> QED
    BY <1>4, <2>1 DEF Listing, ReadEntry, NextDirectory, EndListing, Promise!List
<1>5. CASE Consider
  BY <1>5 DEF Consider
<1>6. CASE Conclude
  <2>1. /\ phase = "search" /\ phase' # "list" /\ listing' = listing
        /\ listing # NoListing /\ query.want # NoTable
        /\ asked' = query.want /\ answer' = Result
    BY <1>6, NothingAssumption DEF Conclude, CacheInv, Listed, Searching
  <2>2. Result \in Promise!Answers(listing, query.want)
    BY <1>6, ResultIsAnswer
  <2> QED
    BY <2>1, <2>2 DEF Promise!Answer
<1>7. CASE LoadB \/ LoadD
  BY <1>7 DEF LoadB, LoadD
<1>8. CASE SetOverride \/ Install
  BY <1>8 DEF SetOverride, Install
<1>9. CASE UNCHANGED vars
  BY <1>9 DEF vars
<1> QED
  BY <1>1, <1>2, <1>3, <1>4, <1>5, <1>6, <1>7, <1>8, <1>9 DEF Next, Loading

(* A lookup gives the closest of the tables that were listed, the first among equals of
   a format, whatever was looked up before it and with whatever override: Tabledirs, with
   its index and its caches (tabledir.cc), implements TableLookup, which remembers
   nothing. *)
THEOREM LookupAsPromised == Spec => AsPromised
<1>1. Init => WorldOK /\ CacheInv /\ FirstInv /\ Promise!Init
  <2>1. Init => FirstInv /\ Promise!Init
    BY DEF Init, FirstInv, FoundFirst, CachedFirst, NoCache, Promise!Init
  <2> QED
    BY <2>1, InitCache
<1>2. (WorldOK /\ CacheInv /\ FirstInv) /\ [Next]_vars => (WorldOK /\ CacheInv /\ FirstInv)'
  BY StepWorld, StepCache, StepFirst
<1>3. (WorldOK /\ CacheInv /\ FirstInv) /\ [Next]_vars
        => [Promise!Next]_<<IF phase = "list" THEN NoListing ELSE listing, asked, answer>>
  BY StepPromised
<1> QED
  BY <1>1, <1>2, <1>3, PTL DEF Spec, AsPromised, Promise!Spec

----------------------------------------------------------------------------
(* The part of TypeOK that WorldOK and CacheInv do not have. *)
Settings ==
  /\ override \in Overrides \cup {NONE}
  /\ phase \in {"idle", "list", "search", "load_b", "load_d", "undefined"}
  /\ reading \in Nat \ {0}
  /\ asked \in TableID \cup {NoTable}
  /\ {answer, btable, dtable} \subseteq Tables \cup {NoTable}
  /\ failed \in BOOLEAN

(* A search is for an identifier, and has found tables. *)
LEMMA QueryType ==
  ASSUME CacheInv
  PROVE  /\ query.at \in Nat \ {0} /\ query.want \in TableID \cup {NoTable}
         /\ {query.bufr, query.crex} \subseteq Tables \cup {NoTable}
<1>1. CASE phase = "search"
  <2>1. \A format, best : BestOf(query.want, Seen(query.at), format, best)
                            => best \in Tables \cup {NoTable}
    <3>1. Seen(query.at) \subseteq Tables
      BY <1>1, LenProperties DEF CacheInv, Listed, Seen
    <3> QED
      BY <3>1 DEF BestOf
  <2> QED
    BY <1>1, <2>1 DEF CacheInv, Searching
<1>2. CASE phase # "search"
  BY <1>2 DEF CacheInv, Pending, Asking, NoQuery
<1> QED
  BY <1>1, <1>2

(* So has its result. *)
LEMMA ResultType ==
  ASSUME CacheInv
  PROVE  Result \in Tables \cup {NoTable}
  BY QueryType DEF Result, ChooseBest

(* One step per action. *)
LEMMA StepSettings ==
  ASSUME CacheInv, WorldOK, Settings, [Next]_vars
  PROVE  Settings'
<1> USE DEF world, index, lookup, tables
<1>1. ASSUME NEW d \in Dirs, AddDirectory(d)
      PROVE  Settings'
  BY <1>1 DEF AddDirectory, Settings
<1>2. ASSUME NEW id \in Wanted, FindBufr(id) \/ FindCrex(id)
      PROVE  Settings'
  <2>1. Overridden(id) \in TableID
    BY OverriddenType DEF WorldOK
  <2>2. ASSUME NEW want \in DOMAIN cache
        PROVE  cache[want] \in Tables
    <3>1. listing \in Seq(Tables) /\ cache[want] \in ToSet(listing)
      BY DEF CacheInv, CachedIsBest, Listed
    <3> QED
      BY <3>1, LenProperties DEF ToSet
  <2>3. ASSUME NEW want \in TableID, FindListed(want), UNCHANGED <<override, tables>>
        PROVE  Settings'
    BY <2>2, <2>3 DEF FindListed, Settings
  <2> QED
    BY <1>2, <2>1, <2>3 DEF FindBufr, FindCrex, StartListing, Settings
<1>3. CASE FindByName
  BY <1>3 DEF FindByName, StartListing, Settings
<1>4. CASE Listing
  BY <1>4 DEF Listing, ReadEntry, NextDirectory, EndListing, Settings
<1>5. CASE Consider
  <2>1. UNCHANGED <<override, phase, reading, asked, answer, btable, dtable, failed>>
    BY <1>5 DEF Consider
  <2> QED
    BY <2>1 DEF Settings
<1>6. CASE Conclude
  <2>1. query.want \in TableID /\ Result \in Tables \cup {NoTable}
    BY <1>6, ResultType DEF Conclude, CacheInv, Searching
  <2>2. /\ asked' = query.want /\ answer' = Result /\ phase' \in {"idle", "load_b"}
        /\ failed' = (failed \/ Result = NoTable)
        /\ UNCHANGED <<override, reading, btable, dtable>>
    BY <1>6 DEF Conclude
  <2> QED
    BY <2>1, <2>2 DEF Settings
<1>7. CASE LoadB \/ LoadD
  BY <1>7 DEF LoadB, LoadD, Settings
<1>8. CASE SetOverride \/ Install
  BY <1>8 DEF SetOverride, Install, Settings
<1>9. CASE UNCHANGED vars
  BY <1>9 DEF vars, Settings
<1> QED
  BY <1>1, <1>2, <1>3, <1>4, <1>5, <1>6, <1>7, <1>8, <1>9 DEF Next, Loading

(* Whatever is asked and installed, every variable keeps its type: a search is for an
   identifier of octets, whatever the option overrides it with, and an answer is a table
   of one of the directories. *)
THEOREM TabledirsTypeCorrect == Spec => []TypeOK
<1>1. Init => WorldOK /\ CacheInv /\ Settings
  <2>1. Init => /\ override = NONE /\ phase = "idle" /\ reading = 1 /\ failed = FALSE
                /\ asked = NoTable /\ answer = NoTable /\ btable = NoTable
                /\ dtable = NoTable
    BY DEF Init
  <2>2. Init => Settings
    <3> SUFFICES ASSUME Init PROVE Settings
      OBVIOUS
    <3>1. failed \in BOOLEAN
      BY <2>1
    <3>2. reading \in Nat \ {0}
      BY <2>1
    <3>3. {answer, btable, dtable} \subseteq Tables \cup {NoTable}
      BY <2>1
    <3> QED
      BY <2>1, <3>1, <3>2, <3>3 DEF Settings
  <2> QED
    BY <2>2, InitCache
<1>2. (WorldOK /\ CacheInv /\ Settings) /\ [Next]_vars => (WorldOK /\ CacheInv /\ Settings)'
  BY StepWorld, StepCache, StepSettings
<1>3. WorldOK /\ CacheInv /\ Settings => TypeOK
  BY QueryType DEF WorldOK, CacheInv, Listed, Settings, TypeOK
<1> QED
  BY <1>1, <1>2, <1>3, PTL DEF Spec
=============================================================================
