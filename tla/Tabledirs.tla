----------------------------- MODULE Tabledirs ------------------------------
(***************************************************************************)
(* Tabledirs (internals/tabledir.cc), which finds the tables of a bulletin *)
(* in a list of directories, and Tables (tables.cc), which loads them.     *)
(* The directories are listed once, and what is found is cached until a    *)
(* directory is added.                                                     *)
(*                                                                         *)
(* A table is a pair of files, B and D, of one name: [dir, id].  Threads   *)
(* are not modelled: the library says it needs work for them               *)
(* (TODO-threads).                                                         *)
(***************************************************************************)
EXTENDS TableIds, Integers, Sequences, SequencesExt

CONSTANTS
  Dirs,       (* pathnames of directories                                  *)
  Files,      (* identifiers that the names of table files stand for       *)
  Wanted,     (* identifiers that bulletins ask for                        *)
  Overrides,  (* values given to var_master_table_version_override         *)
  Installed,  (* the files of each directory at the start                  *)
  Broken,     (* files that cannot be read: pairs of "B" or "D" and table  *)
  Installable,(* Bound: files that may be added, pairs of directory and id *)
  NoTable, NoListing

ASSUME IdsAssumption == Files \cup Wanted \subseteq TableID

(* The name of a CREX table has its edition and its version, of two digits. *)
ASSUME NamesAssumption ==
  \A id \in Files : id.format = "crex" =>
    /\ id.mtv < 100 /\ id.mtv_bufr = 0 /\ id.local = 0
    /\ id.centre = 0 /\ id.subcentre = 0

NONE == 0
NEWEST == -1

ASSUME OverridesAssumption == Overrides \subseteq Int

VARIABLES
  disk,       (* the files of each directory                               *)
  dirs,       (* Tabledirs::dirs                                           *)
  listing,    (* the tables of the index, or NoListing                     *)
  cache,      (* Index::bufr_cache and crex_cache                          *)
  override,   (* options::var_master_table_version_override                *)
  phase,      (* "idle", "list", "search", "load_b", "load_d", "undefined" *)
  reading,    (* the directory that is being listed                        *)
  query,      (* the lookup under way: what is wanted, the table to
                 consider, and the best of each format                     *)
  asked, answer,         (* the last lookup that ended, and its result     *)
  btable, dtable,        (* of a Tables, and whether its last load threw   *)
  failed

vars == <<disk, dirs, listing, cache, override, phase, reading, query, asked, answer,
          btable, dtable, failed>>

(* The variables of Tabledirs, of its index, of a lookup and of Tables. *)
index == <<listing, reading, cache>>
lookup == <<query, asked, answer>>
tables == <<btable, dtable, failed>>
world == <<disk, dirs, override>>

Tables == [dir : Dirs, id : Files]

ASSUME NothingAssumption == NoTable \notin TableID \cup Tables

ASSUME NoListingAssumption == NoListing \notin Seq(Tables)

ASSUME DiskAssumption == /\ Installed \in [Dirs -> SUBSET Files]
                         /\ Installable \subseteq Dirs \X Files

NoQuery == [want |-> NoTable, at |-> 1, bufr |-> NoTable, crex |-> NoTable]

NoCache == [id \in {} |-> NoTable]

----------------------------------------------------------------------------
(* Mutant: what was found is kept. *)
AddDirectoryKeepingCache(d) ==
  /\ phase = "idle"
  /\ IF d \in ToSet(dirs) THEN UNCHANGED <<dirs, listing, cache>>
     ELSE dirs' = Append(dirs, d) /\ listing' = NoListing /\ UNCHANGED cache
  /\ UNCHANGED <<disk, override, phase, reading, lookup, tables>>

(* Tabledirs::add_directory *)
AddDirectory(d) ==
  /\ phase = "idle"
  /\ IF d \in ToSet(dirs) THEN UNCHANGED <<dirs, listing, cache>>
     ELSE dirs' = Append(dirs, d) /\ listing' = NoListing /\ cache' = NoCache
  /\ UNCHANGED <<disk, override, phase, reading, lookup, tables>>

(* Index::Index and Dir::refresh: readdir has no order. *)
Unread(d) == [dir : {d}, id : disk[d]] \ ToSet(listing)

StartListing ==
  /\ phase' = "list"
  /\ listing' = <<>>
  /\ reading' = 1

ReadEntry ==
  /\ phase = "list" /\ reading \in DOMAIN dirs
  /\ \E t \in Unread(dirs[reading]) : listing' = Append(listing, t)
  /\ UNCHANGED <<world, cache, phase, reading, lookup, tables>>

NextDirectory ==
  /\ phase = "list" /\ reading \in DOMAIN dirs /\ Unread(dirs[reading]) = {}
  /\ reading' = reading + 1
  /\ UNCHANGED <<world, listing, cache, phase, lookup, tables>>

EndListing ==
  /\ phase = "list" /\ reading \notin DOMAIN dirs
  /\ phase' = IF query = NoQuery THEN "idle" ELSE "search"
  /\ UNCHANGED <<world, index, lookup, tables>>

(* Tabledirs::find, by name: of interest here because it lists the directories. *)
FindByName ==
  /\ phase = "idle" /\ listing = NoListing
  /\ StartListing
  /\ UNCHANGED <<world, cache, lookup, tables>>

----------------------------------------------------------------------------

Overridden(id) ==
  IF override = NONE THEN id
  ELSE [id EXCEPT !.mtv = IF override = NEWEST THEN Newest ELSE override % 256]

(* A cached answer, or a search from the first table. *)
Search(want) == query' = [NoQuery EXCEPT !.want = want]

FindListed(want) ==
  /\ IF want \in DOMAIN cache
       THEN /\ phase' = "load_b"
            /\ asked' = want /\ answer' = cache[want]
            /\ UNCHANGED query
       ELSE /\ phase' = "search"
            /\ Search(want)
            /\ UNCHANGED <<asked, answer>>
  /\ UNCHANGED <<listing, reading>>

(* Tables::load_bufr and Tabledirs::find_bufr *)
FindBufr(id) ==
  /\ phase = "idle" /\ id.format = "bufr"
  /\ IF listing # NoListing THEN FindListed(Overridden(id))
     ELSE StartListing /\ Search(Overridden(id)) /\ UNCHANGED <<asked, answer>>
  /\ UNCHANGED <<world, cache, tables>>

(* Tables::load_crex and Tabledirs::find_crex, which follows a null pointer when
   nobody has listed the directories. *)
FindCrex(id) ==
  /\ phase = "idle" /\ id.format = "crex"
  /\ IF listing # NoListing THEN FindListed(Overridden(id))
     ELSE phase' = "undefined" /\ UNCHANGED <<listing, reading, lookup>>
  /\ UNCHANGED <<world, cache, tables>>

(* Mutant: of two that are equally close the second is taken. *)
LastOfEquals(best, t) ==
  IF best # NoTable /\ Closer(query.want, best.id, t.id) THEN best ELSE t

(* Query::choose_best *)
ChooseBest(best, t) ==
  IF best = NoTable \/ Closer(query.want, t.id, best.id) THEN t ELSE best

(* Query::consider_table *)
Consider ==
  /\ phase = "search" /\ query.at \in DOMAIN listing
  /\ LET t == listing[query.at]
         next == [query EXCEPT !.at = @ + 1]
     IN query' = IF ~Acceptable(query.want, t.id) THEN next
                 ELSE IF t.id.format = "bufr"
                   THEN [next EXCEPT !.bufr = ChooseBest(@, t)]
                   ELSE [next EXCEPT !.crex = ChooseBest(@, t)]
  /\ UNCHANGED <<world, index, phase, asked, answer, tables>>

(* Query::result *)
Result ==
  IF query.bufr = NoTable THEN query.crex
  ELSE IF query.crex = NoTable THEN query.bufr
  ELSE ChooseBest(query.bufr, query.crex)

CacheResult ==
  IF Result = NoTable THEN cache
  ELSE [id \in (DOMAIN cache) \cup {query.want} |->
          IF id = query.want THEN Result ELSE cache[id]]

(* The end of find_bufr and find_crex; load_bufr and load_crex throw when there is
   nothing. *)
Conclude ==
  /\ phase = "search" /\ query.at \notin DOMAIN listing
  /\ asked' = query.want /\ answer' = Result
  /\ cache' = CacheResult
  /\ phase' = IF Result = NoTable THEN "idle" ELSE "load_b"
  /\ failed' = (failed \/ Result = NoTable)
  /\ query' = NoQuery
  /\ UNCHANGED <<world, listing, reading, btable, dtable>>

----------------------------------------------------------------------------
(* Vartable::load_bufr and load_crex.  That a file is read once and kept for ever
   cannot be seen, as files do not change. *)
LoadB ==
  /\ phase = "load_b"
  /\ IF <<"B", answer>> \in Broken
       THEN phase' = "idle" /\ failed' = TRUE /\ UNCHANGED btable
       ELSE phase' = "load_d" /\ btable' = answer /\ UNCHANGED failed
  /\ UNCHANGED <<world, index, lookup, dtable>>

(* DTable::load_bufr and load_crex *)
LoadD ==
  /\ phase = "load_d"
  /\ IF <<"D", answer>> \in Broken
       THEN failed' = TRUE /\ UNCHANGED dtable
       ELSE failed' = FALSE /\ dtable' = answer
  /\ phase' = "idle"
  /\ UNCHANGED <<world, index, lookup, btable>>

(* LocalOverride, and its end. *)
SetOverride ==
  /\ phase = "idle"
  /\ override' \in Overrides
  /\ UNCHANGED <<disk, dirs, index, phase, lookup, tables>>

(* Somebody installs a table. *)
Install ==
  /\ \E f \in Installable : disk' = [disk EXCEPT ![f[1]] = @ \cup {f[2]}]
  /\ UNCHANGED <<dirs, override, index, phase, lookup, tables>>

Init ==
  /\ disk = Installed /\ dirs = <<>> /\ override = NONE
  /\ listing = NoListing /\ reading = 1 /\ cache = NoCache
  /\ phase = "idle"
  /\ query = NoQuery /\ asked = NoTable /\ answer = NoTable
  /\ btable = NoTable /\ dtable = NoTable /\ failed = FALSE

Listing == ReadEntry \/ NextDirectory \/ EndListing
Loading == Consider \/ Conclude \/ LoadB \/ LoadD

Next ==
  \/ \E d \in Dirs : AddDirectory(d)
  \/ \E id \in Wanted : FindBufr(id) \/ FindCrex(id)
  \/ FindByName \/ Listing \/ Loading
  \/ SetOverride \/ Install

Spec == Init /\ [][Next]_vars /\ WF_vars(Listing \/ Loading)

----------------------------------------------------------------------------
(* Every variable has its type. *)
TypeOK ==
  /\ disk \in [Dirs -> SUBSET Files]
  /\ dirs \in Seq(Dirs)
  /\ listing \in Seq(Tables) \cup {NoListing}
  /\ override \in Overrides \cup {NONE}
  /\ phase \in {"idle", "list", "search", "load_b", "load_d", "undefined"}
  /\ reading \in Nat \ {0} /\ query.at \in Nat \ {0}
  /\ query.want \in TableID \cup {NoTable} /\ asked \in TableID \cup {NoTable}
  /\ {query.bufr, query.crex, answer, btable, dtable} \subseteq Tables \cup {NoTable}
  /\ failed \in BOOLEAN
  /\ DOMAIN cache \subseteq TableID

(* A cached table is in the index and acceptable for the identifier it is cached for,
   and no table of the index is closer. *)
CachedIsBest ==
  \A want \in DOMAIN cache :
    /\ listing # NoListing
    /\ cache[want] \in ToSet(listing)
    /\ Acceptable(want, cache[want].id)
    /\ \A t \in ToSet(listing) :
         Acceptable(want, t.id) => ~Closer(want, t.id, cache[want].id)

(* A lookup finds the best of the tables that were listed, whatever was looked up
   before and with whatever override; see TableLookup. *)
Promise == INSTANCE TableLookup
             WITH listing <- IF phase = "list" THEN NoListing ELSE listing
AsPromised == Promise!Spec

=============================================================================
