----------------------------- MODULE Vartables ------------------------------
(***************************************************************************)
(* The tables that the program has loaded (vartable.cc, dtable.cc,         *)
(* internals/vartable.cc).  They are read once for each pathname and kept  *)
(* as long as the program runs, since pointers to what they hold are       *)
(* handed out and never counted.  A B table grows: each alteration of an   *)
(* entry that is asked for is added to its chain.                          *)
(*                                                                         *)
(* Threads are not modelled: the library says it needs work for them       *)
(* (TODO-threads).                                                         *)
(***************************************************************************)
EXTENDS TableFiles

CONSTANTS
  Path, DPath,  (* pathnames of B and D tables *)
  Contents, DContents, (* the files that there may be, or NoFile *)
  Replaceable,  (* Bound: pathnames whose files are replaced *)
  Wanted,       (* names and table ids that get_bufr and get_crex look for *)
  Named,        (* the pathname that Tabledirs finds for each, or NoFile *)
  NoFile, NotLoaded,
  Alterations,  (* what operators change: scale, bit_len, bit_ref *)
  MaxScale,     (* 16 in the code *)
  MaxEntries    (* Bound: entries in memory *)

VARIABLES
  disk,     (* the file at each pathname *)
  tables,   (* B tables, by format and pathname: chains of pointers to entries *)
  dtables,  (* D tables, likewise *)
  memory    (* the entries: a pointer is an index *)

library == <<disk, tables, dtables, memory>>

Format == {"bufr", "crex"}
BTable == Format \X Path
DTable == Format \X DPath

Loaded == {t \in BTable : tables[t] # NotLoaded}
Pointer == DOMAIN memory

----------------------------------------------------------------------------
(* Loading *)

Parsed(format, file) ==
  IF file = NoFile THEN Refused
  ELSE IF format = "bufr" THEN LoadBufr(file) ELSE LoadCrex(file)

IsSequence(s) == Len(s) \in Nat /\ s = [i \in 1..Len(s) |-> s[i]]

(* B and D tables have pathnames of their own, what is found is a B table, and a
   file is a sequence of lines: those of B tables have the code of a descriptor, and
   so have those that begin a sequence of a D table, unless it cannot be read. *)
ASSUME FilesAssumption ==
  /\ Path \cap DPath = {}
  /\ \A name \in Wanted : Named[name] \in Path \cup {NoFile}
  /\ \A file \in Contents \ {NoFile} :
       /\ IsSequence(file)
       /\ \A i \in 1..Len(file) : file[i].code \in Nat \X Nat \X Nat
  /\ \A file \in DContents \ {NoFile} :
       /\ IsSequence(file)
       /\ \A i \in Starts(file) : file[i].code \in (Nat \X Nat \X Nat) \cup {NoCode}

Fits(entries) == Len(memory) + Len(entries) <= MaxEntries

(* load_bufr and load_crex: a file that is refused leaves nothing behind. *)
Load(t) ==
  /\ tables[t] = NotLoaded
  /\ LET entries == Parsed(t[1], disk[t[2]])
     IN /\ entries # Refused /\ Fits(entries)
        /\ memory' = memory \o entries
        /\ tables' = [tables EXCEPT ![t] =
             [file |-> disk[t[2]],
              chains |-> [i \in DOMAIN entries |-> <<Len(memory) + i>>]]]
  /\ UNCHANGED <<disk, dtables>>

(* The table is there after load, whether it was before or not. *)
HaveTable(t) == IF t \in Loaded THEN UNCHANGED library ELSE Load(t)

LoadSequences(t) ==
  /\ dtables[t] = NotLoaded
  /\ LET file == disk[t[2]]
     IN /\ file # NoFile /\ LoadD(file) # Refused
        /\ dtables' = [dtables EXCEPT ![t] = [file |-> file, read |-> LoadD(file)]]
  /\ UNCHANGED <<disk, tables, memory>>

(* get_bufr and get_crex, by name or by id *)
Get(format, name) == Named[name] # NoFile /\ HaveTable(<<format, Named[name]>>)

----------------------------------------------------------------------------
(* Asking *)

HeadCodes(t) ==
  [i \in DOMAIN tables[t].chains |-> memory[tables[t].chains[i][1]].info.code]

QueryEntry(t, code) == Search(HeadCodes(t), code)
ContainsCode(t, code) == QueryEntry(t, code) # 0
Query(t, code) == tables[t].chains[QueryEntry(t, code)][1]

Is(entry, a) ==
  /\ entry.info.scale = a.scale /\ entry.info.bit_len = a.bit_len
  /\ entry.bit_ref = a.bit_ref

(* Mutant: only the entry of the table is looked at. *)
MatchingFirst(chain, a) == {i \in DOMAIN chain : i = 1 /\ Is(memory[chain[i]], a)}

(* get_alteration: the pointers of a chain that are what is asked. *)
Matching(chain, a) == {i \in DOMAIN chain : Is(memory[chain[i]], a)}

Alterable(entry, a) ==
  ~IsText(entry.info.type) => a.scale \in -MaxScale..MaxScale /\ a.bit_len <= WordBits

Altered(entry, a) ==
  {Entry(info, a.bit_ref) :
     info \in SetBufr(entry.info.code, entry.info.unit, a.bit_len, a.bit_ref, a.scale)}

(* Mutant: the chain of the entry is forgotten. *)
LinkAlone(chain, p) == <<chain[1], p>>

(* A new entry goes right after the one of the table, and has the others after it. *)
LinkAfterFirst(chain, p) == <<chain[1], p>> \o Tail(chain)

(* query_altered when there is no such alteration yet: otherwise it only reads. *)
QueryAltered(t, code, a) ==
  LET i == QueryEntry(t, code)
      chain == tables[t].chains[i]
      start == memory[chain[1]]
  IN /\ i # 0
     /\ Matching(chain, a) = {}
     /\ Alterable(start, a)
     /\ Len(memory) < MaxEntries
     /\ \E entry \in Altered(start, a) : memory' = Append(memory, entry)
     /\ tables' = [tables EXCEPT ![t].chains[i] = LinkAfterFirst(chain, Len(memory) + 1)]
     /\ UNCHANGED <<disk, dtables>>

(* iterate: all the entries, each followed by its alterations. *)
Iterate(t) == FlattenSeq(tables[t].chains)

----------------------------------------------------------------------------
(* Somebody replaces the file of a table. *)
Replace(p, file) ==
  /\ p \in Replaceable /\ disk[p] # file
  /\ disk' = [disk EXCEPT ![p] = file]
  /\ UNCHANGED <<tables, dtables, memory>>

InitLibrary ==
  /\ disk \in {d \in [Path \cup DPath -> Contents \cup DContents] :
                 /\ \A p \in Path : d[p] \in Contents
                 /\ \A p \in DPath : d[p] \in DContents}
  /\ tables = [t \in BTable |-> NotLoaded]
  /\ dtables = [t \in DTable |-> NotLoaded]
  /\ memory = <<>>

NextLibrary ==
  \/ \E t \in BTable : Load(t)
  \/ \E t \in DTable : LoadSequences(t)
  \/ \E format \in Format, name \in Wanted : Get(format, name)
  \/ \E t \in Loaded, a \in Alterations, i \in 1..MaxEntries :
       /\ i \in DOMAIN HeadCodes(t)
       /\ QueryAltered(t, HeadCodes(t)[i], a)
  \/ \E p \in Path, file \in Contents : Replace(p, file)
  \/ \E p \in DPath, file \in DContents : Replace(p, file)

SpecLibrary == InitLibrary /\ [][NextLibrary]_library

----------------------------------------------------------------------------
TypeOfLibrary ==
  /\ \A t \in Loaded : /\ tables[t].file \in Contents \ {NoFile}
                       /\ \A i \in DOMAIN tables[t].chains :
                            tables[t].chains[i] \in Seq(Pointer) \ {<<>>}
  /\ \A t \in DTable : dtables[t] = NotLoaded \/ dtables[t].file \in DContents \ {NoFile}
  /\ Len(memory) <= MaxEntries

(* A B table holds what its file said when it was read, each code is found, and
   every chain is the entry of the table and then its alterations, each there
   once and nowhere else. *)
Chained ==
  \A t \in Loaded :
    /\ [i \in DOMAIN tables[t].chains |-> memory[tables[t].chains[i][1]]]
         = Parsed(t[1], tables[t].file)
    /\ \A i \in DOMAIN tables[t].chains : QueryEntry(t, HeadCodes(t)[i]) = i
    /\ IsInjective(Iterate(t))
    /\ \A u \in Loaded \ {t} : Range(Iterate(t)) \cap Range(Iterate(u)) = {}
    /\ \A i \in DOMAIN tables[t].chains :
         LET chain == tables[t].chains[i]
         IN \A j, k \in DOMAIN chain :
              /\ memory[chain[j]].info.code = HeadCodes(t)[i]
              /\ \A a \in Alterations :
                   Is(memory[chain[j]], a) /\ Is(memory[chain[k]], a) => j = k

(* A D table holds what its file said, and finds it when its codes grow. *)
Expands ==
  \A t \in DTable : dtables[t] # NotLoaded =>
    HasWhatIsThere(dtables[t].read, dtables[t].file)

(* What was handed out stays as it was, and the same question has the same answer
   for ever: whatever is loaded, replaced on disk or altered in between. *)
AnswersStay ==
  /\ \A p \in Pointer : memory'[p] = memory[p]
  /\ \A t \in Loaded :
       /\ tables'[t].file = tables[t].file
       /\ \A i \in DOMAIN tables[t].chains, a \in Alterations :
            LET now == tables[t].chains[i]
                next == tables'[t].chains[i]
            IN /\ next[1] = now[1]
               /\ {now[j] : j \in Matching(now, a)}
                    \subseteq {next[j] : j \in {j \in DOMAIN next : Is(memory'[next[j]], a)}}

AnswersNeverChange == [][AnswersStay]_library
=============================================================================
