# Verification of wreport

TLA+ models of wreport, the C++ library that reads and writes weather reports
in the WMO BUFR and CREX formats. Each module models a part of `src/wreport`;
TLC checks it on small instances, and TLAPS proves most of the results about
bitmaps, bulletins, compressed sections, streams and tables for every size. Run the tools here: `tlc -config X.cfg M`, `tlapm M.tla`.
`PROJECT.json` has, for each definition, the lines that it models, and the list
of the hazards (what is hard to test here) with the properties against them.

Contents: [the system](#the-system), [the modules](#the-modules),
[the runs](#the-runs), [what the code does otherwise](#what-the-code-does-otherwise),
[bounds](#bounds), [fairness](#fairness), [proofs](#proofs),
[what is not modelled](#what-is-not-modelled), [plan](#plan).

## The system

A message is a header, a list of *data descriptors*, and one data section that
holds one or several *subsets*. Descriptors are codes of four kinds: B is a
value with an entry in a table, R a replication, C an operator that changes
what follows, D a sequence to expand. **The data says nothing of itself**:
where a field begins, how wide it is and what it means come only from running
the descriptors. Reading and writing are the same run with another subclass, and
the main thing that can go wrong is that the two disagree.

```
 file ──read──▶ bytes ──decode header──▶ Bulletin ──load_tables──▶ Tables ◀── Tabledirs ◀── directories
                  ▲                       │ datadesc                  │ B, D
                  │                       ▼                           ▼
 file ◀─write── bytes ◀──encode────── Interpreter: stack, modifiers, associated field, Bitmaps
                                          │ virtual define_*
                   ┌──────────────────────┼─────────────────────────┐
              DataSectionDecoder      DDSEncoder              validator, printer
           (one subset, or all at once)  (one subset)
                   ▼                      ▲
                Subsets of Var, with attributes
```

| part | source | state | operations | what makes it correct |
|---|---|---|---|---|
| Interpreter | `bulletin/interpreter.cc` | stack of descriptors, C modifiers in force, bitmaps | `run`, `define_*` called in a subclass | decoder and encoder have the same modifiers in force at each field; the stack comes back to what it was; it ends |
| Data present bitmaps | `bulletin/bitmaps.cc` | current and last `Bitmap`, an iterator each | `define`, `next`, `reuse_last`, `discard_last` | a value lands on the variable that the bitmap names, each once, in order; objects are owned once |
| Associated fields | `bulletin/associated_fields.cc` | width, significance, `skip_missing` | `make_attribute`, `get_attribute` | what was read with a variable is written with it |
| BUFR decoder | `bufr/decoder.cc`, `bufr/input.cc` | read position, subsets being filled | `define_*` for one subset, or for all of a compressed message | every bit read once, with its width; compressed is as if each subset were alone |
| BUFR encoder | `bufr_encoder.cc`, `buffers/bufr.cc`, `bulletin/internals.cc` | output, index of the next variable | `define_*` over a subset | accepts what the decoder made; the bits give it back |
| BUFR headers | `bufr/decoder.cc`, `bufr_encoder.cc`, `bufr/input.cc` | section starts, header fields | `decode_header`, `encode_sec*` | sections tile the message; headers survive |
| CREX codec | `crex_decoder.cc`, `crex_encoder.cc`, `buffers/crex.cc` | cursor, check digit | `decode`, `encode` | as for BUFR, in text |
| Streams | `bulletin.cc` | read position, automata | `BufrBulletin::read`, `write`, the same of CREX | each message once, whole, whatever is around it |
| Bulletin, Subset | `bulletin.cc`, `subset.cc` | header fields, vectors, its `Tables` | `clear`, `obtain_subset`, `load_tables`, `diff`, `append_*_dpb` | used again as if new; what is lost on the way shows in `diff` |
| Var, Varinfo | `var.cc`, `varinfo.cc`, `internals/varinfo.cc` | value, unset or not, chain of attributes | assignment, `seta`, `set*`, `enq*`; binary coding, ranges | values stay in range; one attribute for each code, sorted; nothing shared |
| Unit conversion | `conv.cc` | repository of pairs of units | `convert_units`, code tables | a code comes back from its conversion |
| Visitors | `bulletin/dds-*.cc`, `Printer` | what they listed or found | `run` over descriptors, with or without data | they go where a decoder goes; what validates is encoded |
| Vartable, DTable | `internals/vartable.cc`, `vartable.cc`, `dtable.cc` | sorted entries, chains of altered ones | `query`, `query_altered` | the entry with the alterations asked for, and pointers that stay good |
| Tables | `tables.cc` | B and D table; entries for bitmaps, characters, unknown descriptors | `load_bufr`, `load_crex`, `get_*` | B and D are of one version; an entry says what it was asked for |
| Tabledirs | `internals/tabledir.cc`, `tableinfo.cc`, `options.cc` | directories, index, caches, override | `add_directory`, `find_bufr`, `find_crex`, `find` | the closest table there is, whatever was asked before |
| Python module | `python/` | objects and their counts of references | constructors, items, attributes, conversion of values | each object is counted by those who refer to it |
| notes, Lua, utilities, `wrep` | `notes.cc`, `lua.cc`, `utils/`, `src/` | little | | |

**What is hard.** The library has no threads of its own (`TODO-threads` says
what would be needed) and keeps nothing on disk; what is hard is long sequences:
an operator met many descriptors after another one, a bitmap used again after
the subset has grown, one `Var` used for all the subsets, a cache that outlives
what it was made from, an automaton that has matched half of something. Data
comes from files that may be cut short, tables from directories that change
and may lack a file of a pair.  Pointers to entries of tables are handed out and never
counted, attributes are an owning list, and the Python module counts references
by hand.

## The modules

| module | models | state and actions in the code |
|---|---|---|
| `BitmapRefs` | what a bitmap means: the positions it declares present | the result of `Bitmap::Bitmap`, as a set |
| `BitmapWalk` | the loop of that constructor | the cursors `b_cur` and `s_cur`; an action for each part of the loop |
| `Bitmaps` | `Bitmaps` in a run of the interpreter | `current`, `last`, `pending_definitions`; one action for each operator; `live` is the heap |
| `Fields` | the bits of one value: `decode_*`, `append_*`, binary coding, associated fields, reference values | operators |
| `Interpreter` | the stack and the modifiers | `opcode_stack`, `c_*`, `associated_field`; `Advance`, `Push` and the like are operators |
| `Transcode` | decode, edit, validate, print, encode, decode again, one subset; composes `Interpreter` and an instance of `Bitmaps` | an action for each kind of descriptor; `phase` says whose `define_*` runs |
| `SectionVisitors` | `Transcode` with, before it, `Printer` and `ScanFeatures` over the same descriptors | `listing` and `features`, what the two collect |
| `SubsetTable` | abstract: subsets that grow together, one variable each | the promise of a compressed section |
| `Compressed` | `CompressedDecoderTarget`, with the loops over subsets one subset at a time | `Begin`, `Deliver`, `End` of an item; `var` is the one `Var` that goes around |
| `BufrSections` | the octets of sections 0 to 5, by edition: `Encode`, and what `decode_header` and `decode_data` make of octets | operators over sequences of octets; `Over` puts the members that were read over a bulletin's |
| `Bulletins` | a `BufrBulletin` between programs: create, fill, clear, load, encode, decode, relay, cut; composes `BufrSections` | `bulletin` and its `tables`; `clear` is two actions, with the freed infos in between |
| `CrexText` | one value in the characters of a CREX message: `append_*`, `parse_*` | operators over sequences of characters |
| `Crex` | a CREX message written, sent, damaged, read; composes `Interpreter` and `CrexText` | `data` are its characters, `cur` the cursor of `CrexInput`; an action for each word of the header, value, factor, end |
| `TableIds` | the order of table identifiers: acceptable, closer | `BufrTableID`, `CrexTableID` |
| `TableLookup` | abstract: a lookup gives the best of what was listed | the promise of `find_bufr`, `find_crex` |
| `Tabledirs` | directories listed entry by entry, searched table by table, caches, override, loading of pairs | an action for each, `phase` says which loop is under way |
| `Varinfos` | ranges and lengths of an info, rounding of measures | `_Varinfo::set_*`, `compute_range`, `encode_decimal`, `decode_decimal` |
| `Units` | `convert_units` and the code tables of `conv.cc` | functions whose domain is what the code accepts |
| `VarSetters` | what a variable holds after each `set*`, `set` from a `Var`, under each option | operators from a value to a set of outcomes |
| `VarValues` | abstract: variables as values with maps of attributes; what a call may store is a parameter | the promise of `Var` |
| `Vars` | `Var` as objects, buffers and pointers | an action for each public function, on the memory `mem` |
| `TableFiles` | the parsing of lines of B and D files, and the search of a code | operators over sequences of lines; the search and the two loads are recursive functions, one call for each halving or line |
| `Vartables` | loaded B and D tables, their caches, chains of altered entries; composes `TableFiles` | `tables`, `dtables`, `memory`; `disk` changes under them |
| `PyObjects` | the Python module, over `Vartables` and `VarSetters` | `objs` with their counts, `names` of the program; one action for each statement |
| `Streams` | files of messages, read byte by byte | `SeekStep`, `ScanStep` are the automata; `ReadHead`, `ReadRest` the calls of `fread` |

`MC*` modules give the constants for TLC. `*Proofs` modules have the theorems.

How they fit: `Streams` cuts the message that `BufrSections` and `Crex` lay out;
`Bulletins` has one octet for a subset where `Transcode` (one subset) and
`Compressed` (all) have its fields; `Transcode` takes the tables that `Tabledirs`
has chosen and `Vartables` has read; what it puts in subsets are the variables
of `Vars`. Components that share state while they run are composed
(`Interpreter` with `Bitmaps`, `Vartables` with `PyObjects`); the others meet at a
value that one has finished.

A field in `Fields` is a number and a width; a decimal value is the integer
that `Var` keeps; strings are the number that their bytes make. In `CrexText` and
`Vars`, where what a string begins with matters, they are sequences of characters.
Definitions that begin with "Mutant" in their comment are never used: they say
what a plausible bug would make of the definition after them, and each breaks
the property that `PROJECT.json` gives with it.

## The runs

| run | question | what it shows |
|---|---|---|
| `bitmaps` | does any sequence of variables and bitmap operators make `next()` name a wrong variable? | no: positions are those of the bitmap's own anchor (`Aligned`), served in order (`InOrder`), a bitmap is used again only when complete (`HandedOverWhole`); no leak, no double delete while no constructor throws (`Ownership`) |
| `bitmap_walk` | does the constructor's loop compute those positions? | yes, for every subset, bits and anchor (`ReturnsRefs`), and it ends (`Ends`) |
| `transcode` | can the encoder write what the decoder read, and is it then read as the same? do the visitors go where they go? | decoder and encoder are never out of step (`LayoutAgrees`); what was decoded, or built, comes back (`RoundTrip`), and for the templates of `Exact` bit by bit (`StreamPreserved`); what the validator accepts after any edit is encoded (`ValidIsEncoded`), but for one case, see below; listing and features are those of the section (`ListsWhole`), and the visitors fail only on what they leave out (`VisitorsFollow`); all ends (`Completes`) |
| `compressed` | is a compressed section decoded as if each subset were alone? | yes (`AsIfAlone`, a refinement of `SubsetTable`), for items whose fields always or never make an attribute; subsets keep the same shape, also half way through a loop (`SameShape`); each item is delivered (`Delivered`) |
| `bulletins` | what survives a relay? | a message is decoded when and only when it is whole (`DecodesWhole`), to what was written less what its edition cannot carry (`ReadsBack`); a second relay changes nothing (`Settled`); `diff` tells every loss but that of compression (`LossesNoted`); a cleared bulletin is as a new one but for `section_end` (`ClearedIsFresh`) |
| `clear_frees_infos` | do infos outlive the variables that point to them, as comments say? | no: see next |
| `crex` | does a CREX message come back, and is a damaged one told? | yes for one subset and values that are `Plain` (`ReadsBack`); a message that is cut or robbed of a numbered value is never accepted (`DamageRefused`); reading ends, but for one kind of cut (`Ends`) |
| `streams` | is every message of a file found, once and whole? | each is a piece of the file, after the one before (`Framed`), and is the next there is (`FindsNext`); what was written is read (`ReadsWhatWasWritten`), where signatures and `++` do not run into others |
| `tables` | is the table of a lookup the best there is, whatever came before? | yes: `CachedIsBest`, `AsPromised` (a refinement of `TableLookup`), in spite of caches, overrides and files installed later |
| `vartables` | do tables hold and find what their files say, for as long as the program runs? | B tables, with one chain for each entry and one entry for each alteration (`Chained`); D tables whose codes grow (`Expands`); answers and pointers never change (`AnswersNeverChange`) |
| `vars` | are variables the values that their users take them for? | yes, call by call (`AsValues`, a refinement of `VarValues`); nothing is shared, lost or freed twice (`Owned`); a value is in its domain whichever way it came (`InDomain`); equality and `diff` agree with values (`Comparable`). All of them up to an assignment between infos that do not go together (`Misassigned`), and such an assignment does break the memory (`BrokenIndeed`). Assumptions of `MCVars`, evaluated along: ranges can be coded in their bits, measures come back, code tables invert |
| `python` | are references counted right, and do values come back? | a count is the number of those who refer (`Balanced`), until a half-made object is freed; values come back or are refused (`ValuesComeBack`); `get_attrs` lists all attributes in order, each alone (`AttributesAreListed`) |

## What the code does otherwise

**`clear_frees_infos`**: `Bulletin::clear` clears the tables, which frees the
infos of bitmaps, character data and local descriptors, and then the subsets
(`bulletin.cc:71`); the destructors of their variables read the infos
(`var.cc`, to know whether there is a buffer). `varinfo.h` says that infos are
never deallocated. The run is the trace.

The others were met while modelling: they are why a property has a condition,
or an outcome has "error" or "undefined", and the modules say so there.

*Interpreter, bitmaps, BUFR.*
- A bitmap of which no bit says "present" is active, and `next()` dereferences
  an iterator at its end (`bitmaps.cc:71`). C37000 brings back the last bitmap
  *used to its end*, which need not be the last defined (`interpreter.cc:423`).
  The same bits under C22000 and then C23000 cannot be decoded, because bitmaps
  are found by their bits (`tables.cc:79`); two unknown local descriptors of one
  width cannot either (`tables.cc:114`).
- The encoder takes the reference value of a C03 override from the first
  variable with that descriptor, which may be from before it
  (`bufr_encoder.cc:115`); overrides are never cleared. A C04 inside another
  is an error. `interpreter.h:175` says that an unset replication factor gives
  0xffffffff; the code throws.
- Compressed: a subset whose associated field makes no attribute gets that of a
  subset before it (`bufr/input.cc:723`, `associated_fields.h:40`); a factor
  of all ones is missing (`bufr/input.cc:513`, and otherwise at 344); the
  associated field before a string is not read (`bufr/decoder.cc:546`); all the
  differences of an associated field come before the base of its variable, and a
  base of all ones makes it missing even where significance 21 has a missing
  attribute (`bufr/input.cc:469`).
- `append_*_dpb` goes over the first variables of the subset, a bitmap refers to
  the last before its operator; bits past the data variables are never assigned
  when it is longer.

*Visitors.*
- `dds-validator.h:44` promises that what validates can be encoded. It does not
  look at associated fields, at the size of a bitmap that a section fixes, or
  at variables that are left over. `ValidIsEncoded` names the first, and runs
  on sections without the second.
- `Printer` throws on C05 and on substituted values; `ScanFeatures`, besides, on
  C03, on C04 before an element and on descriptors not in the table, in bodies
  that are repeated zero times too; `DDSPrinter` on C03. `VisitorsFollow` lists
  these, and that there are no others.

*Headers and bulletins.*
- Edition 4 is written with master table number 0 (`bufr_encoder.cc:258`);
  editions 2 and 3 cut centres to an octet, years to 1951 to 2050, and lose
  seconds and the subcategory. The flag of compression is lost, and `diff` does
  not compare it. The number of subsets is cut to 16 bits, so that 65536 of
  them cannot be decoded. An odd optional section gets a pad octet. `clear`
  leaves `section_end` as it was. Fields are read past the end of a section, up
  to that of the message.
- `CrexBulletin::diff_details` compares one field twice (`bulletin.cc:665`).

*CREX.*
- Between subsets the end of line is not skipped: a message of several is never
  read back (`crex_decoder.cc:209`). Section 3 (`SUPP`) is always refused. A
  factor is written with four digits and read by the five characters of B31012,
  so that those of B31000 and B31011 shift what follows. A replication that
  counts a factor among its descriptors lacks it in the written header. A missing
  B31000 repeats without end, until the subset has no more variables and the encoder
  throws; other missing factors throw at once (`crex_encoder.cc:65`).
- Subcategories of 128 to 254 are written as negative numbers. Check digits are
  read, and never written (`crex_encoder.cc:84`). A string that begins with a
  space or `/`, or is empty, is read as another. A message cut in its
  descriptors is read forever (`crex_decoder.cc:93`; `Ends` has it as the one
  exception). A text that ends with `+` hides the end from `CrexBulletin::read`
  (`bulletin.cc:719`).

*Variables.*
- Copy assignment takes the info of the other variable (`var.cc:167`), whatever it is,
  and copies the value, for which `allocate` keeps the buffer there is (`var.cc:215`).
  A text copied over a shorter one is written past the end of that one's buffer; over a
  number, the number is taken for a pointer (unless it is 0, which reads as null); a
  number copied over a text loses its buffer. Nothing asks for infos that go together
  but the comment of a protected helper, `copy_value` (`var.h:55`). Inside the library,
  the move assignment of `Subset` does it element by element, since what it hands to
  the vector has a name and is copied (`subset.cc:26`).
  `BrokenIndeed` says that these assignments break the memory, `Owned` that no others do.
- Move assignment keeps its own info and takes the other's buffer or number
  (`var.cc:243`), which may be too short for it, or out of its domain. `v.set(v)` loses the
  attributes; `seta(Var&&)` copies, where `var.h:304` says it moves; `Var(info, var)`
  copies attributes, where `var.h:100` says it does not; an attribute copied out
  of a variable brings those after it. `setc_truncate` never marks what it cut
  (`var.h:239`). `diff` finds nothing between two unset variables whose
  attributes differ.
- Numbers wrap: `setd` on an integer, texts, and the shifts of a range of 32 bits.
  NaN is not clamped. `setc` of a binary reads past a shorter text.

*Tables.*
- `find_crex` before any other lookup follows a null pointer
  (`internals/tabledir.cc:461`). For CREX the BUFR table with the lowest version is
  chosen (`tableinfo.cc:169`).
- D files are not checked for order, as B files are (`internals/vartable.cc:99`),
  and the search needs it (`dtable.cc:163`): of the shipped ones
  `D0000000000000012000`, `D0000000000000013000` and `D0000000000098013102` hold
  sequences that are not found (307059 in the first).

*Python.*
- `Var()` with bad arguments leaves an object of zeros, which `~Var` then reads
  (`python/var.cc:488`); `__init__` twice leaks; `var_create_*` leaks when a setter
  throws; `object_repr` and `file_get_fileno` leak references. `Var(var, value)`
  drops the value. `len(table)` is 0 and iteration over one never ends. Ints are cut
  to those of C. `Balanced` counts the leaks (`leaked`) and holds until the first
  half-made object is freed (`crashed`).

## Bounds

| run | bounds | why they are enough |
|---|---|---|
| `bitmaps` | subsets of 5 variables, bitmaps of 3 bits | two bitmaps, each with a variable before it, one that is skipped and one after; the proofs have no bound |
| `bitmap_walk` | 5 variables, 4 bits, every anchor | longer than the other in both directions, and all ones that are not data; proved without bound |
| `transcode` | 47 templates, 22 of them malformed; counts up to 2 (replication factors, bitmap sizes); 3 bits to a bitmap; values of each field from a small set with zero, its ends and all ones. Sections that a program fills (`Built`) are not decoded first; two templates are edited | every operator alone, nested in replications, cancelled, and across a bitmap; malformed templates reach every error. `MaxVars` is never reached |
| `compressed` | 2 subsets, 2 items | a loop that leaves something in `Var` needs one subset to leave it and one to find it; an attribute needs an item before; shape and refinement are proved without bound |
| `bulletins` | `SubsetLimit` 4 for 2^16; headers that differ from a usual one in a field or two, at the ends of what editions can say; up to 5 subsets of an octet; three styles of another program; cuts at every octet | one field at a time is enough because the code treats each apart; 3, 4 and 5 subsets are below, at and above the limit; all five invariants are proved without bound |
| `crex` | messages of 9 well-formed or odd templates, 5 versions and categories, with and without check digits, one or two subsets; factors up to 2, or missing, and then no variable after them; subsets that lack a variable; cuts everywhere, any one value lost | every alternative of the header's words and of a value's characters; a factor, a value and an end can each be where the cut is |
| `streams` | 3 pieces: two BUFR messages, three CREX ones, each whole or lacking 1 or 9 bytes; letters of a signature, the beginning of one, the mention of one | a message cut short takes bytes of the next one, and a third shows that the search goes on from the right place; bodies have the signature of each format, ends of lines and `++` that are not an end; framing, the search and that what was written is read are proved for every file |
| `tables` | 2 directories, 5 tables of which one a CREX one and one added later, 3 identifiers to ask for | ties within a directory and between two, a pair with a broken file of each kind, each alternative of the order of identifiers; the cache and the refinement are proved without bound |
| `vartables` | 6 B files; all D files of up to 3 lines out of 7 kinds, and three longer ones; 5 entries in memory; words of 5 bits. `CONSTRAINT Focus`: B and D files are not both there | B and D tables share nothing, so a state with both says nothing that the two apart do not; chains of three, an alteration found, added, refused; a search that must halve twice; proved for every file and alteration |
| `vars` | 2 variables of 4 infos (two numbers, a string of one character, a binary of two bytes), attributes of 2, 5 attribute objects and 7 buffers, words of 7 bits. `VIEW Pattern`: addresses are left out, but not the room in the buffer of a variable. A behaviour ends with the assignment that breaks the memory (`broken`): what follows is undefined | two names are enough to share between, two codes to put in order, and the four infos are assigned to each other in all ways: number and text, shorter and longer, string and binary; both variables can have both attributes while a call holds a copy. What an address is used for is in the view, which one it is makes no difference to what calls do; proved for every set of names, infos, attributes and values |
| `python` | 2 names, 4 objects, 2 attributes to a variable, words of 5 bits; tables of two numbers or of one text. `SYMMETRY` of the names; `CONSTRAINT Focus`: the dummy table is imported first, at most one list, two attributes, one unset variable | an object in a name, a list and an argument at once is the most that a statement handles; names are interchangeable; proved for every program, table, value and number of objects |

`CHECK_DEADLOCK FALSE` is where a run of the code is over, or a bound is met: an
interpreter that has no more descriptors or has thrown, a section that has been
sent, a program that followed a null pointer or is left with nothing to ask for.
`crex` has an explicit last step instead.

## Fairness

All the code here runs in one thread and a call runs until it returns, so the
steps of a call that was begun are taken: `WF` on the next-state action in
`BitmapWalk`, `Transcode` (with its visitors) and `Crex`, where it is one call
after another of one program; on `Begin`, `Deliver` and `End` in `Compressed`, but
not on `Send`, since nobody has to send another item; on `Listing` and `Loading`
in `Tabledirs`, but not on what a program may ask. The liveness properties
(`Ends`, `Completes`, `Delivered`) say that loops end; they fail with a mutant
that leaves a cursor where it is. The other modules have one action for each
call, and state no liveness.

## Proofs

| module | theorems | argument |
|---|---|---|
| `BitmapWalkProofs` | `WalkTypeCorrect`, `WalkCorrect`, `WalkDecreasing` | `WalkInv`: what is in `refs` are the positions, above the cursor, whose bit is set, and the bit under `b_cur` belongs to the data variable whose number, counted from the anchor, is the same. `DataBefore` as a cardinality links the set of `BitmapRefs` to a loop that counts |
| `BitmapsProofs` | `BitmapsTypeCorrect`, `PositionsAligned`, `PositionsInOrder`, `ObjectsOwned`, `BitmapsHandedOverWhole` | `IInv`: the invariants of the run, with `KnownIds`, that no bitmap has the identifier of one to come, without which a new bitmap could be taken for an old one. `RefsStable`: the positions of an anchor do not change when the subset grows |
| `BulletinsProofs` | `BulletinsInvariant`, `DecodedAsWritten`, `WholeIsDecoded`, `RelaySettles`, `DiffTellsLosses`, `ClearedAsNew` | First, of `BufrSections` alone: octets that were written are read as they were (`Placed`, `Got`), section by section, edition by edition, so that what is decoded is known member by member (`DecodedAsSent`). `BulletinsInv` then says what `ReadsBack` does not: that members have the widths of `bulletin.h` (`BulletinInv`), what the message on the wire was made from and how much of it is there (`WireInv`), what a relay has read (`RelayInv`). That relays settle needs that what was decoded is a fixed point, which is computed of each edition |
| `CompressedProofs` | `CompressedAsIfAlone`, `ShapeIsSame` | `ShapeInv`: between items all subsets have the shape of `before`; while one is delivered, the first `done` have one more. The refinement maps a subset to itself and the items of the others to no step: the one `Var` that goes around has, when it is copied, the value and the attributes that its subset alone would have made, whatever it had before |
| `StreamsProofs` | `StreamsTypeCorrect`, `MessagesFramed`, `NothingPassedOver`, `WrittenIsRead` | `ReadInv`: `buf` is the piece of the file from `offset` to the read position, and what was matched of a signature are the last bytes read; without either, that a message given back is in the file does not follow. `Searched`: there is no signature between the last message and the bytes matched; where a byte does not match, one among those would begin inside another, which `Clear` excludes (`NoneBegun`). `BackInv`: what was written stays where it was put, no two messages overlap (`WrittenInv`), those that begin before the last end were given back (`PassedGiven`), so that what is found is one of them (`InWritten`); and the automaton for the end of CREX is where the bytes of that message have brought it (`ScanAt`), which is nowhere near its end until the last 9 (`ScanGoesOn`) |
| `TabledirsProofs` | `CachedAreBest`, `LookupAsPromised`, `TabledirsTypeCorrect` | `CloserOrder`: closeness is irreflexive and negatively transitive among the tables of one format, so that keeping the better of two, table by table, leaves none that is better (`KeepsBest`); and `BestOfBoth`, that the better of the best of each format is the best. `CacheInv` has the state of the search, which `CachedIsBest` alone does not say. The refinement takes the end of a search to one step of `TableLookup` and every other step to none |
| `VartablesProofs` | `AnswersAreKept`, `TablesAreChained`, `SequencesAreKept`; of the operators `SearchFinds`, `ParsedGrows`, `ReadIsThere` | `IInv`: chains are not empty and hold pointers into the memory there is, without which a new entry could become what an old pointer points to. Every step makes the memory grow at its end (`Grows`) and keeps the first and all the pointers of every chain (`Keeps`, `LinkedChain`). `ChainInv` adds that a table is what its file was, that alterations in a chain differ, and that no pointer is in two chains, of all tables side by side. What a table is from its file goes by induction over the lines: codes grow in a file that is not refused (`ParsedGrows`), the search halves a range that has the code (`SearchFinds`), and after n lines of a D file there is an item for each line and an entry for each sequence but the last (`ReadUpTo`) |
| `VartablesProofs`, of `PyObjects` | `ObjectsBalanced`, `ValuesAreBack`, `AttributesAreAllListed` | Counts do not balance within a statement: a reference is on its way from a call to a name or a list. `Good(w, e)` says of a world `w` that each object counts its names, its places in lists and the references `e` on their way, and `Bal` allows for places of a list that is gone and whose items are still to be dropped; `ObjectsInv` is that nothing is on its way between statements. One lemma for each thing that a statement is made of (`AllocCounts`, `IncrefCounts`, `DecrefCounts`, `DropAllCounts`, `BindIsGood`, `AppendIsGood`, `ConstructIsGood`, `LeakIsGood`), and the step of each statement puts them together. That what is freed has nobody, and that what a list holds is a variable that is there, come with it. For values, `EntriesInv`: every entry in memory is one that `set_bufr` or `set_crex` make of columns (`WellMade`), whoever loads, alters or imports; its range is then within the ints (`BufrMade`, `CrexMade`, from the halves of a word), and casts, rounding and cutting give back what they should (`SignedIs`, `RintIsNear`, `NothingCut`). For lists of attributes, `FitInv`: what an object holds is what its kind holds, a table that answers, an entry in memory, or a variable whose value and attributes are in the range of their infos (`FitValue`) and go by codes; the setters keep to it (`GivenFits`), so `setval` gives an attribute back as it is (`SetValGivesBack`, `ListedIs`), codes have an order (`NthIsThere`), and addresses suffice for the list (`AppendAllLists`). `Leaves` says of each thing that drops references which objects may go (`DecrefLeaves`, `BindLeaves`): what a name drops when the list is bound to it was there before the list, by the counts, so nothing of the list goes |
| `VarsProofs` | `AlwaysWellMade`, `ImplementsValues`, `AlwaysOwned`, `AlwaysInDomain`, `AlwaysComparable` | In three layers. Of `VarSetters` alone: whatever a call leaves in a variable fits its info (`OutcomesFit`, `OutcomesFromFit`), through rounding, wrapping, conversion and cutting. Of the memory: `Heap`, that each buffer is that of one text and each value fits, whatever the pointers do; `Shape`, that there is for each variable a list of attributes (`ch`), rising in code, along which the pointers lead, and that no attribute is in two. Neither is inductive without the other: a buffer is freed with the attribute that has it, and an attribute is found where its code belongs only while the list rises. `ch` is a witness that no variable of `Vars` holds, so the invariant is `\E ch : Good(mem, ch)`, and each call says how its new `ch` comes from the old one (`InsertedStrand`, `ReplacedStrand`, `RemovedStrand`, `CopyGoesOn`, `ChainMoved`). The refinement maps what is seen of the memory (`ViewOf`) to the values, one lemma for each of the 17 calls. Assignments have no guard on infos: what a buffer that is kept, or taken, must be for `Good` to hold again (`Ready`, `Takes`) is what `CopyFits` and `MoveFits` ask, and where they fail the infos are those of `CopyMayBreak` and `MoveMayBreak` (`CopyTells`, `MoveTells`). So the invariant is `Kept`: `Good` before, and `Misassigned` after the assignment that breaks the memory, and the theorems say of their property that it holds of each state but that one. `Comparable` needs `OneTable` besides: that no two infos have one code, as when all come from one table; the code compares codes and types where an attribute's info may differ in more |

Assumptions are those of the constants, each checked by TLC in the run of its
module, and each what the code has:

- `FilesAssumption`: B and D files are sequences of lines, and a line has a code.
- `ProgramsAssumption`: the headers of `Bulletins` have the widths of the members in
  `bulletin.h`; descriptors and data of a section are short enough (2^20) for a
  message to fit the 24 bits of its length, which the code does not check; other
  programs put spare octets where they like.
- `SectionsAssumption`: a count of subsets has at most 16 bits, and the versions of
  master tables there are fit an octet.
- `ItemsAssumption`: raw numbers fit their bits. Where the code is known to do otherwise
  (see above) it excludes the item: factors of all ones; fields that make an attribute
  in some subsets only, or have their significance missing in all; fields before a string.
- `InfosAssumption`: attributes are B entries, as what tables hold is, the bounds of an
  info are in order, as `compute_range` makes them, and its step is positive.
  `CallsAssumption`: functions are given arguments of their types. `RoomAssumption`: the
  pools of `Vars` do not run out, which memory is taken not to do; nullptr is no address; and what is read of the union `m_value` when its other member was written is no number or buffer that could be known (`Wild`), but for a zero, which reads as null.
- `WidthsAssumption`, `RegisteredAssumption`: words have bits and are twice their half,
  decimals have places, NaN is no number, and powers of two and ten are positive, which the provers do not
  know of exponents; conversions of units have integer factors that are not zero.
- `ObjectsAssumption`: names and addresses are finitely many. `GivenAssumption`: what Python
  gives is of its type. `ColumnsAssumption`: the columns of a line, and what an operator
  asks for, are naturals, reference values are ints, and decimals are those of doubles;
  that fewer digits than those of the largest int make an int is arithmetic.
- `IdsAssumption`, `NamesAssumption`, `DiskAssumption` and others: what is an
  identifier, a name of a file, a directory.

The library's induction theorems have an operator as parameter, which the provers here
cannot instantiate. `NatSetInduction`, derived from the well-foundedness of `<`, is
about a set of numbers instead, and is what the proofs about recursive functions
(the search and the two loads of `TableFiles`, the loops of `PyObjects`) go by; that is why those are functions
and not folds.

Only model-checked:

- liveness, and what needs fairness or `ENABLED`;
- `Transcode` and its visitors: what relates a decoder and an encoder goes through
  templates of any depth, and `SectionVisitors` has a recursive operator, with which the
  prover has no arithmetic;
- `Crex`, whose messages are text, but for what `Streams` has of their ends;
- `BrokenIndeed`, that assignments said to break the memory do: it looks at what is left.

So what `Fields` and `CrexText` compute for all widths and lengths is checked on those
of the runs.

## What is not modelled

- Threads: the library promises nothing with them (`TODO-threads`).
- Wording: `print`, `format`, `repr`, notes, the messages of exceptions,
  `VerboseDataSectionDecoder`, `explain_find`. Which errors there are is in the models, what
  they say is not.
- Linear conversions of units but for those that the runs register: their factors are data.
  That doubles are not exact: `Places` decimals stand for them.
- CREX: `clear` and `diff` of its bulletins, which do as those of BUFR; the
  validator on its subsets.
- Lua, and the accessors of Python, which only call those of the library.
- `utils/`: wrappers of the C library, a test runner, a terminal: nothing of them takes
  part in what is modelled but `fread` and directory listings, which `Streams` and
  `Tabledirs` have from how they are used.
- `wrep` and the other programs: their loop over a file is the caller in `Streams`, and
  `PrintFeatures` that of `ScanFeatures`; the rest prints.
- Several subsets of an uncompressed message share only the `Tables` of the
  bulletin: `Transcode` has one subset, and keeps the shared tables from the
  first decoding to the second.
- Who sends a compressed message, which is not in the code: `Compressed` takes
  the coding that the decoder expects.

## Plan

Done, in this order: the interpreter's most error-prone state (`Bitmaps`), the
agreement of decoder and encoder (`Transcode`), compressed sections, tables,
streams; then CREX, headers and bulletins, variables, table files, the visitors
and the Python module.

Proved since: all invariants of bulletins, tables of files, streams and variables, and
the refinements of `SubsetTable`, `TableLookup` and `VarValues`; the counts of references,
the values and the lists of attributes of the Python module.

Next, theorems:

1. `Crex`: its types, and `DamageRefused`, which needs of texts that they hold no words of
   the message, besides the check digits.
2. `Transcode`: that the modifiers of decoder and encoder are the same, `LayoutAgrees`,
   for one descriptor at a time, which needs that edited values fit their fields.
