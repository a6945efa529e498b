----------------------------- MODULE TableFiles -----------------------------
(***************************************************************************)
(* What is read from the files of B and D tables (internals/vartable.cc,   *)
(* dtable.cc), and how a code is then looked up.                           *)
(*                                                                         *)
(* A file is a sequence of lines.  A line of a B table has a length and    *)
(* the columns that are used; one of a D table says what it looks like:    *)
(* "start" begins a sequence, "more" continues it, "short" and "other" are *)
(* neither.  The characters of columns, and descriptions, are left out.    *)
(***************************************************************************)
EXTENDS Varinfos, SequencesExt

CONSTANTS
  NoCode,    (* columns that are not the code of a descriptor *)
  Refused    (* what is made of a file that cannot be used *)

(* Codes are ordered as F, X and Y are packed in a Varcode: X has 6 bits, Y has 8. *)
Rank(code) == (code[1] * 64 + code[2]) * 256 + code[3]

----------------------------------------------------------------------------
(* The binary search of both tables: the index of the code, or 0. *)

(* Where begin and end are after n times round the loop, which has ended by then
   when n is as many as the codes. *)
Search(codes, code) ==
  LET narrow[n \in 0..Len(codes)] ==
        IF n = 0 THEN <<0, Len(codes) + 1>>
        ELSE LET last == narrow[n - 1]
                 begin == last[1]
                 end == last[2]
                 cur == (begin + end) \div 2
             IN IF end - begin <= 1 THEN <<begin, end>>
                ELSE IF Rank(codes[cur]) > Rank(code) THEN <<begin, cur>>
                ELSE <<cur, end>>
      found == narrow[Len(codes)][1]
  IN IF found = 0 \/ codes[found] # code THEN 0 ELSE found

----------------------------------------------------------------------------
(* B tables *)

BufrLength == 119   (* what is shorter is no line of a BUFR table *)
CrexLength == 157   (* what is shorter says nothing of CREX *)

Entry(info, bit_ref) == [info |-> info, bit_ref |-> bit_ref]

(* What a line defines: nothing when set_bufr throws. *)
BufrEntries(line) ==
  {Entry(info, line.bit_ref) :
     info \in SetBufr(line.code, line.unit, line.bit_len, line.bit_ref, line.scale)}

CrexEntries(line) ==
  {Entry(SetCrex(line.code, line.crex_unit, line.crex_len, line.crex_scale), 0)}

CodesOf(entries) == [i \in DOMAIN entries |-> entries[i].info.code]

(* Mutant: lines are taken in any order. *)
ObtainUnsorted(entries, made) ==
  IF made = {} THEN Refused
  ELSE Append(entries, CHOOSE e \in made : TRUE)

(* obtain: codes have to grow. *)
Obtain(entries, made) ==
  IF made = {} THEN Refused
  ELSE LET e == CHOOSE e \in made : TRUE
       IN IF entries # <<>> /\ Rank(Last(CodesOf(entries))) >= Rank(e.info.code)
            THEN Refused ELSE Append(entries, e)

LoadBufr(lines) ==
  LET entries[n \in 0..Len(lines)] ==
        IF n = 0 THEN <<>>
        ELSE IF entries[n - 1] = Refused \/ lines[n].length < BufrLength THEN Refused
        ELSE Obtain(entries[n - 1], BufrEntries(lines[n]))
  IN entries[Len(lines)]

HasCrex(line) == line.length >= CrexLength

LoadCrex(lines) ==
  LET entries[n \in 0..Len(lines)] ==
        IF n = 0 THEN <<>>
        ELSE IF entries[n - 1] = Refused \/ ~HasCrex(lines[n]) THEN entries[n - 1]
        ELSE Obtain(entries[n - 1], CrexEntries(lines[n]))
      loaded == entries[Len(lines)]
  IN IF loaded = <<>> THEN Refused ELSE loaded

----------------------------------------------------------------------------
(* D tables: a sequence is filed when the next one begins, or at the end. *)

Nothing == [code |-> NoCode, begin |-> 0, advertised |-> 0, varcodes |-> <<>>, entries |-> <<>>]

Found(t) == Len(t.varcodes) - t.begin

(* Mutant: the first sequence is not told from none. *)
FiledAlways(t) ==
  Append(t.entries, [code |-> t.code, begin |-> t.begin, end |-> Len(t.varcodes)])

Filed(t) ==
  IF t.varcodes = <<>> THEN t.entries
  ELSE Append(t.entries, [code |-> t.code, begin |-> t.begin, end |-> Len(t.varcodes)])

Start(t, line) ==
  IF Found(t) # t.advertised \/ line.count < 1 \/ NoCode \in {line.code, line.item}
    THEN Refused
    ELSE [code |-> line.code, begin |-> Len(t.varcodes), advertised |-> line.count,
          varcodes |-> Append(t.varcodes, line.item), entries |-> Filed(t)]

Continue(t, line) ==
  IF t.varcodes = <<>> \/ Found(t) = t.advertised \/ line.item = NoCode THEN Refused
  ELSE [t EXCEPT !.varcodes = Append(@, line.item)]

NextLine(t, line) ==
  CASE t # Refused /\ line.looks = "start" -> Start(t, line)
    [] t # Refused /\ line.looks = "more" -> Continue(t, line)
    [] OTHER -> Refused

LoadD(lines) ==
  LET table[n \in 0..Len(lines)] ==
        IF n = 0 THEN Nothing ELSE NextLine(table[n - 1], lines[n])
      read == table[Len(lines)]
  IN IF read = Refused THEN Refused
     ELSE IF read.varcodes = <<>> \/ Found(read) # read.advertised THEN Refused
     ELSE [varcodes |-> read.varcodes, entries |-> Filed(read)]

DCodes(table) == [i \in DOMAIN table.entries |-> table.entries[i].code]

(* query: the items of a sequence, or none if it is not found. *)
Expand(table, code) ==
  LET i == Search(DCodes(table), code)
  IN IF i = 0 THEN <<>>
     ELSE SubSeq(table.varcodes, table.entries[i].begin + 1, table.entries[i].end)

----------------------------------------------------------------------------
(* What a D file says, line by line: each start and what continues it. *)

StartsUpTo(lines, n) == {i \in 1..n : lines[i].looks = "start"}
Starts(lines) == StartsUpTo(lines, Len(lines))

ItemsFrom(lines, i) ==
  LET last == CHOOSE j \in i..Len(lines) :
                /\ \A k \in (i + 1)..j : lines[k].looks = "more"
                /\ j = Len(lines) \/ lines[j + 1].looks # "more"
  IN [k \in 1..(last - i + 1) |-> lines[i + k - 1].item]

Growing(codes) == \A i \in 2..Len(codes) : Rank(codes[i - 1]) < Rank(codes[i])

(* A table that loaded has every sequence of its file, whole and in order, and
   when their codes grow every one is found.  Nothing makes sure that they do. *)
HasWhatIsThere(table, lines) ==
  /\ Len(table.entries) = Cardinality(Starts(lines))
  /\ \A i \in Starts(lines) :
       /\ table.entries[Cardinality(StartsUpTo(lines, i))].code = lines[i].code
       /\ Growing(DCodes(table)) => Expand(table, lines[i].code) = ItemsFrom(lines, i)
=============================================================================
