---------------------------- MODULE TableLookup -----------------------------
(***************************************************************************)
(* What table lookup promises (README.md:68-70, tableinfo.h): a bulletin   *)
(* gets the closest of the tables that were in the directories when they   *)
(* were listed, and among equally close ones of a format that of the       *)
(* directory to search before the others.  Nothing is remembered.          *)
(***************************************************************************)
EXTENDS TableIds, Sequences

CONSTANTS NoTable, NoListing

VARIABLES
  listing,    (* the tables in the order they are found, or NoListing      *)
  asked,      (* the identifier of the last lookup that was answered       *)
  answer      (* its table, or NoTable                                     *)

Candidates(tables, want) ==
  {i \in DOMAIN tables : Acceptable(want, tables[i].id)}

(* No candidate is closer than i, or as close and before it. *)
IsBest(tables, want, i) ==
  /\ i \in Candidates(tables, want)
  /\ \A j \in Candidates(tables, want) :
       /\ ~Closer(want, tables[j].id, tables[i].id)
       /\ tables[j].id.format = tables[i].id.format /\ j < i
            => Closer(want, tables[i].id, tables[j].id)

Answers(tables, want) ==
  {tables[i] : i \in {i \in DOMAIN tables : IsBest(tables, want, i)}}
    \cup (IF Candidates(tables, want) = {} THEN {NoTable} ELSE {})

Init == listing = NoListing /\ asked = NoTable /\ answer = NoTable

(* The directories are listed, or are no longer valid. *)
List ==
  /\ IF listing = NoListing THEN listing' # NoListing ELSE listing' = NoListing
  /\ UNCHANGED <<asked, answer>>

Answer ==
  /\ listing # NoListing /\ asked' # NoTable
  /\ answer' \in Answers(listing, asked')
  /\ UNCHANGED listing

Next == List \/ Answer

Spec == Init /\ [][Next]_<<listing, asked, answer>>
=============================================================================
