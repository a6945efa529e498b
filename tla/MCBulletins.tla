---------------------------- MODULE MCBulletins -----------------------------
(* Headers that differ from one that is usual in one field or two, at the ends of
   what editions can say. *)
EXTENDS Bulletins

Usual ==
  [Fresh EXCEPT
     !.data_category = 1, !.data_subcategory = 2, !.data_subcategory_local = 3,
     !.originating_centre = 98, !.originating_subcentre = 4, !.update_sequence_number = 5,
     !.rep_year = 2023, !.clock = <<12, 31, 23, 59>>, !.rep_second = 30,
     !.master_table_version_number_local = 1]

Variations ==
  {[Usual EXCEPT !.rep_year = year] : year \in {1950, 1951, 2000, 2050, 2100}}
    \cup {[Usual EXCEPT !.optional_section = s, !.master_table_number = n] :
             s \in {<<>>, <<7>>, <<7, 55>>}, n \in {0, 10}}
    \cup {[Usual EXCEPT !.originating_centre = 300, !.data_subcategory = 255, !.rep_second = 0]}
    \cup {[Usual EXCEPT !.rep_second = 0, !.data_subcategory = 255, !.compression = TRUE]}

MCHeaders ==
  {[h EXCEPT !.edition_number = e] : h \in Variations, e \in {3, 4}}
    \cup {[Usual EXCEPT !.edition_number = e] : e \in {2, 5}}
    \cup {[Usual EXCEPT !.master_table_version_number = 99]}

MCAgain == {Usual}
MCDataDescs == {<<>>, <<257>>, <<49152, 300>>}
MCSubsets == {<<>>, <<9>>, <<9, 200>>, <<9, 10, 11, 12>>, <<9, 10, 11, 12, 13>>}

MCStyles ==
  {[Own EXCEPT !.local = 2, !.exact = TRUE], [Own EXCEPT !.pad = FALSE, !.spare = 3, !.exact = TRUE],
   [Own EXCEPT !.tail = 2, !.compression = TRUE]}
=============================================================================
