---------------------------- MODULE MCCompressed ----------------------------
(* Two subsets and a few items to check Compressed with. *)
EXTENDS Compressed

Info(code, type, bit_ref, bit_len) ==
  [code |-> code, type |-> type, scale |-> 0, bit_ref |-> bit_ref, bit_len |-> bit_len]

Temperature == Info(<<0, 12, 101>>, "Integer", -1, 2)
Confidence == Info(<<0, 33, 7>>, "Integer", 0, 2)
Significance == Info(<<0, 31, 21>>, "Integer", 0, 3)
Name == Info(<<0, 1, 11>>, "String", 0, 8)
Local == Info(<<0, 63, 1>>, "Binary", 0, 8)

NoField == [bit_count |-> 1, significance |-> 63, skip_missing |-> TRUE]
Field(bits, sig, skip) ==
  [bit_count |-> bits, significance |-> sig, skip_missing |-> skip]

An(dest, info, pos, field, raws, afs) ==
  [dest |-> dest, info |-> info, pos |-> pos, field |-> field, raws |-> raws,
   afs |-> afs]

All(values) == [1..N -> values]
Same(values) == {[s \in 1..N |-> v] : v \in values}

Plain(dest, info, pos, rawss) ==
  {An(dest, info, pos, NoField, raws, Zeros) : raws \in rawss}

WithFields(fs, values) ==
  {An("field", Temperature, 1, f, raws, afs) :
     f \in fs, raws \in All({1, 3}), afs \in All(values)}

PlainItems ==
  Plain("store", Temperature, 1, All({0, 1, 3})) \cup Plain("store", Name, 1, All({65, 255}))
    \cup Plain("store", Local, 1, Same({1})) \cup Plain("uniform", Significance, 1, All({1, 7}))
    \cup Plain("uniform", Name, 1, All({65, 255}))
    \cup Plain("attribute", Confidence, 1, All({1, 3}))
    \cup Plain("attribute", Confidence, 2, All({1, 3}))
    \cup Plain("chardata", Name, 1, Same({65})) \cup Plain("refval", Temperature, 1, Same({1}))

(* Fields that make an attribute whatever their value is, or none: where the loop
   makes one for some subsets only, the others get that of the subset before. *)
MCItems ==
  PlainItems \cup WithFields({Field(2, 1, TRUE), Field(2, 8, FALSE)}, {0, 1, 3})
    \cup WithFields({Field(2, 4, TRUE)}, {1})
=============================================================================
