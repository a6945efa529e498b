----------------------------- MODULE MCStreams -------------------------------
(* Small files for Streams: see README.md for why these are enough. *)
EXTENDS Streams

\* Letters of a signature, the beginning of one, the mention of one in a text.
MCExtra == {<<90, 70, 82>>, <<66, 85>>, <<66, 85, 70, 82>>}

\* A signature of the other format, one of its own.
MCBufrBodies == {<<67, 82, 69, 88, 43, 43>>, <<66, 85, 70, 82>>}

\* A text that ends with +, two subsets, a line that is not an end.
MCCrexBodies == {<<90, Plus>>, <<Plus, CR, CR, LF, 90>>, <<Plus, Plus, LF, Seven, 90>>}
==============================================================================
