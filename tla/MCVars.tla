------------------------------- MODULE MCVars -------------------------------
(* Two variables, of four kinds, to check Vars with. *)
EXTENDS Vars

Code(x, y) == <<0, x, y>>
TheOnly(infos) == CHOOSE info \in infos : TRUE

(* A wind component of one value in tenths, one with a decimal, a name of one
   letter, and nine bits that no table describes: a name may get the buffer of the
   bits, and the bits that of a name. *)
Tenths == TheOnly(SetBufr(Code(11, 1), "m/s/10", 1, -1, 0))
Speed == TheOnly(SetBufr(Code(11, 2), "M/S", 2, -3, 1))
Letter == SetString(Code(1, 11), 1)
Opaque == SetBinary(Code(63, 1), 9)

MCInfos == {Tenths, Speed, Letter, Opaque}
MCAttributes == {Tenths, Letter}
MCRegistered == {Linear("m/s/10", "M/S", 1, 10, 0), Linear("M/S", "m/s/10", 10, 1, 0)}

By(name, args) == {[by |-> name, arg |-> a] : a \in args}

(* Of numbers, one in the domain and one beyond each end; 127 wraps to -1 in an
   int of seven bits. *)
MCCalls ==
  [info \in MCInfos |->
     CASE info = Tenths -> By("seti", {-2, 0}) \cup By("setd", {12700, NaN})
                             \cup By("sets", {<<45, 49>>, <<97>>})
       [] info = Speed -> By("setd", {-34, -10, 900, NaN}) \cup By("setf", {<<48>>})
                            \cup By("setc", {<<45, 49>>})
       [] info = Letter -> By("setc", {<<97>>}) \cup By("setc_truncate", {<<97, 98>>})
                             \cup By("setf", {<<>>})
       [] info = Opaque -> By("sets", {<<97>>})]

(* What the slot of a variable is to an assignment: the room in its buffer, or
   whether it is null. *)
Room(x) ==
  IF mem.obj[x].slot \in DOMAIN mem.buf /\ IsText(InfoOf(mem, x).type)
    THEN mem.buf[mem.obj[x].slot].cap
    ELSE IF mem.obj[x].slot \in {Nil, 0} THEN -1 ELSE -2

(* Which addresses are used makes no difference: states are told apart by what the
   users see, by the room in the buffers of the variables, and by how many
   attributes and buffers are not allocated, which tells when one is lost or
   shared.  Where the memory is broken and nothing follows, attributes do not
   matter either. *)
Pattern ==
  IF broken
    THEN <<last, [x \in There |-> <<seen[x].info, seen[x].val, Room(x)>>]>>
    ELSE <<seen, [x \in There |-> Room(x)],
           Cardinality(FreeAttrs(mem)), Cardinality(FreeBufs(mem))>>

(* Every width, reference value, unit and scale of a small machine. *)
AllBufrInfos ==
  UNION {{<<info, ref>> : info \in SetBufr(code, "K", bits, ref, scale)} :
           code \in {Code(12, 101), Code(31, 2)}, bits \in 1..(WordBits - 1),
           ref \in -5..5, scale \in {-1, 0, Places}}

ASSUME RangesAreCodable ==
  \A p \in AllBufrInfos : RangeIsCodable(p[1], p[2]) /\ MeasuresComeBack(p[1])

ASSUME CrexRangesFit ==
  \A len \in 1..4, scale \in {-1, 0, Places} :
    LET info == SetCrex(Code(12, 101), "K", len, scale)
    IN info.imin..info.imax \subseteq IntMin..IntMax /\ MeasuresComeBack(info)

ASSUME TablesAgree == CodeTablesInvert
=============================================================================
