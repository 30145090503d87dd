------------------------------ MODULE IdRanges ------------------------------
(***************************************************************************)
(* The texts of party id ranges, "10000~19999;11111": how the form checks  *)
(* them (partyidadd.vue) and how they are turned into regions and back     *)
(* (utils/idRangeRule.js).  A text is the sequence of its parts between    *)
(* semicolons, a part the sequence of its numbers between ~ or -; 0 stands *)
(* for whatever is no positive number.                                     *)
(***************************************************************************)
EXTENDS Naturals, Sequences, SequencesExt

Region(l, r) == [leftRegion |-> l, rightRegion |-> r]
InRegion(n, region) == n \in region.leftRegion .. region.rightRegion

\* sort by the first number; filter(item => item).
Sorted(text) ==
    SortSeq(SelectSeq(text, LAMBDA part : part # <<>>), LAMBDA a, b : a[1] < b[1])

LastOf(part) == IF Len(part) > 1 /\ part[2] # 0 THEN part[2] ELSE part[1]
WellFormed(part) ==
    \/ Len(part) = 1 /\ part[1] # 0
    \/ Len(part) = 2 /\ part[1] # 0 /\ part[1] < part[2]

\* The validator: each part by itself, and against the one before it.
Valid(text) ==
    LET parts == Sorted(text)
    IN /\ text # <<>>
       /\ \A k \in DOMAIN parts :
            /\ WellFormed(parts[k])
            /\ k > 1 => parts[k][1] >= LastOf(parts[k - 1])

\* A pair is a region when it ascends; what is no pair is its first number.
RegionsOf(part) ==
    CASE Len(part) = 2 /\ part[1] < part[2] -> <<Region(part[1], part[2])>>
      [] Len(part) # 2 /\ part[1] # 0 -> <<Region(part[1], part[1])>>
      [] OTHER -> <<>>

\* Each region once, where it comes first.
Once(regions) ==
    FoldLeft(LAMBDA kept, region : IF Contains(kept, region) THEN kept
                                   ELSE Append(kept, region), <<>>, regions)

requestRange(text) ==
    Once(FlattenSeq([k \in DOMAIN text |-> RegionsOf(text[k])]))

responseRange(regions) ==
    [k \in DOMAIN regions |->
        IF regions[k].leftRegion = regions[k].rightRegion
        THEN <<regions[k].leftRegion>>
        ELSE <<regions[k].leftRegion, regions[k].rightRegion>>]
=============================================================================
