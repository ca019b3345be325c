------------------------ MODULE MCCandidateDetection ------------------------
(* Inputs for CandidateDetection: every combination of evidence, order, version
   tokens and signals for one pair, and four snapshots in an index. *)
EXTENDS CandidateDetection

CONSTANTS none

TwoSnapshots == {1, 2}
OnePaper == {"paper"}
FourSnapshots == 1..4
TwoKinds == {"paper", "filename"}
TwoKeys == {"k", "l"}
TwoNearest == [kind \in TwoKinds |-> IF kind = "paper" THEN 2 ELSE 1]

\* None, one direction, both, a foreign pair.
Continuity == {{}, {<<1, 2>>}, {<<2, 1>>}, {<<1, 2>>, <<2, 1>>}, {<<1, 1>>}}

Tokens ==
    {None} \cup [family : {"draft", "final", "rev"}, number : {None}]
           \cup [family : {"rev"}, number : {1, 2}] \cup [family : {"v"}, number : {2}]

Both(values) == {[s \in TwoSnapshots |-> x] : x \in values}
Differ == {[s \in TwoSnapshots |-> IF s = 1 THEN "x" ELSE "y"]}

Times == {f \in [TwoSnapshots -> {1, 2}] : f[2] = 2 => f[1] = 1}
\* No common paper, and the three orders of two places in one.
Places == {f \in [TwoSnapshots -> [OnePaper -> 0..2]] :
             <<f[1]["paper"], f[2]["paper"]>> \in {<<0, 0>>, <<1, 1>>, <<1, 2>>, <<2, 1>>}}

AllComparisons ==
    [a : {1}, b : {2}, source : Continuity, replace : Continuity,
     firstSeen : Times,
     order : Places,
     token : [TwoSnapshots -> Tokens],
     lineage : Both({"x", None}) \cup Differ, title : Both({"x"}) \cup Differ,
     parent : Both({"x"}), hash : Differ,
     supported : Both({TRUE}), zeroText : Both(BOOLEAN),
     similar : BOOLEAN, sameObservation : {FALSE}]

\* The target is the snapshot with the third hash and has a key of each kind,
\* filenames have one lineage; one time can be two before it, and one behind it.
AllCorpora ==
    [target : {3}, time : {f \in [FourSnapshots -> 1..4] : f[3] = 3},
     keys : {f \in [TwoKinds -> [FourSnapshots -> SUBSET TwoKeys]] :
               /\ \A s \in FourSnapshots : f["filename"][s] \subseteq {"k"}
               /\ \A kind \in TwoKinds : "k" \in f[kind][3]}]

=============================================================================
