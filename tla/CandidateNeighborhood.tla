------------------------ MODULE CandidateNeighborhood ------------------------
(***************************************************************************)
(* Which snapshots a new one is compared with: the nearest ones, by first  *)
(* observation, among those that share a source observation, a paper or a  *)
(* filename lineage with it (CandidateNeighborhoodIndex and                *)
(* schedule_candidate_comparisons).                                        *)
(*                                                                         *)
(* The snapshots that share one key are a group.  The walk through a group *)
(* goes outwards from the time of the new snapshot, one iteration of its   *)
(* loop at a time; the two indexes of the loop are the times still ahead.  *)
(* Snapshots are numbers, in the order of their hashes.                    *)
(***************************************************************************)
EXTENDS Integers, FiniteSets

CONSTANTS
    Neighbor,   \* the snapshots of the index, numbers
    Kind,       \* the kinds of neighborhood
    Key,        \* source observations, papers, filename lineages
    Limit       \* how many neighbors of a kind are compared

ASSUME Limits ==
    /\ Neighbor \subseteq Nat /\ IsFiniteSet(Neighbor)
    /\ Limit \in [Kind -> Nat]

(* target: the new snapshot; time: the first observation of every snapshot;
   keys: what a snapshot shares with others, by kind. *)
Corpus == [target : Neighbor, time : [Neighbor -> Int],
           keys : [Kind -> [Neighbor -> SUBSET Key]]]

Groups(c) == {g \in Kind \X Key : g[2] \in c.keys[g[1]][c.target]}
Members(c, g) == {s \in Neighbor : g[2] \in c.keys[g[1]][s]}

Now(c) == c.time[c.target]
Gap(c, t) == IF t < Now(c) THEN Now(c) - t ELSE t - Now(c)

\* sorted(...)[:n], or the first n of a merge: of S, those with fewer than n before them.
Foremost(order, S, n) == {s \in S : Cardinality({t \in S : <<t, s>> \in order}) < n}

ByHash == {p \in Neighbor \X Neighbor : p[1] < p[2]}
ByDistance(c) ==
    {p \in Neighbor \X Neighbor :
       LET d(s) == Gap(c, c.time[s]) IN
       d(p[1]) < d(p[2]) \/ (d(p[1]) = d(p[2]) /\ p[1] < p[2])}

-----------------------------------------------------------------------------
(* _NeighborhoodGroup.nearest *)

Opened(c, g) == [ahead |-> {c.time[s] : s \in Members(c, g)}, selected |-> {}]

Left(c, ahead) == {t \in ahead : t < Now(c) /\ \A u \in ahead : u < Now(c) => u <= t}
Right(c, ahead) == {t \in ahead : t >= Now(c) /\ \A u \in ahead : u >= Now(c) => t <= u}

\* Mutation of UseLeft: of two buckets at the same distance only the right one is taken
UseLeftMut(c, ahead) ==
    {l \in Left(c, ahead) : \A r \in Right(c, ahead) : Gap(c, l) < Gap(c, r)}

\* Both sides are used when they are at the same distance.
UseLeft(c, ahead) ==
    {l \in Left(c, ahead) : \A r \in Right(c, ahead) : Gap(c, l) <= Gap(c, r)}

UseRight(c, ahead) ==
    {r \in Right(c, ahead) : \A l \in Left(c, ahead) : Gap(c, r) <= Gap(c, l)}

Unfinished(g, walk) == Cardinality(walk.selected) < Limit[g[1]] /\ walk.ahead # {}

(* One iteration: the nearest buckets, merged by hash, fill what is left of the
   limit; the target itself does not count. *)
Iteration(c, g, walk) ==
    LET used == UseLeft(c, walk.ahead) \cup UseRight(c, walk.ahead)
        records == {s \in Members(c, g) : c.time[s] \in used} \ {c.target}
        free == Limit[g[1]] - Cardinality(walk.selected)
    IN  [ahead |-> walk.ahead \ used,
         selected |-> walk.selected \cup Foremost(ByHash, records, free)]

-----------------------------------------------------------------------------
(* _nearest over all keys of the target, and the selection of a kind. *)
Neighbors(c, walks, kind) ==
    LET unique == UNION {walks[g].selected : g \in {h \in Groups(c) : h[1] = kind}}
    IN  Foremost(ByDistance(c), unique, Limit[kind])

(* schedule_candidate_comparisons: every selected snapshot once, with the kinds
   that selected it.  Two snapshots never have the same hash. *)
Schedule(c, walks) ==
    {[neighbor |-> s, neighborhoods |-> {kind \in Kind : s \in Neighbors(c, walks, kind)}] :
       s \in UNION {Neighbors(c, walks, kind) : kind \in Kind}}

=============================================================================
