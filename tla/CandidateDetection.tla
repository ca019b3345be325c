------------------------- MODULE CandidateDetection -------------------------
(***************************************************************************)
(* The two pure halves of candidate detection at work: a comparison that   *)
(* the worker is given (detect_candidate), or a new snapshot to be         *)
(* compared (schedule_candidate_comparisons).  A behaviour takes one piece *)
(* of work and computes its result, for a new snapshot after the walks     *)
(* through its groups; the properties compare the result with what the     *)
(* definition of a candidate and of a neighborhood promises.               *)
(***************************************************************************)
EXTENDS CandidateRules, CandidateNeighborhood

CONSTANTS
    Comparisons,  \* inputs of the detector, a subset of Input
    Corpora       \* indexes and targets, a subset of Corpus

ASSUME Work ==
    /\ Comparisons \subseteq Input /\ Corpora \subseteq Corpus
    /\ Comparisons \cap Corpora = {}

VARIABLES
    work, result,
    walks       \* the walk through every group of the target

vars == <<work, result, walks>>

Pending == None

Init ==
    /\ result = Pending
    /\ \/ work \in Comparisons /\ walks = << >>
       \/ work \in Corpora /\ walks = [g \in Groups(work) |-> Opened(work, g)]

Detect ==
    /\ result = Pending /\ work \in Comparisons
    /\ result' = Detected(work) /\ UNCHANGED <<work, walks>>

\* The groups are walked one after the other; in which order makes no difference.
Walk(g) ==
    /\ work \in Corpora /\ Unfinished(g, walks[g])
    /\ walks' = [walks EXCEPT ![g] = Iteration(work, g, @)]
    /\ UNCHANGED <<work, result>>

Compare ==
    /\ result = Pending /\ work \in Corpora
    /\ \A g \in DOMAIN walks : ~ Unfinished(g, walks[g])
    /\ result' = Schedule(work, walks) /\ UNCHANGED <<work, walks>>

Next == Detect \/ Compare \/ \E g \in DOMAIN walks : Walk(g)

Spec == Init /\ [][Next]_vars

-----------------------------------------------------------------------------
(* Properties *)

Finished(kind) == result # Pending /\ work \in kind

(* Which of the two snapshots is called a makes no difference: the same
   candidate, with the same direction and the same rules, or none. *)
Renamed(in) == [in EXCEPT !.a = in.b, !.b = in.a]
NamesDoNotMatter == Finished(Comparisons) => result = Detected(Renamed(work))

(* The rule a candidate is explained by never rests on evidence for the opposite
   direction, although rules and direction are computed apart. *)
EvidenceOf(rule, in) ==
    CASE rule = 1 -> in.source [] rule = 2 -> in.replace [] rule = 5 -> TokenOrder(in)
      [] OTHER -> {}
Supports(rule, c) == <<c.later, c.earlier>> \notin EvidenceOf(rule, work)
PrimaryRuleAgrees == Finished(Comparisons) => \A c \in result : Supports(c.rule, c)

(* A filename version decides the direction only between filenames of one lineage. *)
TokensNeedLineage ==
    Finished(Comparisons) =>
      \A c \in result : c.basis = "filename_version" => Agree(work.lineage, work)

(* A snapshot is compared with another one exactly if fewer than the limit of a
   kind are nearer, of those that share a key of the kind with it. *)
Sharing(c, kind) ==
    {s \in Neighbor \ {c.target} : c.keys[kind][s] \cap c.keys[kind][c.target] # {}}
Chosen(c, kind) == Foremost(ByDistance(c), Sharing(c, kind), Limit[kind])
NearestAreCompared ==
    Finished(Corpora) =>
      result = {[neighbor |-> s, neighborhoods |-> {kind \in Kind : s \in Chosen(work, kind)}] :
                  s \in UNION {Chosen(work, kind) : kind \in Kind}}

=============================================================================
