--------------------------- MODULE CandidateRules ---------------------------
(***************************************************************************)
(* The deterministic detector of version candidates: which of two          *)
(* snapshots is the earlier one, and which of the five rules suggest that  *)
(* they are versions of one paper (detect_candidate).                      *)
(*                                                                         *)
(* Normalized titles and filename lineages, parent paths and hashes are    *)
(* values that are equal or not, None when there is none; the similarity   *)
(* of two texts is whether it is known and reaches the threshold.          *)
(***************************************************************************)
EXTENDS Naturals, FiniteSets

CONSTANTS Snapshot, Paper, None

(* A pair to compare: the snapshots a and b, the ordered pairs of the two
   kinds of continuity, and for every snapshot its first observation, its place
   in every paper (0: no membership), its version token and the other signals. *)
Input ==
    [a : Snapshot, b : Snapshot,
     source : SUBSET (Snapshot \X Snapshot), replace : SUBSET (Snapshot \X Snapshot),
     firstSeen : [Snapshot -> Nat], order : [Snapshot -> [Paper -> Nat]],
     token : [Snapshot -> [family : STRING, number : Nat \cup {None}] \cup {None}],
     lineage : [Snapshot -> STRING \cup {None}], title : [Snapshot -> STRING \cup {None}],
     parent : [Snapshot -> STRING \cup {None}], hash : [Snapshot -> STRING],
     supported : [Snapshot -> BOOLEAN], zeroText : [Snapshot -> BOOLEAN],
     similar : BOOLEAN, sameObservation : BOOLEAN]

Agree(signal, in) == signal[in.a] # None /\ signal[in.a] = signal[in.b]

-----------------------------------------------------------------------------
(* Direction *)

\* _token_parts: drafts come before the numbered revisions, finals after them.
Stage(family) == CASE family = "draft" -> 0 [] family = "final" -> 2 [] OTHER -> 1

TokenBefore(s, t) ==
    /\ s # None /\ t # None
    /\ \/ Stage(s.family) < Stage(t.family)
       \/ /\ Stage(s.family) = 1 /\ s.family = t.family
          /\ s.number # None /\ t.number # None /\ s.number < t.number

Ordered(in, Before(_, _)) ==
    {e \in {<<in.a, in.b>>, <<in.b, in.a>>} : Before(e[1], e[2])}

\* Mutation of FirstObserved: equal times put the first of the two first
FirstObservedMut(in) ==
    {IF in.firstSeen[in.a] <= in.firstSeen[in.b] THEN <<in.a, in.b>> ELSE <<in.b, in.a>>}

FirstObserved(in) == Ordered(in, LAMBDA s, t : in.firstSeen[s] < in.firstSeen[t])

CommonPapers(in) == {p \in Paper : in.order[in.a][p] > 0 /\ in.order[in.b][p] > 0}

PaperImport(in) ==
    Ordered(in, LAMBDA s, t : \E p \in CommonPapers(in) : in.order[s][p] < in.order[t][p])

TokenOrder(in) == Ordered(in, LAMBDA s, t : TokenBefore(in.token[s], in.token[t]))

\* _direction_from_pairs: foreign pairs and pairs in both directions conflict.
Clear(in, pairs) == pairs = {<<in.a, in.b>>} \/ pairs = {<<in.b, in.a>>}

(* The bases in their order of precedence. *)
Basis == <<"source_continuity", "replace_continuity", "first_observed", "paper_import",
           "filename_version">>

Evidence(in) == <<in.source, in.replace, FirstObserved(in), PaperImport(in), TokenOrder(in)>>

(* _determine_direction: the first basis that has evidence decides; if its
   evidence conflicts, nothing does. *)
Deciding(in) ==
    {k \in 1..5 : Clear(in, Evidence(in)[k]) /\ \A j \in 1..k-1 : Evidence(in)[j] = {}}

-----------------------------------------------------------------------------
(* Rules *)

RuleIds == <<"R1_SOURCE_CONTINUITY", "R2_REPLACE_CONTINUITY", "R3_PAPER_TITLE_TIME",
             "R4_NAME_TITLE_TEXT", "R5_ZERO_TEXT_LINEAGE">>

\* Mutation of TokensAgree: any direction of the tokens will do
TokensAgreeMut(in, k) == TokenOrder(in) # {}

TokensAgree(in, k) == TokenOrder(in) = Evidence(in)[k]

(* The numbers of the rules that match, given the basis k that decided. *)
Matches(in, k) ==
    LET lineage == Agree(in.lineage, in)
        title == Agree(in.title, in)
        related == CommonPapers(in) # {} IN
    {r \in 1..5 :
       \/ r = 1 /\ Clear(in, in.source)
       \/ r = 2 /\ Clear(in, in.replace)
       \/ r = 3 /\ related /\ title
       \/ r = 4 /\ lineage /\ title /\ in.similar
            /\ ~ in.zeroText[in.a] /\ ~ in.zeroText[in.b]
       \/ r = 5 /\ in.zeroText[in.a] /\ in.zeroText[in.b] /\ related /\ lineage
            /\ (in.sameObservation \/ Agree(in.parent, in))
            /\ Basis[k] \in {"source_continuity", "replace_continuity", "first_observed"}
            /\ TokensAgree(in, k)}

(* detect_candidate *)
Comparable(in) ==
    in.hash[in.a] # in.hash[in.b] /\ in.supported[in.a] /\ in.supported[in.b]

Candidate(in, k) ==
    LET pair == CHOOSE e \in Evidence(in)[k] : TRUE IN
    [earlier |-> pair[1], later |-> pair[2], basis |-> Basis[k],
     rule |-> CHOOSE r \in Matches(in, k) : \A s \in Matches(in, k) : r <= s,
     matched |-> Matches(in, k)]

(* The candidate, or none: a set of at most one. *)
Detected(in) ==
    {Candidate(in, k) : k \in {j \in Deciding(in) : Comparable(in) /\ Matches(in, j) # {}}}

=============================================================================
