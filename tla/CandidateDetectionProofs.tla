----------------------- MODULE CandidateDetectionProofs -----------------------
(***************************************************************************)
(* Proofs about CandidateRules, for any two snapshots and any evidence     *)
(* about them: the detector does not care which of the two it is given     *)
(* first, and the rule a candidate is explained by never contradicts its   *)
(* direction.                                                              *)
(***************************************************************************)
EXTENDS CandidateDetection, FiniteSetTheorems, TLAPS

-----------------------------------------------------------------------------
(* Renaming the two snapshots *)

LEMMA RenamedFields ==
    ASSUME NEW in \in Input
    PROVE  LET out == Renamed(in) IN
           /\ out.a = in.b /\ out.b = in.a
           /\ out.source = in.source /\ out.replace = in.replace
           /\ out.firstSeen = in.firstSeen /\ out.order = in.order /\ out.token = in.token
           /\ out.lineage = in.lineage /\ out.title = in.title /\ out.parent = in.parent
           /\ out.hash = in.hash /\ out.supported = in.supported /\ out.zeroText = in.zeroText
           /\ out.similar = in.similar /\ out.sameObservation = in.sameObservation
  BY DEF Renamed, Input

\* Every kind of evidence is a set of ordered pairs, which names do not change.
LEMMA RenamedEvidence ==
    ASSUME NEW in \in Input
    PROVE  Evidence(Renamed(in)) = Evidence(in)
<1> DEFINE out == Renamed(in)
<1>1. /\ out.a = in.b /\ out.b = in.a /\ out.source = in.source /\ out.replace = in.replace
      /\ out.firstSeen = in.firstSeen /\ out.order = in.order /\ out.token = in.token
  BY RenamedFields
<1> HIDE DEF out
<1>2. FirstObserved(out) = FirstObserved(in)
  BY <1>1 DEF FirstObserved, Ordered
<1>3. TokenOrder(out) = TokenOrder(in)
  BY <1>1 DEF TokenOrder, Ordered
<1>4. CommonPapers(out) = CommonPapers(in)
  BY <1>1 DEF CommonPapers
<1>5. PaperImport(out) = PaperImport(in)
  BY <1>1, <1>4 DEF PaperImport, Ordered
<1>6. Evidence(out) = Evidence(in)
  BY <1>1, <1>2, <1>3, <1>5 DEF Evidence
<1> QED
  BY <1>6 DEF out

\* So the same basis decides, the same rules match, and the candidate is the same.
LEMMA RenamedDetection ==
    ASSUME NEW in \in Input
    PROVE  Detected(Renamed(in)) = Detected(in)
<1> DEFINE out == Renamed(in)
<1>1. /\ out.a = in.b /\ out.b = in.a /\ out.source = in.source /\ out.replace = in.replace
      /\ out.firstSeen = in.firstSeen /\ out.order = in.order /\ out.token = in.token
      /\ out.lineage = in.lineage /\ out.title = in.title /\ out.parent = in.parent
      /\ out.hash = in.hash /\ out.supported = in.supported /\ out.zeroText = in.zeroText
      /\ out.similar = in.similar /\ out.sameObservation = in.sameObservation
  BY RenamedFields
<1>2. Evidence(out) = Evidence(in)
  BY RenamedEvidence
<1> HIDE DEF out
<1>3. \A pairs : Clear(out, pairs) <=> Clear(in, pairs)
  BY <1>1 DEF Clear
<1>4. Deciding(out) = Deciding(in)
  BY <1>2, <1>3, Zenon DEF Deciding
<1>5. Comparable(out) <=> Comparable(in)
  BY <1>1 DEF Comparable
<1>6. /\ Agree(out.lineage, out) <=> Agree(in.lineage, in)
      /\ Agree(out.title, out) <=> Agree(in.title, in)
      /\ Agree(out.parent, out) <=> Agree(in.parent, in)
  BY <1>1 DEF Agree
<1>7. CommonPapers(out) = CommonPapers(in) /\ TokenOrder(out) = TokenOrder(in)
  BY <1>1 DEF CommonPapers, TokenOrder, Ordered
<1>8. ASSUME NEW k PROVE Matches(out, k) = Matches(in, k)
  <2>1. /\ Clear(out, out.source) <=> Clear(in, in.source)
        /\ Clear(out, out.replace) <=> Clear(in, in.replace)
        /\ TokensAgree(out, k) <=> TokensAgree(in, k)
    BY <1>1, <1>2, <1>3, <1>7 DEF TokensAgree
  <2>2. (out.zeroText[out.a] /\ out.zeroText[out.b]) <=> (in.zeroText[in.a] /\ in.zeroText[in.b])
    BY <1>1
  <2>3. (~ out.zeroText[out.a] /\ ~ out.zeroText[out.b])
          <=> (~ in.zeroText[in.a] /\ ~ in.zeroText[in.b])
    BY <1>1
  <2> QED
    BY <1>1, <1>6, <1>7, <2>1, <2>2, <2>3, Zenon DEF Matches
<1>9. ASSUME NEW k PROVE Candidate(out, k) = Candidate(in, k)
  <2> DEFINE From(pairs, matched) ==
        LET pair == CHOOSE e \in pairs : TRUE IN
        [earlier |-> pair[1], later |-> pair[2], basis |-> Basis[k],
         rule |-> CHOOSE r \in matched : \A s \in matched : r <= s,
         matched |-> matched]
  <2>1. /\ Candidate(out, k) = From(Evidence(out)[k], Matches(out, k))
        /\ Candidate(in, k) = From(Evidence(in)[k], Matches(in, k))
    BY DEF Candidate
  <2>2. Evidence(out)[k] = Evidence(in)[k] /\ Matches(out, k) = Matches(in, k)
    BY <1>2, <1>8
  <2> HIDE DEF From
  <2> QED
    BY <2>1, <2>2
<1>10. Detected(out) = Detected(in)
  BY <1>4, <1>5, <1>8, <1>9 DEF Detected
<1> QED
  BY <1>10 DEF out

-----------------------------------------------------------------------------
(* The primary rule *)

\* The primary rule is the first that matches.
LEMMA FirstRule ==
    ASSUME NEW R \in SUBSET (1..5), R # {}
    PROVE  LET r == CHOOSE r \in R : \A s \in R : r <= s
           IN  r \in R /\ \A s \in R : r <= s
<1>1. \E r \in R : \A s \in R : r <= s
  <2>1. \A r \in R : r \in {1, 2, 3, 4, 5}
    OBVIOUS
  <2>2. CASE 1 \in R
    BY <2>1, <2>2
  <2>3. CASE 1 \notin R /\ 2 \in R
    BY <2>1, <2>3
  <2>4. CASE {1, 2} \cap R = {} /\ 3 \in R
    BY <2>1, <2>4
  <2>5. CASE {1, 2, 3} \cap R = {} /\ 4 \in R
    BY <2>1, <2>5
  <2>6. CASE {1, 2, 3, 4} \cap R = {} /\ 5 \in R
    BY <2>1, <2>6
  <2> QED
    BY <2>1, <2>2, <2>3, <2>4, <2>5, <2>6
<1> QED
  BY <1>1

\* A rule that rests on directed evidence rests on the evidence that decided.
LEMMA RuleAndDirection ==
    ASSUME NEW in \in Input, NEW c \in Detected(in)
    PROVE  <<c.later, c.earlier>> \notin EvidenceOf(c.rule, in)
<1>1. PICK k \in Deciding(in) : Comparable(in) /\ Matches(in, k) # {} /\ c = Candidate(in, k)
  BY DEF Detected
<1>2. k \in 1..5 /\ Clear(in, Evidence(in)[k]) /\ \A j \in 1..k-1 : Evidence(in)[j] = {}
  BY DEF Deciding
<1> DEFINE pair == CHOOSE e \in Evidence(in)[k] : TRUE
           rule == CHOOSE r \in Matches(in, k) : \A s \in Matches(in, k) : r <= s
<1>3. c.earlier = pair[1] /\ c.later = pair[2] /\ c.rule = rule
  BY <1>1 DEF Candidate
<1>4. Matches(in, k) \in SUBSET (1..5)
  BY DEF Matches
<1>5. rule \in Matches(in, k) /\ \A s \in Matches(in, k) : rule <= s
  BY <1>1, <1>4, FirstRule
<1>6. in.a # in.b
  BY <1>1 DEF Comparable
<1>7. /\ Evidence(in)[k] = {pair}
      /\ pair = <<in.a, in.b>> \/ pair = <<in.b, in.a>>
  BY <1>2 DEF Clear
<1> HIDE DEF pair, rule
<1>8. <<c.later, c.earlier>> # pair
  BY <1>3, <1>6, <1>7
<1>9. Evidence(in)[1] = in.source /\ Evidence(in)[2] = in.replace
  BY DEF Evidence
<1>10. CASE rule = 1
  <2>0. 1 \in Matches(in, k)
    BY <1>5, <1>10
  <2>1. Clear(in, in.source)
    BY <2>0 DEF Matches
  <2>2. in.source # {}
    BY <2>1 DEF Clear
  <2>3. k = 1
    BY <1>2, <1>9, <2>2
  <2> QED
    BY <1>3, <1>7, <1>8, <1>9, <1>10, <2>3 DEF EvidenceOf
<1>11. CASE rule = 2
  <2>0. 2 \in Matches(in, k)
    BY <1>5, <1>11
  <2>1. Clear(in, in.replace)
    BY <2>0 DEF Matches
  <2>2. 1 \notin Matches(in, k)
    BY <1>5, <1>11
  <2>3. ~Clear(in, in.source)
    BY <2>2 DEF Matches
  <2>4. k # 1 /\ in.replace # {}
    BY <1>2, <1>9, <2>1, <2>3 DEF Clear
  <2>5. k = 2
    BY <1>2, <1>9, <2>4
  <2> QED
    BY <1>3, <1>7, <1>8, <1>9, <1>11, <2>5 DEF EvidenceOf
<1>12. CASE rule = 5
  <2>1. TokenOrder(in) = Evidence(in)[k]
    BY <1>5, <1>12 DEF Matches, TokensAgree
  <2> QED
    BY <1>3, <1>7, <1>8, <1>12, <2>1 DEF EvidenceOf
<1>13. CASE rule \notin {1, 2, 5}
  BY <1>3, <1>13 DEF EvidenceOf
<1> QED
  BY <1>10, <1>11, <1>12, <1>13

-----------------------------------------------------------------------------
(* The foremost of a set *)

StrictOrder(order, S) ==
    /\ \A s \in S : <<s, s>> \notin order
    /\ \A s, t, u \in S : <<s, t>> \in order /\ <<t, u>> \in order => <<s, u>> \in order

Total(order, S) == \A s, t \in S : s # t => <<s, t>> \in order \/ <<t, s>> \in order

Preceding(order, S, s) == {t \in S : <<t, s>> \in order}

\* What stands before an element is finite, and less than what stands before a later one.
LEMMA PrecedingFacts ==
    ASSUME NEW S, IsFiniteSet(S), NEW order, StrictOrder(order, S)
    PROVE  /\ \A s : /\ IsFiniteSet(Preceding(order, S, s))
                     /\ Cardinality(Preceding(order, S, s)) \in Nat
           /\ \A s, t \in S : <<t, s>> \in order =>
                /\ Preceding(order, S, t) \subseteq Preceding(order, S, s)
                /\ t \in Preceding(order, S, s) \ Preceding(order, S, t)
<1>1. ASSUME NEW s
      PROVE  /\ IsFiniteSet(Preceding(order, S, s))
             /\ Cardinality(Preceding(order, S, s)) \in Nat
  <2>1. Preceding(order, S, s) \in SUBSET S
    BY DEF Preceding
  <2> QED
    BY <2>1, FS_Subset, FS_CardinalityType
<1> QED
  BY <1>1 DEF Preceding, StrictOrder

\* Either all of a set are among its n foremost, or there are n of them.
LEMMA ForemostFills ==
    ASSUME NEW S, IsFiniteSet(S), NEW order, StrictOrder(order, S), NEW n \in Nat
    PROVE  /\ Foremost(order, S, n) \subseteq S /\ IsFiniteSet(Foremost(order, S, n))
           /\ Cardinality(Foremost(order, S, n)) \in Nat
           /\ Foremost(order, S, n) # S => Cardinality(Foremost(order, S, n)) >= n
<1> DEFINE P(s) == Preceding(order, S, s)
           F == Foremost(order, S, n)
           late == {P(s) : s \in S \ F}
<1>1. F = {s \in S : Cardinality(P(s)) < n}
  BY DEF Foremost, Preceding
<1>2. F \in SUBSET S
  BY <1>1
<1>3. IsFiniteSet(F) /\ Cardinality(F) \in Nat
  BY <1>2, FS_Subset, FS_CardinalityType
<1>4. ASSUME F # S PROVE Cardinality(F) >= n
  <2>1. late \subseteq SUBSET S /\ late # {}
    BY <1>2, <1>4 DEF Preceding
  <2>2. IsWellFoundedOn(StrictSubsetOrdering(S), SUBSET S)
    BY FS_StrictSubsetOrderingWellFounded, FS_FiniteSubsetsOfFinite
  <2> HIDE DEF late
  <2>3. \E x \in late : \A y \in late : <<y, x>> \notin StrictSubsetOrdering(S)
    BY <2>1, <2>2, WFMin
  <2> USE DEF late
  <2>4. PICK s \in S \ F : \A t \in S \ F : <<P(t), P(s)>> \notin StrictSubsetOrdering(S)
    BY <2>3
  <2>5. P(s) \subseteq F
    <3> SUFFICES ASSUME NEW t \in P(s), t \notin F PROVE FALSE
      OBVIOUS
    <3>1. t \in S \ F /\ <<t, s>> \in order
      BY DEF Preceding
    <3>2. P(t) \subseteq P(s) /\ P(t) # P(s)
      BY <3>1, PrecedingFacts
    <3>3. P(t) \in SUBSET S /\ P(s) \in SUBSET S
      BY DEF Preceding
    <3>4. <<P(t), P(s)>> \in StrictSubsetOrdering(S)
      BY <3>2, <3>3 DEF StrictSubsetOrdering
    <3> QED
      BY <2>4, <3>1, <3>4
  <2>6. Cardinality(P(s)) <= Cardinality(F)
    BY <1>3, <2>5, FS_Subset
  <2>7. Cardinality(P(s)) >= n
    BY <1>1, <2>4, PrecedingFacts
  <2> QED
    BY <1>3, <2>6, <2>7, PrecedingFacts
<1> QED
  BY <1>2, <1>3, <1>4

\* What is kept of every part is enough to find the foremost of the whole:
\* a limit for each part, and again for their union, loses nothing.
LEMMA ForemostOfParts ==
    ASSUME NEW parts, NEW n \in Nat, NEW order,
           NEW U, IsFiniteSet(U), StrictOrder(order, U), Total(order, U),
           \A s : s \in U <=> \E p \in parts : s \in p,
           NEW V, \A s : s \in V <=> \E p \in parts : s \in Foremost(order, p, n)
    PROVE  Foremost(order, V, n) = Foremost(order, U, n)
<1>1. ASSUME NEW p \in parts
      PROVE  /\ p \in SUBSET U /\ IsFiniteSet(p)
             /\ Foremost(order, p, n) = {s \in p : Cardinality(Preceding(order, p, s)) < n}
  BY <1>1, FS_Subset DEF Foremost, Preceding
<1>2. /\ V \in SUBSET U /\ IsFiniteSet(V) /\ StrictOrder(order, V)
      /\ \A p \in parts : Foremost(order, p, n) \subseteq V
  <2>1. V \in SUBSET U
    BY <1>1
  <2> QED
    BY <2>1, FS_Subset DEF StrictOrder
<1>3. /\ Foremost(order, U, n) = {s \in U : Cardinality(Preceding(order, U, s)) < n}
      /\ Foremost(order, V, n) = {s \in V : Cardinality(Preceding(order, V, s)) < n}
  BY DEF Foremost, Preceding
<1>4. \A s : /\ IsFiniteSet(Preceding(order, U, s)) /\ Cardinality(Preceding(order, U, s)) \in Nat
             /\ IsFiniteSet(Preceding(order, V, s)) /\ Cardinality(Preceding(order, V, s)) \in Nat
             /\ Preceding(order, V, s) \in SUBSET Preceding(order, U, s)
  <2>1. \A s : Preceding(order, V, s) \in SUBSET Preceding(order, U, s)
    BY <1>2 DEF Preceding
  <2> QED
    BY <1>2, <2>1, PrecedingFacts
<1>5. ASSUME NEW s \in Foremost(order, U, n) PROVE s \in V
  <2>1. PICK p \in parts : s \in p
    BY <1>3
  <2>2. Preceding(order, p, s) \in SUBSET Preceding(order, U, s)
    BY <1>1, <2>1 DEF Preceding
  <2>3. Cardinality(Preceding(order, p, s)) <= Cardinality(Preceding(order, U, s))
    BY <1>4, <2>2, FS_Subset
  <2>4. Cardinality(Preceding(order, p, s)) \in Nat
    BY <1>4, <2>2, FS_Subset, FS_CardinalityType
  <2>5. Cardinality(Preceding(order, U, s)) < n
    BY <1>3
  <2>6. Cardinality(Preceding(order, U, s)) \in Nat
    BY <1>4
  <2>7. Cardinality(Preceding(order, p, s)) < n
    BY ONLY <2>3, <2>4, <2>5, <2>6, n \in Nat
  <2> QED
    BY <1>1, <1>2, <2>1, <2>7
<1>6. ASSUME NEW s \in Foremost(order, U, n) PROVE s \in Foremost(order, V, n)
  <2>1. s \in V /\ Cardinality(Preceding(order, U, s)) < n
    BY <1>3, <1>5
  <2>2. Cardinality(Preceding(order, V, s)) <= Cardinality(Preceding(order, U, s))
    BY <1>4, FS_Subset
  <2>3. /\ Cardinality(Preceding(order, U, s)) \in Nat
        /\ Cardinality(Preceding(order, V, s)) \in Nat
    BY <1>4
  <2>4. Cardinality(Preceding(order, V, s)) < n
    BY ONLY <2>1, <2>2, <2>3, n \in Nat
  <2> QED
    BY <1>3, <2>1, <2>4
<1>7. ASSUME NEW s \in Foremost(order, V, n) PROVE s \in Foremost(order, U, n)
  <2> DEFINE F == Foremost(order, U, n)
  <2> SUFFICES ASSUME s \notin F PROVE FALSE
    OBVIOUS
  <2>1. s \in U /\ s \in V /\ Cardinality(Preceding(order, V, s)) < n
    BY <1>2, <1>3
  <2>2. Cardinality(Preceding(order, U, s)) >= n
    <3>1. ~ (Cardinality(Preceding(order, U, s)) < n)
      BY <1>3, <2>1
    <3>2. Cardinality(Preceding(order, U, s)) \in Nat
      BY <1>4
    <3> QED
      BY ONLY <3>1, <3>2, n \in Nat
  <2>3. F \subseteq U /\ IsFiniteSet(F) /\ Cardinality(F) \in Nat /\ Cardinality(F) >= n
    BY <2>1, ForemostFills
  <2>4. ASSUME NEW t \in F PROVE t \in Preceding(order, V, s)
    <3>1. t \in U /\ t \in V /\ Cardinality(Preceding(order, U, t)) < n
      BY <1>3, <1>5
    <3>2. CASE <<s, t>> \in order
      <4>1. Preceding(order, U, s) \in SUBSET Preceding(order, U, t)
        BY <2>1, <3>1, <3>2, PrecedingFacts
      <4>2. Cardinality(Preceding(order, U, s)) <= Cardinality(Preceding(order, U, t))
        BY <1>4, <4>1, FS_Subset
      <4>3. /\ Cardinality(Preceding(order, U, s)) \in Nat
            /\ Cardinality(Preceding(order, U, t)) \in Nat
        BY <1>4
      <4> QED
        BY <2>2, <3>1, <4>2, <4>3
    <3>3. s # t
      BY <2>4
    <3>4. <<t, s>> \in order
      BY <2>1, <3>1, <3>2, <3>3 DEF Total, Preceding
    <3> QED
      BY <3>1, <3>4 DEF Preceding
  <2>5. F \in SUBSET Preceding(order, V, s)
    BY <2>4
  <2>6. Cardinality(F) <= Cardinality(Preceding(order, V, s))
    BY <1>4, <2>5, FS_Subset
  <2> QED
    BY <1>4, <2>1, <2>3, <2>6
<1> QED
  BY <1>6, <1>7

\* A walk that has not filled the limit goes on with the records behind it.
LEMMA ForemostGrows ==
    ASSUME NEW done, NEW rest, IsFiniteSet(done \cup rest), done \cap rest = {},
           NEW order, StrictOrder(order, done \cup rest),
           \A s \in done, t \in rest : <<s, t>> \in order,
           NEW n \in Nat, Cardinality(Foremost(order, done, n)) < n
    PROVE  /\ n - Cardinality(done) \in Nat /\ Foremost(order, done, n) = done
           /\ Foremost(order, done \cup rest, n) =
                done \cup Foremost(order, rest, n - Cardinality(done))
<1> DEFINE U == done \cup rest
           k == Cardinality(done)
<1>1. /\ done \in SUBSET U /\ rest \in SUBSET U
      /\ IsFiniteSet(done) /\ IsFiniteSet(rest) /\ k \in Nat
      /\ StrictOrder(order, done) /\ StrictOrder(order, rest)
  BY FS_Subset, FS_CardinalityType DEF StrictOrder
<1>2. Foremost(order, done, n) = done
  <2>1. /\ Cardinality(Foremost(order, done, n)) \in Nat
        /\ Foremost(order, done, n) # done => Cardinality(Foremost(order, done, n)) >= n
    BY <1>1, ForemostFills
  <2> QED
    BY <2>1
<1>3. k < n
  BY <1>2
<1>4. ASSUME NEW s \in done PROVE Cardinality(Preceding(order, U, s)) < n
  <2>1. Preceding(order, U, s) \in SUBSET done
    BY DEF Preceding, StrictOrder
  <2>2. Cardinality(Preceding(order, U, s)) <= k
    BY <1>1, <2>1, FS_Subset
  <2> QED
    BY <1>1, <1>3, <2>2, PrecedingFacts
<1>5. ASSUME NEW s \in rest
      PROVE  Cardinality(Preceding(order, U, s)) = k + Cardinality(Preceding(order, rest, s))
  <2>1. Preceding(order, U, s) = done \cup Preceding(order, rest, s)
    BY DEF Preceding
  <2>2. IsFiniteSet(Preceding(order, rest, s)) /\ Cardinality(Preceding(order, rest, s)) \in Nat
    BY <1>1, PrecedingFacts
  <2>3. done \cap Preceding(order, rest, s) = {}
    BY DEF Preceding
  <2> QED
    <3>1. Cardinality(done \cup Preceding(order, rest, s)) =
            k + Cardinality(Preceding(order, rest, s)) - Cardinality(done \cap Preceding(order, rest, s))
      BY <1>1, <2>2, FS_Union
    <3>2. Cardinality(done \cap Preceding(order, rest, s)) = 0
      BY <2>3, FS_EmptySet
    <3>3. k \in Nat
      BY <1>1
    <3>4. Cardinality(done \cup Preceding(order, rest, s))
            = k + Cardinality(Preceding(order, rest, s))
      BY ONLY <2>2, <3>1, <3>2, <3>3
    <3> QED
      BY ONLY <2>1, <3>4
<1>6. /\ Foremost(order, U, n) = {s \in U : Cardinality(Preceding(order, U, s)) < n}
      /\ Foremost(order, rest, n - k) = {s \in rest : Cardinality(Preceding(order, rest, s)) < n - k}
  BY DEF Foremost, Preceding
<1>7. \A s \in rest : Cardinality(Preceding(order, U, s)) < n
                        <=> Cardinality(Preceding(order, rest, s)) < n - k
  <2> TAKE s \in rest
  <2>1. Cardinality(Preceding(order, rest, s)) \in Nat
    BY <1>1, PrecedingFacts
  <2>2. Cardinality(Preceding(order, U, s)) = k + Cardinality(Preceding(order, rest, s))
    BY <1>5
  <2> QED
    BY ONLY <1>1, <2>1, <2>2, n \in Nat
<1>8. Foremost(order, U, n) = done \cup Foremost(order, rest, n - k)
  BY <1>4, <1>6, <1>7
<1>9. n - k \in Nat
  BY <1>1, <1>3
<1> QED
  BY <1>2, <1>8, <1>9

\* What is behind a full limit is never among the foremost.
LEMMA ForemostIsFull ==
    ASSUME NEW done, NEW rest, NEW U, U = done \cup rest, IsFiniteSet(U),
           NEW order, StrictOrder(order, U),
           \A s \in done, t \in rest : <<s, t>> \in order,
           NEW n \in Nat, ~ (Cardinality(Foremost(order, done, n)) < n)
    PROVE  Foremost(order, U, n) = Foremost(order, done, n)
<1>1. /\ done \in SUBSET U /\ IsFiniteSet(done) /\ StrictOrder(order, done)
      /\ Cardinality(Foremost(order, done, n)) \in Nat
      /\ Foremost(order, done, n) \in SUBSET done
  <2>1. done \in SUBSET U /\ IsFiniteSet(done) /\ StrictOrder(order, done)
    BY FS_Subset DEF StrictOrder
  <2> QED
    BY <2>1, ForemostFills
<1>2. /\ Foremost(order, U, n) = {s \in U : Cardinality(Preceding(order, U, s)) < n}
      /\ Foremost(order, done, n) = {s \in done : Cardinality(Preceding(order, done, s)) < n}
  BY DEF Foremost, Preceding
<1>3. ASSUME NEW s \in done PROVE Preceding(order, U, s) = Preceding(order, done, s)
  BY DEF Preceding, StrictOrder
<1>4. ASSUME NEW s \in rest PROVE ~ (Cardinality(Preceding(order, U, s)) < n)
  <2>1. Foremost(order, done, n) \in SUBSET Preceding(order, U, s)
    BY <1>1 DEF Preceding
  <2>2. Cardinality(Foremost(order, done, n)) <= Cardinality(Preceding(order, U, s))
    BY <2>1, FS_Subset, PrecedingFacts
  <2> QED
    BY <1>1, <2>2, PrecedingFacts
<1>5. Foremost(order, U, n) = Foremost(order, done, n)
  BY <1>2, <1>3, <1>4
<1> QED
  BY <1>5

-----------------------------------------------------------------------------
(* The walk through a group *)

Gaps(c) == \A s \in Neighbor : c.time[s] \in Int

\* The order by distance is a total order of the snapshots; among snapshots at
\* one distance it is the order of their hashes.
LEMMA DistanceOrder ==
    ASSUME NEW c \in Corpus
    PROVE  /\ StrictOrder(ByDistance(c), Neighbor) /\ Total(ByDistance(c), Neighbor)
           /\ Now(c) \in Int /\ Gaps(c)
           /\ \A s, t \in Neighbor :
                /\ Gap(c, c.time[s]) < Gap(c, c.time[t]) => <<s, t>> \in ByDistance(c)
                /\ Gap(c, c.time[s]) = Gap(c, c.time[t]) =>
                     (<<s, t>> \in ByDistance(c) <=> <<s, t>> \in ByHash)
<1>1. Now(c) \in Int /\ Gaps(c)
  BY DEF Corpus, Now, Gaps
<1> DEFINE d(s) == Gap(c, c.time[s])
<1>2. \A s \in Neighbor : d(s) \in Int /\ s \in Int
  BY <1>1, Limits DEF Gap, Gaps
<1>3. \A s, t : <<s, t>> \in ByDistance(c)
                  <=> s \in Neighbor /\ t \in Neighbor /\ (d(s) < d(t) \/ (d(s) = d(t) /\ s < t))
  BY DEF ByDistance
<1>4. \A s, t : <<s, t>> \in ByHash <=> s \in Neighbor /\ t \in Neighbor /\ s < t
  BY DEF ByHash
<1> HIDE DEF d
<1>5. StrictOrder(ByDistance(c), Neighbor) /\ Total(ByDistance(c), Neighbor)
  BY ONLY <1>2, <1>3 DEF StrictOrder, Total
<1>6. \A s, t \in Neighbor :
        /\ d(s) < d(t) => <<s, t>> \in ByDistance(c)
        /\ d(s) = d(t) => (<<s, t>> \in ByDistance(c) <=> <<s, t>> \in ByHash)
  <2> SUFFICES ASSUME NEW s \in Neighbor, NEW t \in Neighbor
               PROVE  /\ d(s) < d(t) => <<s, t>> \in ByDistance(c)
                      /\ d(s) = d(t) => (<<s, t>> \in ByDistance(c) <=> <<s, t>> \in ByHash)
    OBVIOUS
  <2>1. d(s) \in Int /\ d(t) \in Int
    BY <1>2
  <2>2. <<s, t>> \in ByDistance(c) <=> d(s) < d(t) \/ (d(s) = d(t) /\ s < t)
    BY <1>3
  <2>3. <<s, t>> \in ByHash <=> s < t
    BY <1>4
  <2> QED
    BY ONLY <2>1, <2>2, <2>3
<1> QED
  BY <1>1, <1>5, <1>6 DEF d

\* A finite set of times that is not empty has a last and a first one.
LEMMA LastAndFirst ==
    ASSUME NEW T \in SUBSET Int, IsFiniteSet(T), T # {}
    PROVE  /\ \E t \in T : \A u \in T : u <= t
           /\ \E t \in T : \A u \in T : t <= u
<1> DEFINE up == {p \in T \X T : p[1] < p[2]}
           down == {p \in T \X T : p[2] < p[1]}
<1>1. ASSUME NEW order, StrictOrder(order, T)
      PROVE  \E t \in T : \A u \in T : <<u, t>> \notin order
  <2>1. /\ Foremost(order, T, 1) \subseteq T /\ IsFiniteSet(Foremost(order, T, 1))
        /\ Foremost(order, T, 1) # T => Cardinality(Foremost(order, T, 1)) >= 1
    BY <1>1, ForemostFills
  <2>2. Foremost(order, T, 1) # {}
    BY <2>1, FS_EmptySet
  <2>3. PICK t \in T : Cardinality(Preceding(order, T, t)) < 1
    BY <2>2 DEF Foremost, Preceding
  <2>4. Preceding(order, T, t) = {}
    <3>1. IsFiniteSet(Preceding(order, T, t)) /\ Cardinality(Preceding(order, T, t)) \in Nat
      BY <1>1, PrecedingFacts
    <3>2. Cardinality(Preceding(order, T, t)) = 0
      BY ONLY <2>3, <3>1
    <3> QED
      BY <3>1, <3>2, FS_EmptySet
  <2> QED
    BY <2>4 DEF Preceding
<1>0. /\ \A x, y : <<x, y>> \in up <=> x \in T /\ y \in T /\ x < y
      /\ \A x, y : <<x, y>> \in down <=> x \in T /\ y \in T /\ y < x
  OBVIOUS
<1> HIDE DEF up, down
<1>4. \A x \in T : x \in Int
  OBVIOUS
<1>2. StrictOrder(up, T) /\ StrictOrder(down, T)
  BY ONLY <1>0, <1>4 DEF StrictOrder
<1>3. /\ \E t \in T : \A u \in T : <<u, t>> \notin up
      /\ \E t \in T : \A u \in T : <<u, t>> \notin down
  BY <1>1, <1>2
<1>5. \E t \in T : \A u \in T : u <= t
  <2>1. PICK t \in T : \A u \in T : <<u, t>> \notin down
    BY <1>3
  <2>2. \A u \in T : ~ (t < u)
    BY <1>0, <2>1
  <2> QED
    BY ONLY <1>4, <2>1, <2>2
<1>6. \E t \in T : \A u \in T : t <= u
  <2>1. PICK t \in T : \A u \in T : <<u, t>> \notin up
    BY <1>3
  <2>2. \A u \in T : ~ (u < t)
    BY <1>0, <2>1
  <2> QED
    BY ONLY <1>4, <2>1, <2>2
<1> QED
  BY <1>5, <1>6

\* What an iteration takes is at one distance, and nearer than all it leaves.
LEMMA NearestTimes ==
    ASSUME NEW c, Now(c) \in Int, NEW ahead \in SUBSET Int, IsFiniteSet(ahead)
    PROVE  LET used == UseLeft(c, ahead) \cup UseRight(c, ahead) IN
           /\ used \subseteq ahead
           /\ \A t, u \in used : Gap(c, t) = Gap(c, u)
           /\ \A t \in used, u \in ahead \ used : Gap(c, t) < Gap(c, u)
<1> DEFINE used == UseLeft(c, ahead) \cup UseRight(c, ahead)
           n == Now(c)
<1>1. /\ \A t : t \in Left(c, ahead) <=> t \in ahead /\ t < n /\ \A u \in ahead : u < n => u <= t
      /\ \A t : t \in Right(c, ahead) <=> t \in ahead /\ t >= n /\ \A u \in ahead : u >= n => t <= u
      /\ \A t : t \in UseLeft(c, ahead) <=>
                  t \in Left(c, ahead) /\ \A r \in Right(c, ahead) : Gap(c, t) <= Gap(c, r)
      /\ \A t : t \in UseRight(c, ahead) <=>
                  t \in Right(c, ahead) /\ \A l \in Left(c, ahead) : Gap(c, t) <= Gap(c, l)
  BY DEF Left, Right, UseLeft, UseRight
<1>2. \A t \in ahead : /\ t \in Int /\ Gap(c, t) \in Int
                       /\ t < n => Gap(c, t) = n - t
                       /\ t >= n => Gap(c, t) = t - n
  BY DEF Gap
<1>3. ASSUME NEW t \in ahead, t < n PROVE Left(c, ahead) # {}
  <2> DEFINE T == {u \in ahead : u < n}
  <2>1. T \in SUBSET Int /\ IsFiniteSet(T) /\ T # {}
    BY <1>3, FS_Subset
  <2> HIDE DEF T
  <2>2. \E x \in T : \A u \in T : u <= x
    BY <2>1, LastAndFirst
  <2> QED
    BY <1>1, <2>2 DEF T
<1>4. ASSUME NEW t \in ahead, t >= n PROVE Right(c, ahead) # {}
  <2> DEFINE T == {u \in ahead : u >= n}
  <2>1. T \in SUBSET Int /\ IsFiniteSet(T) /\ T # {}
    BY <1>4, FS_Subset
  <2> HIDE DEF T
  <2>2. \E x \in T : \A u \in T : x <= u
    BY <2>1, LastAndFirst
  <2> QED
    BY <1>1, <2>2 DEF T
<1> HIDE DEF n
<1>5. n \in Int
  BY DEF n
<1>6. \A t \in ahead : t < n \/ t >= n
  BY <1>2, <1>5
<1>7. used \subseteq ahead
  BY <1>1
<1>8. ASSUME NEW t \in used, NEW u \in ahead
      PROVE  Gap(c, t) <= Gap(c, u) /\ (u \notin used => Gap(c, t) < Gap(c, u))
  <2>1. CASE u < n
    <3>1. PICK l \in Left(c, ahead) : TRUE
      BY <1>3, <2>1
    <3>2. u <= l /\ l < n /\ l \in ahead
      BY <1>1, <2>1, <3>1
    <3>3. CASE t \in UseLeft(c, ahead)
      <4>1. t \in ahead /\ t < n /\ u <= t
        BY <1>1, <2>1, <3>3
      <4> QED
        BY <1>2, <1>5, <2>1, <3>3, <4>1
    <3>4. CASE t \in UseRight(c, ahead) /\ l \in UseLeft(c, ahead)
      <4>1. t \in ahead /\ Gap(c, t) <= Gap(c, l)
        BY <1>1, <3>1, <3>4
      <4>2. u \notin used => u # l
        BY <3>4
      <4> QED
        BY <1>2, <1>5, <2>1, <3>2, <4>1, <4>2
    <3>5. CASE t \in UseRight(c, ahead) /\ l \notin UseLeft(c, ahead)
      <4>1. PICK r \in Right(c, ahead) : ~ (Gap(c, l) <= Gap(c, r))
        BY <1>1, <3>1, <3>5
      <4>2. r \in ahead /\ t \in ahead /\ r <= t /\ t <= r
        BY <1>1, <3>5, <4>1
      <4> QED
        BY <1>2, <1>5, <2>1, <3>2, <4>1, <4>2
    <3> QED
      BY <3>3, <3>4, <3>5
  <2>2. CASE u >= n
    <3>1. PICK r \in Right(c, ahead) : TRUE
      BY <1>4, <2>2
    <3>2. r <= u /\ r >= n /\ r \in ahead
      BY <1>1, <2>2, <3>1
    <3>3. CASE t \in UseRight(c, ahead)
      <4>1. t \in ahead /\ t >= n /\ t <= u
        BY <1>1, <2>2, <3>3
      <4> QED
        BY <1>2, <1>5, <2>2, <3>3, <4>1
    <3>4. CASE t \in UseLeft(c, ahead) /\ r \in UseRight(c, ahead)
      <4>1. t \in ahead /\ Gap(c, t) <= Gap(c, r)
        BY <1>1, <3>1, <3>4
      <4>2. u \notin used => u # r
        BY <3>4
      <4> QED
        BY <1>2, <1>5, <2>2, <3>2, <4>1, <4>2
    <3>5. CASE t \in UseLeft(c, ahead) /\ r \notin UseRight(c, ahead)
      <4>1. PICK l \in Left(c, ahead) : ~ (Gap(c, r) <= Gap(c, l))
        BY <1>1, <3>1, <3>5
      <4>2. l \in ahead /\ t \in ahead /\ l <= t /\ t <= l
        BY <1>1, <3>5, <4>1
      <4> QED
        BY <1>2, <1>5, <2>2, <3>2, <4>1, <4>2
    <3> QED
      BY <3>3, <3>4, <3>5
  <2> QED
    BY <1>6, <2>1, <2>2
<1>9. \A t, u \in used : Gap(c, t) = Gap(c, u)
  <2> SUFFICES ASSUME NEW t \in used, NEW u \in used PROVE Gap(c, t) = Gap(c, u)
    OBVIOUS
  <2>1. t \in ahead /\ u \in ahead
    BY <1>7
  <2>2. Gap(c, t) <= Gap(c, u) /\ Gap(c, u) <= Gap(c, t)
    BY <1>8, <2>1
  <2>3. Gap(c, t) \in Int /\ Gap(c, u) \in Int
    BY <1>2, <2>1
  <2> QED
    BY ONLY <2>2, <2>3
<1> QED
  BY <1>7, <1>8, <1>9

Others(c, g) == Members(c, g) \ {c.target}
Passed(c, g, walk) == {s \in Others(c, g) : c.time[s] \notin walk.ahead}

\* Between two iterations: what has been passed is nearer than what is ahead,
\* and the foremost of it has been selected.
Found(c, g, walk) ==
    /\ walk.ahead \subseteq {c.time[s] : s \in Members(c, g)}
    /\ \A s \in Passed(c, g, walk), t \in walk.ahead : Gap(c, c.time[s]) < Gap(c, t)
    /\ walk.selected = Foremost(ByDistance(c), Passed(c, g, walk), Limit[g[1]])

LEMMA GroupFacts ==
    ASSUME NEW c \in Corpus, NEW g \in Groups(c)
    PROVE  /\ Limit[g[1]] \in Nat /\ g[1] \in Kind
           /\ \A S : S \subseteq Members(c, g) =>
                /\ IsFiniteSet(S) /\ S \subseteq Neighbor
                /\ StrictOrder(ByDistance(c), S) /\ Total(ByDistance(c), S)
           /\ \A S : S \subseteq {c.time[s] : s \in Members(c, g)} =>
                S \in SUBSET Int /\ IsFiniteSet(S)
<1>1. Limit[g[1]] \in Nat /\ g[1] \in Kind
  BY Limits DEF Groups
<1>2. Members(c, g) \in SUBSET Neighbor /\ IsFiniteSet(Members(c, g))
  <2>1. Members(c, g) \in SUBSET Neighbor
    BY DEF Members
  <2> QED
    BY <2>1, FS_Subset, Limits
<1>3. ASSUME NEW S, S \subseteq Members(c, g)
      PROVE  /\ IsFiniteSet(S) /\ S \subseteq Neighbor
             /\ StrictOrder(ByDistance(c), S) /\ Total(ByDistance(c), S)
  <2>1. S \in SUBSET Members(c, g) /\ S \subseteq Neighbor
    BY <1>2, <1>3
  <2>2. IsFiniteSet(S)
    BY <1>2, <2>1, FS_Subset
  <2>3. StrictOrder(ByDistance(c), Neighbor) /\ Total(ByDistance(c), Neighbor)
    BY DistanceOrder
  <2> QED
    BY <2>1, <2>2, <2>3 DEF StrictOrder, Total
<1>4. ASSUME NEW S, S \subseteq {c.time[s] : s \in Members(c, g)}
      PROVE  S \in SUBSET Int /\ IsFiniteSet(S)
  <2> DEFINE M == Members(c, g)
             T == {c.time[s] : s \in M}
             f == [s \in M |-> c.time[s]]
  <2>1. T \in SUBSET Int
    BY <1>2, DistanceOrder DEF Gaps
  <2>2. f \in Surjection(M, T)
    BY DEF Surjection
  <2>3. IsFiniteSet(T)
    BY <1>2, <2>2, FS_Surjection
  <2> QED
    BY <1>4, <2>1, <2>3, FS_Subset
<1> QED
  BY <1>1, <1>3, <1>4

LEMMA StartOfWalk ==
    ASSUME NEW c \in Corpus, NEW g \in Groups(c)
    PROVE  Found(c, g, Opened(c, g))
<1>1. Passed(c, g, Opened(c, g)) = {}
  BY DEF Passed, Others, Opened
<1>2. Foremost(ByDistance(c), {}, Limit[g[1]]) = {}
  BY DEF Foremost
<1> QED
  BY <1>1, <1>2 DEF Found, Opened

LEMMA OneIteration ==
    ASSUME NEW c \in Corpus, NEW g \in Groups(c), NEW walk,
           Found(c, g, walk), Unfinished(g, walk)
    PROVE  Found(c, g, Iteration(c, g, walk))
<1> DEFINE used == UseLeft(c, walk.ahead) \cup UseRight(c, walk.ahead)
           done == Passed(c, g, walk)
           records == {s \in Members(c, g) : c.time[s] \in used} \ {c.target}
           n == Limit[g[1]]
           free == n - Cardinality(walk.selected)
           next == Iteration(c, g, walk)
           B == ByDistance(c)
<1>1. /\ next.ahead = walk.ahead \ used
      /\ next.selected = walk.selected \cup Foremost(ByHash, records, free)
  BY DEF Iteration
<1>2. /\ walk.ahead \subseteq {c.time[s] : s \in Members(c, g)}
      /\ \A s \in done, t \in walk.ahead : Gap(c, c.time[s]) < Gap(c, t)
      /\ walk.selected = Foremost(B, done, n)
      /\ Cardinality(walk.selected) < n /\ n \in Nat
  BY GroupFacts DEF Found, Unfinished
<1>3. walk.ahead \in SUBSET Int /\ IsFiniteSet(walk.ahead)
  BY <1>2, GroupFacts
<1>4. /\ used \subseteq walk.ahead
      /\ \A t, u \in used : Gap(c, t) = Gap(c, u)
      /\ \A t \in used, u \in walk.ahead \ used : Gap(c, t) < Gap(c, u)
  BY <1>3, NearestTimes, DistanceOrder
<1> HIDE DEF used, next, n, free, B
<1>5. /\ done \subseteq Members(c, g) /\ records \subseteq Members(c, g)
      /\ done \cup records \subseteq Members(c, g)
      /\ done \cap records = {}
      /\ Passed(c, g, next) = done \cup records
  <2>1. \A s : s \in Passed(c, g, next) <=>
                 s \in Others(c, g) /\ (c.time[s] \notin walk.ahead \/ c.time[s] \in used)
    BY <1>1 DEF Passed
  <2> QED
    BY <1>4, <2>1 DEF Passed, Others
<1>6. ASSUME NEW s \in done, NEW t \in records PROVE <<s, t>> \in B
  BY <1>2, <1>4, <1>5, GroupFacts, DistanceOrder DEF B
<1>7. Foremost(ByHash, records, free) = Foremost(B, records, free)
  <2>0. \A s \in records : c.time[s] \in used /\ s \in Neighbor
    <3>1. records \subseteq Neighbor
      BY <1>5, GroupFacts
    <3> QED
      BY <3>1
  <2>1. \A s, t \in records : Gap(c, c.time[s]) = Gap(c, c.time[t]) /\ s \in Neighbor /\ t \in Neighbor
    BY <1>4, <2>0
  <2> HIDE DEF records
  <2>2. \A s, t \in records : <<s, t>> \in B <=> <<s, t>> \in ByHash
    BY <2>1, DistanceOrder DEF B
  <2>3. \A s \in records : {t \in records : <<t, s>> \in ByHash} = {t \in records : <<t, s>> \in B}
    BY <2>2
  <2> QED
    BY <2>3 DEF Foremost
<1>8. /\ IsFiniteSet(done \cup records) /\ StrictOrder(B, done \cup records)
  BY <1>5, GroupFacts DEF B
<1> HIDE DEF done, records
<1>9. /\ Foremost(B, done, n) = done
      /\ Foremost(B, done \cup records, n) = done \cup Foremost(B, records, n - Cardinality(done))
  <2>1. \A s \in done, t \in records : <<s, t>> \in B
    BY <1>6
  <2>2. Cardinality(Foremost(B, done, n)) < n /\ n \in Nat
    BY <1>2
  <2>3. done \cap records = {}
    BY <1>5
  <2> QED
    BY <1>8, <2>1, <2>2, <2>3, ForemostGrows
<1>10. next.selected = Foremost(B, Passed(c, g, next), n)
  BY <1>1, <1>2, <1>5, <1>7, <1>9 DEF free
<1>11. next.ahead \subseteq {c.time[s] : s \in Members(c, g)}
  BY <1>1, <1>2
<1>12. ASSUME NEW s \in Passed(c, g, next), NEW t \in next.ahead
       PROVE  Gap(c, c.time[s]) < Gap(c, t)
  <2>1. t \in walk.ahead /\ t \in walk.ahead \ used
    BY <1>1
  <2>2. CASE s \in done
    BY <1>2, <2>1, <2>2
  <2>3. CASE s \in records
    <3>1. c.time[s] \in used
      BY <2>3 DEF records
    <3> QED
      BY <1>4, <2>1, <3>1
  <2> QED
    BY <1>5, <2>2, <2>3
<1> QED
  BY <1>10, <1>11, <1>12 DEF Found, next, n, B

\* A finished walk has selected the foremost of its group.
LEMMA EndOfWalk ==
    ASSUME NEW c \in Corpus, NEW g \in Groups(c), NEW walk,
           Found(c, g, walk), ~ Unfinished(g, walk)
    PROVE  walk.selected = Foremost(ByDistance(c), Others(c, g), Limit[g[1]])
<1> DEFINE done == Passed(c, g, walk)
           rest == Others(c, g) \ done
           n == Limit[g[1]]
           B == ByDistance(c)
<1>1. /\ done \cup rest = Others(c, g) /\ Others(c, g) \subseteq Members(c, g)
      /\ \A t \in rest : c.time[t] \in walk.ahead
  BY DEF Passed, Others
<1>2. IsFiniteSet(Others(c, g)) /\ StrictOrder(B, Others(c, g)) /\ n \in Nat
  BY <1>1, GroupFacts
<1>3. \A s \in done, t \in rest : <<s, t>> \in B
  <2>1. \A s \in done, t \in rest : Gap(c, c.time[s]) < Gap(c, c.time[t])
    BY <1>1 DEF Found
  <2>2. \A s \in done, t \in rest : s \in Neighbor /\ t \in Neighbor
    BY <1>1, GroupFacts
  <2> QED
    BY <2>1, <2>2, DistanceOrder
<1>4. walk.selected = Foremost(B, done, n)
  BY DEF Found
<1>5. CASE walk.ahead = {}
  <2>1. done = Others(c, g)
    BY <1>1, <1>5
  <2> QED
    BY <1>4, <2>1
<1>6. CASE walk.ahead # {}
  <2>1. ~ (Cardinality(Foremost(B, done, n)) < n)
    BY <1>4, <1>6 DEF Unfinished
  <2>2. Others(c, g) = done \cup rest
    BY <1>1
  <2> HIDE DEF done, rest, n, B
  <2>3. Foremost(B, Others(c, g), n) = Foremost(B, done, n)
    BY ONLY <1>2, <1>3, <2>1, <2>2, ForemostIsFull
  <2> QED
    BY <1>4, <2>3 DEF n, B
<1> QED
  BY <1>5, <1>6

\* The kept snapshots of all groups of a kind hold the ones to compare with.
LEMMA SelectionOfKind ==
    ASSUME NEW c \in Corpus, NEW walks0, NEW kind \in Kind,
           \A g \in Groups(c) :
             walks0[g].selected = Foremost(ByDistance(c), Others(c, g), Limit[g[1]])
    PROVE  Neighbors(c, walks0, kind) = Chosen(c, kind)
<1> DEFINE mine == {g \in Groups(c) : g[1] = kind}
           parts == {Others(c, g) : g \in mine}
           U == Sharing(c, kind)
           n == Limit[kind]
           B == ByDistance(c)
           kept == UNION {walks0[g].selected : g \in mine}
<1>1. U = UNION parts
  <2>1. ASSUME NEW s \in U PROVE s \in UNION parts
    <3>1. PICK key \in c.keys[kind][s] \cap c.keys[kind][c.target] : TRUE
      BY DEF Sharing
    <3>2. s \in Neighbor \ {c.target} /\ key \in Key
      BY <3>1 DEF Sharing, Corpus
    <3>3. <<kind, key>> \in mine
      BY <3>1, <3>2 DEF Groups
    <3>4. s \in Others(c, <<kind, key>>)
      BY <3>1, <3>2 DEF Others, Members
    <3> QED
      BY <3>3, <3>4
  <2>2. ASSUME NEW g \in mine, NEW s \in Others(c, g) PROVE s \in U
    BY DEF Groups, Others, Members, Sharing
  <2> QED
    BY <2>1, <2>2
<1>2. \A s : s \in kept <=> \E p \in parts : s \in Foremost(B, p, n)
  <2>1. \A g \in mine : walks0[g].selected = Foremost(B, Others(c, g), n)
    OBVIOUS
  <2> HIDE DEF B, n
  <2> QED
    BY <2>1
<1>3. /\ IsFiniteSet(U) /\ StrictOrder(B, U) /\ Total(B, U) /\ n \in Nat
  <2>1. U \in SUBSET Neighbor
    BY DEF Sharing
  <2>2. IsFiniteSet(U) /\ n \in Nat
    BY <2>1, FS_Subset, Limits
  <2>3. StrictOrder(B, Neighbor) /\ Total(B, Neighbor)
    BY DistanceOrder
  <2> QED
    BY <2>1, <2>2, <2>3 DEF StrictOrder, Total
<1>4. Neighbors(c, walks0, kind) = Foremost(B, kept, n)
  BY DEF Neighbors
<1> HIDE DEF parts, U, n, B, kept
<1>5. Foremost(B, kept, n) = Foremost(B, U, n)
  <2>1. \A s : s \in U <=> \E p \in parts : s \in p
    BY <1>1
  <2> QED
    BY ONLY <1>2, <1>3, <2>1, ForemostOfParts
<1> QED
  BY <1>4, <1>5 DEF Chosen, U, n, B

-----------------------------------------------------------------------------
(* The specification *)

ToCompare(c) ==
    {[neighbor |-> s, neighborhoods |-> {kind \in Kind : s \in Chosen(c, kind)}] :
       s \in UNION {Chosen(c, kind) : kind \in Kind}}

\* A result is that of its work, and every walk has found what is nearest so far.
Searched ==
    /\ work \in Comparisons => result = Pending \/ result = Detected(work)
    /\ work \in Corpora =>
         /\ result = Pending \/ result = ToCompare(work)
         /\ walks = [g \in Groups(work) |-> walks[g]]
         /\ \A g \in Groups(work) : Found(work, g, walks[g])

LEMMA AlwaysSearched == Spec => []Searched
<1>1. Init => Searched
  <2> SUFFICES ASSUME Init PROVE Searched
    OBVIOUS
  <2>1. work \in Corpora => walks = [g \in Groups(work) |-> Opened(work, g)]
    BY Work DEF Init
  <2>2. work \in Corpora => \A g \in Groups(work) : Found(work, g, Opened(work, g))
    BY StartOfWalk, Work
  <2> QED
    BY <2>1, <2>2 DEF Init, Searched
<1>2. Searched /\ [Next]_vars => Searched'
  <2> SUFFICES ASSUME Searched, [Next]_vars PROVE Searched'
    OBVIOUS
  <2>1. CASE Detect
    BY <2>1, Work DEF Detect, Searched
  <2>2. CASE Compare
    <3>1. /\ work \in Corpora /\ work \in Corpus /\ result' = Schedule(work, walks)
          /\ UNCHANGED <<work, walks>>
          /\ \A g \in Groups(work) : ~ Unfinished(g, walks[g]) /\ Found(work, g, walks[g])
      BY <2>2, Work DEF Compare, Searched
    <3>2. \A g \in Groups(work) :
            walks[g].selected = Foremost(ByDistance(work), Others(work, g), Limit[g[1]])
      BY <3>1, EndOfWalk
    <3>3. \A kind \in Kind : Neighbors(work, walks, kind) = Chosen(work, kind)
      BY <3>1, <3>2, SelectionOfKind
    <3>4. Schedule(work, walks) = ToCompare(work)
      BY <3>3 DEF Schedule, ToCompare
    <3> QED
      BY <3>1, <3>4, Work DEF Searched
  <2>3. CASE \E g \in DOMAIN walks : Walk(g)
    <3>1. PICK g \in DOMAIN walks : Walk(g)
      BY <2>3
    <3>2. /\ work \in Corpora /\ work \in Corpus /\ g \in Groups(work)
          /\ UNCHANGED <<work, result>>
          /\ walks' = [walks EXCEPT ![g] = Iteration(work, g, walks[g])]
          /\ Unfinished(g, walks[g]) /\ Found(work, g, walks[g])
      BY <3>1, Work DEF Walk, Searched
    <3>3. Found(work, g, Iteration(work, g, walks[g]))
      BY <3>2, OneIteration
    <3>4. walks' = [h \in Groups(work) |-> IF h = g THEN Iteration(work, g, walks[g]) ELSE walks[h]]
      BY <3>2 DEF Searched
    <3>5. \A h \in Groups(work) : Found(work, h, walks'[h])
      BY <3>2, <3>3, <3>4 DEF Searched
    <3>6. \A h \in Groups(work) : Found(work, h, walks[h])'
      <4>1. \A h : Found(work, h, walks[h])' <=> Found(work, h, walks'[h])
        BY <3>2 DEF Found, Passed, Others, Members
      <4> QED
        BY ONLY <3>2, <3>5, <4>1 DEF Groups
    <3> QED
      BY <3>2, <3>4, <3>6, Work DEF Searched
  <2>4. CASE UNCHANGED vars
    BY <2>4 DEF vars, Searched
  <2> QED
    BY <2>1, <2>2, <2>3, <2>4 DEF Next
<1> QED
  BY <1>1, <1>2, PTL DEF Spec

(* detect_candidate gives the same answer whichever of the two snapshots it is
   handed as the left one, for every combination of evidence and signals. *)
THEOREM Symmetric == Spec => []NamesDoNotMatter
<1>1. Searched => NamesDoNotMatter
  BY Work, RenamedDetection DEF Searched, NamesDoNotMatter, Finished
<1> QED
  BY <1>1, AlwaysSearched, PTL

(* The primary rule of a candidate never rests on evidence for the opposite
   direction, although a basis later in the order of precedence and a rule
   earlier in theirs are chosen apart (_determine_direction, detect_candidate). *)
THEOREM RuleFitsDirection == Spec => []PrimaryRuleAgrees
<1>1. Searched => PrimaryRuleAgrees
  BY Work, RuleAndDirection DEF Searched, PrimaryRuleAgrees, Finished, Supports
<1> QED
  BY <1>1, AlwaysSearched, PTL

(* A new snapshot is compared with exactly the snapshots that have fewer than
   the limit nearer ones, in every kind: neither the limit reached inside a
   bucket, nor two buckets at one distance, nor the limit applied to every key
   before it is applied to all of them loses a nearer one
   (CandidateNeighborhoodIndex, schedule_candidate_comparisons). *)
THEOREM NearestCompared == Spec => []NearestAreCompared
<1>1. Searched => NearestAreCompared
  BY Work DEF Searched, NearestAreCompared, Finished, ToCompare
<1> QED
  BY <1>1, AlwaysSearched, PTL

=============================================================================
