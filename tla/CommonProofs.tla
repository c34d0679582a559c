----------------------------- MODULE CommonProofs -----------------------------
(***************************************************************************)
(* What the proofs of several components need: finite sums and counts, and *)
(* the classifier for every set of outcomes.                               *)
(***************************************************************************)
EXTENDS Classifier, FiniteSetTheorems, WellFoundedInduction, TLAPS

-----------------------------------------------------------------------------
(* The two rankings.                                                       *)

\* FAILURE_TYPE_PRIORITY ranks every failure type, and no two alike.
LEMMA PriorityFacts ==
    /\ FailureType = {"policy_violation", "output_validation_error",
          "tool_failure", "trajectory_error", "retrieval_failure",
          "unsupported_claim", "unknown"}
    /\ \A t \in FailureType :
          Priority(t) \in 1..7 /\ FAILURE_TYPE_PRIORITY[Priority(t)] = t
<1>1. \A i \in 1..7 : FAILURE_TYPE_PRIORITY[i] =
        IF i = 1 THEN "policy_violation" ELSE
        IF i = 2 THEN "output_validation_error" ELSE
        IF i = 3 THEN "tool_failure" ELSE
        IF i = 4 THEN "trajectory_error" ELSE
        IF i = 5 THEN "retrieval_failure" ELSE
        IF i = 6 THEN "unsupported_claim" ELSE "unknown"
  BY DEF FAILURE_TYPE_PRIORITY
<1>2. FailureType = {"policy_violation", "output_validation_error",
          "tool_failure", "trajectory_error", "retrieval_failure",
          "unsupported_claim", "unknown"}
  BY <1>1 DEF FailureType
<1>3. ASSUME NEW t \in FailureType
      PROVE  Priority(t) \in 1..7 /\ FAILURE_TYPE_PRIORITY[Priority(t)] = t
  <2>1. \E i \in 1..7 : FAILURE_TYPE_PRIORITY[i] = t
    BY DEF FailureType
  <2>. QED
    BY <2>1 DEF Priority
<1>. QED
  BY <1>2, <1>3

\* The most important of some failure types is one of them, and there is
\* always one.
LEMMA FirstFacts ==
    ASSUME NEW types \in SUBSET FailureType, types # {}
    PROVE  /\ First(types) \in types
           /\ \A u \in types : Priority(First(types)) <= Priority(u)
<1>1. \E t \in types : \A u \in types : Priority(t) <= Priority(u)
  <2>. DEFINE Above(n) == \A u \in types : n <= Priority(u)
  <2>1. \A u \in types : Priority(u) \in 1..7
    BY PriorityFacts
  <2>2. Above(1) /\ ~Above(8)
    BY <2>1
  <2>3. \E n \in 1..7 : Above(n) /\ ~Above(n + 1)
    <3>. HIDE DEF Above
    <3>. QED
      BY <2>2
  <2>4. PICK n \in 1..7 : Above(n) /\ ~Above(n + 1)
    BY <2>3
  <2>5. PICK t \in types : ~(n + 1 <= Priority(t))
    BY <2>4
  <2>. QED
    BY <2>1, <2>4, <2>5
<1>. QED
  BY <1>1 DEF First

\* The severities of failure types are words, and they are ranked.
LEMMA SeverityFacts ==
    /\ \A t \in FailureType :
          FAILURE_TYPE_SEVERITY(t) \in {"warning", "error", "critical", None}
    /\ SeverityOrder("warning") = 1
    /\ SeverityOrder("error") = 2
    /\ SeverityOrder("critical") = 3
    /\ SeverityOrder(None) = -1
<1>1. None # "warning" /\ None # "error" /\ None # "critical"
  BY NoneIsNoWord
<1>2. \A t \in FailureType :
         FAILURE_TYPE_SEVERITY(t) \in {"warning", "error", "critical", None}
  BY DEF FAILURE_TYPE_SEVERITY
<1>3. SeverityOrder(None) = -1
  BY <1>1 DEF SeverityOrder
<1>4. /\ SeverityOrder("warning") = 1
      /\ SeverityOrder("error") = 2
      /\ SeverityOrder("critical") = 3
  BY DEF SeverityOrder
<1>. QED
  BY <1>2, <1>3, <1>4

\* The highest of the severities of some failure types weighs as much as any.
LEMMA MaxSeverityFacts ==
    ASSUME NEW types \in SUBSET FailureType
    PROVE  /\ MaxSeverity(types) \in {"warning", "error", "critical", None}
           /\ \A t \in types : FAILURE_TYPE_SEVERITY(t) # None =>
                 /\ MaxSeverity(types) # None
                 /\ SeverityOrder(FAILURE_TYPE_SEVERITY(t))
                       <= SeverityOrder(MaxSeverity(types))
           /\ MaxSeverity(types) # None =>
                 \E t \in types : FAILURE_TYPE_SEVERITY(t) = MaxSeverity(types)
<1>. DEFINE severities == {FAILURE_TYPE_SEVERITY(t) : t \in types} \ {None}
<1>1. severities \subseteq {"warning", "error", "critical"}
  BY SeverityFacts
<1>2. CASE severities = {}
  BY <1>2 DEF MaxSeverity
<1>3. CASE severities # {}
  <2>1. \E s \in severities :
            \A u \in severities : SeverityOrder(u) <= SeverityOrder(s)
    <3>. HIDE DEF severities
    <3>1. CASE "critical" \in severities
      BY <1>1, <3>1, SeverityFacts
    <3>2. CASE "critical" \notin severities /\ "error" \in severities
      BY <1>1, <3>2, SeverityFacts
    <3>3. CASE "critical" \notin severities /\ "error" \notin severities
      <4>1. severities = {"warning"}
        BY <1>1, <1>3, <3>3
      <4>. QED
        BY <4>1, SeverityFacts
    <3>. QED
      BY <3>1, <3>2, <3>3
  <2>2. /\ MaxSeverity(types) \in severities
        /\ \A u \in severities : SeverityOrder(u) <= SeverityOrder(MaxSeverity(types))
    BY <1>3, <2>1 DEF MaxSeverity
  <2>. QED
    BY <1>1, <2>2, NoneIsNoWord
<1>. QED
  BY <1>2, <1>3

\* Whatever a finding's code, it stands for a failure type.
LEMMA DetectedType ==
    ASSUME NEW outcomes
    PROVE  DetectedFailureTypes(outcomes) \in SUBSET FailureType
BY PriorityFacts DEF DetectedFailureTypes, FINDING_TO_FAILURE_TYPE

-----------------------------------------------------------------------------
(* The classifier.                                                         *)

\* A classification fits the columns of run_failures.
LEMMA ClassifyType ==
    ASSUME NEW outcomes PROVE Classify(outcomes) \in RunFailure
<1>. DEFINE types == DetectedFailureTypes(outcomes)
            primary == First(types)
<1>1. types \in SUBSET FailureType
  BY DetectedType
<1>2. primary \in FailureType \cup {None}
  BY <1>1, FirstFacts DEF First
<1>3. First(types \ {primary}) \in FailureType \cup {None}
  <2>1. types \ {primary} \in SUBSET FailureType
    BY <1>1
  <2>. QED
    BY <2>1, FirstFacts DEF First
<1>4. MaxSeverity(types) \in {"warning", "error", "critical", None}
  BY <1>1, MaxSeverityFacts
<1>5. OverallStatus(outcomes) \in OverallEvaluationStatus
  BY DEF OverallStatus, OverallEvaluationStatus
<1>. QED
  BY <1>2, <1>3, <1>4, <1>5 DEF Classify, RunFailure

\* Of an outcome, the classifier reads the execution status, the label and
\* the findings: sets of outcomes that agree on them are classified alike.
LEMMA ClassifyReads ==
    ASSUME NEW S, NEW T,
           \A o \in S : \E p \in T :
              /\ o.execution_status = p.execution_status
              /\ o.label = p.label /\ o.findings = p.findings,
           \A p \in T : \E o \in S :
              /\ o.execution_status = p.execution_status
              /\ o.label = p.label /\ o.findings = p.findings
    PROVE  Classify(S) = Classify(T)
<1>1. OverallStatus(S) = OverallStatus(T)
  BY DEF OverallStatus, Failures
<1>2. UNION {o.findings : o \in Failures(S)} = UNION {o.findings : o \in Failures(T)}
  BY DEF Failures
<1>3. DetectedFailureTypes(S) = DetectedFailureTypes(T)
  BY <1>2 DEF DetectedFailureTypes
<1>. QED
  BY <1>1, <1>3 DEF Classify

\* Another outcome never makes a classification look better: a crash does not
\* hide a confirmed failure, a warning does not lower a severity (phase-5
\* Task 3).
THEOREM ClassifyMonotone ==
    ASSUME NEW T, NEW S \in SUBSET T
    PROVE  NoBetter(Classify(T), Classify(S))
<1>. DEFINE before == DetectedFailureTypes(S)
            after == DetectedFailureTypes(T)
<1>1. /\ before \in SUBSET FailureType
      /\ after \in SUBSET FailureType
      /\ before \subseteq after
  <2>1. Failures(S) \subseteq Failures(T)
    BY DEF Failures
  <2>2. before \subseteq after
    BY <2>1 DEF DetectedFailureTypes
  <2>. QED
    BY <2>2, DetectedType
<1>2. StatusOrder(OverallStatus(S)) <= StatusOrder(OverallStatus(T))
  BY DEF OverallStatus, Failures, StatusOrder
<1>3. SeverityOrder(MaxSeverity(before)) <= SeverityOrder(MaxSeverity(after))
  <2>. HIDE DEF before, after
  <2>1. CASE MaxSeverity(before) = None
    BY <1>1, <2>1, MaxSeverityFacts, SeverityFacts
  <2>2. CASE MaxSeverity(before) # None
    <3>1. PICK t \in before : FAILURE_TYPE_SEVERITY(t) = MaxSeverity(before)
      BY <1>1, <2>2, MaxSeverityFacts
    <3>2. t \in after
      BY <1>1
    <3>. QED
      BY <1>1, <2>2, <3>1, <3>2, MaxSeverityFacts
  <2>. QED
    BY <2>1, <2>2
<1>4. ASSUME First(before) # None
      PROVE  /\ First(after) # None
             /\ Priority(First(after)) <= Priority(First(before))
  <2>. HIDE DEF before, after
  <2>1. before # {}
    BY <1>4 DEF First
  <2>2. First(before) \in before /\ First(before) \in after
    BY <1>1, <2>1, FirstFacts
  <2>3. First(after) \in after /\ Priority(First(after)) <= Priority(First(before))
    BY <1>1, <2>2, FirstFacts
  <2>. QED
    BY <1>1, <2>3, NoneIsNoWord
<1>. QED
  BY <1>2, <1>3, <1>4 DEF NoBetter, Classify

\* Only a confirmed failure has a category, and only a category a severity:
\* a run that passed is never shown among the failures (FailureClassifier;
\* phase-5 Task 3).
THEOREM ClassifyCoherent ==
    ASSUME NEW outcomes PROVE Coherent(Classify(outcomes))
<1>. DEFINE types == DetectedFailureTypes(outcomes)
<1>1. types \in SUBSET FailureType
  BY DetectedType
<1>2. MaxSeverity(types) # None => First(types) # None
  <2>. HIDE DEF types
  <2>1. ASSUME MaxSeverity(types) # None PROVE First(types) \in FailureType
    <3>1. types # {}
      BY <1>1, <2>1, MaxSeverityFacts
    <3>. QED
      BY <1>1, <3>1, FirstFacts
  <2>. QED
    BY <2>1, NoneIsNoWord
<1>3. First(types) # None => OverallStatus(outcomes) = "fail"
  <2>1. Failures(outcomes) = {} => types = {}
    BY DEF DetectedFailureTypes
  <2>. QED
    BY <2>1 DEF First, OverallStatus
<1>. QED
  BY <1>2, <1>3 DEF Coherent, Classify

-----------------------------------------------------------------------------
(* Sums over finite sets: what a fold computes, by looking at a smallest    *)
(* set for which it would not.                                              *)

Chosen(s) == CHOOSE x \in s : TRUE
SumStep(f, s, h) == IF s = {} THEN 0 ELSE f[Chosen(s)] + h[s \ {Chosen(s)}]
\* The function a sum is folded with: to each subset, its sum.
PartialSums(f) == CHOOSE h : h = [s \in SUBSET DOMAIN f |-> SumStep(f, s, h)]

\* SumOf, as it is defined by the library.
LEMMA SumIsPartial == ASSUME NEW f PROVE SumOf(f) = PartialSums(f)[DOMAIN f]
BY DEF SumOf, MapThenSumSet, MapThenFoldSet, PartialSums, SumStep, Chosen

\* A set of numbers that is not empty has a least one.
LEMMA LeastElement ==
    ASSUME NEW S \in SUBSET Nat, S # {}
    PROVE  \E m \in S : \A n \in S : m <= n
<1>1. PICK m \in S : \A n \in S : ~(<<n, m>> \in OpToRel(<, Nat))
  BY NatLessThanWellFounded, WFMin
<1>2. \A n \in S : ~(n < m)
  BY <1>1 DEF OpToRel
<1>. QED
  BY <1>2

\* Subsets up to a size.
SubsetsUpTo(D, k) == {s \in SUBSET D : Cardinality(s) <= k}
SumsUpTo(f, k, h) == h = [s \in SubsetsUpTo(DOMAIN f, k) |-> SumStep(f, s, h)]

\* Taking out the chosen element makes a subset smaller.
LEMMA ChosenFacts ==
    ASSUME NEW D, IsFiniteSet(D), NEW s \in SUBSET D, s # {}
    PROVE  /\ IsFiniteSet(s)
           /\ Chosen(s) \in s
           /\ s \ {Chosen(s)} \in SUBSET D
           /\ Cardinality(s) \in Nat \ {0}
           /\ Cardinality(s \ {Chosen(s)}) = Cardinality(s) - 1
<1>1. IsFiniteSet(s)
  BY FS_Subset
<1>2. Chosen(s) \in s
  BY DEF Chosen
<1>. QED
  BY <1>1, <1>2, FS_RemoveElement, FS_CardinalityType, FS_EmptySet

\* Sums up to some size give sums up to the next.
LEMMA SumsGoOn ==
    ASSUME NEW f, IsFiniteSet(DOMAIN f), NEW k \in Nat, NEW h, SumsUpTo(f, k, h)
    PROVE  \E g : SumsUpTo(f, k + 1, g)
<1>. DEFINE D == DOMAIN f
            g == [s \in SubsetsUpTo(D, k + 1) |-> SumStep(f, s, h)]
<1>1. ASSUME NEW s \in SubsetsUpTo(D, k + 1)
      PROVE  SumStep(f, s, h) = SumStep(f, s, g)
  <2>1. CASE s = {}
    BY <2>1 DEF SumStep
  <2>2. CASE s # {}
    <3>. DEFINE t == s \ {Chosen(s)}
    <3>0. s \in SUBSET D /\ Cardinality(s) <= k + 1
      BY DEF SubsetsUpTo
    <3>1. /\ t \in SUBSET D /\ Cardinality(t) = Cardinality(s) - 1
          /\ Cardinality(s) \in Nat
      BY <2>2, <3>0, ChosenFacts
    <3>2. t \in SubsetsUpTo(D, k) /\ t \in SubsetsUpTo(D, k + 1)
      <4>1. Cardinality(t) <= k /\ Cardinality(t) <= k + 1
        <5>. HIDE DEF t
        <5>. QED
        BY <3>0, <3>1
      <4>. QED
        BY <3>1, <4>1 DEF SubsetsUpTo
    <3>3. h[t] = SumStep(f, t, h)
      BY <3>2 DEF SumsUpTo
    <3>4. g[t] = SumStep(f, t, h)
      BY <3>2
    <3>. HIDE DEF g
    <3>. QED
      BY <2>2, <3>3, <3>4 DEF SumStep
  <2>. QED
    BY <2>1, <2>2
<1>2. SumsUpTo(f, k + 1, g)
  <2>. SUFFICES g = [s \in SubsetsUpTo(D, k + 1) |-> SumStep(f, s, g)]
    BY Zenon DEF SumsUpTo
  <2>1. \A s \in SubsetsUpTo(D, k + 1) : g[s] = SumStep(f, s, g)
    BY <1>1
  <2>2. g = [s \in SubsetsUpTo(D, k + 1) |-> g[s]]
    OBVIOUS
  <2>. HIDE DEF g
  <2>. QED
    BY <2>1, <2>2
<1>. QED
  BY <1>2

\* So there are sums up to any size.
LEMMA SumsExist ==
    ASSUME NEW f, IsFiniteSet(DOMAIN f), NEW k \in Nat
    PROVE  \E h : SumsUpTo(f, k, h)
<1>. DEFINE bad == {n \in Nat : ~ \E h : SumsUpTo(f, n, h)}
<1>. SUFFICES ASSUME bad # {} PROVE FALSE
  OBVIOUS
<1>1. PICK m \in bad : \A n \in bad : m <= n
  BY LeastElement
<1>2. m # 0
  <2>. DEFINE h == [s \in SubsetsUpTo(DOMAIN f, 0) |-> 0]
  <2>1. ASSUME NEW s \in SubsetsUpTo(DOMAIN f, 0) PROVE SumStep(f, s, h) = 0
    <3>1. s \in SUBSET DOMAIN f /\ Cardinality(s) <= 0
      BY DEF SubsetsUpTo
    <3>2. s # {} => Cardinality(s) \in Nat \ {0}
      BY <3>1, ChosenFacts
    <3>3. s = {}
      BY <3>1, <3>2
    <3>. QED
      BY <3>3 DEF SumStep
  <2>2. h = [s \in SubsetsUpTo(DOMAIN f, 0) |-> SumStep(f, s, h)]
    BY <2>1
  <2>3. SumsUpTo(f, 0, h)
    BY <2>2, Zenon DEF SumsUpTo
  <2>. QED
    BY <2>3
<1>3. m - 1 \in Nat /\ m - 1 \notin bad
  BY <1>1, <1>2
<1>4. PICK h : SumsUpTo(f, m - 1, h)
  BY <1>3
<1>5. \E g : SumsUpTo(f, m - 1 + 1, g)
  BY <1>3, <1>4, SumsGoOn
<1>. QED
  BY <1>3, <1>5

\* The fold takes the elements of a finite set one after the other.
LEMMA PartialUnfolds ==
    ASSUME NEW f, IsFiniteSet(DOMAIN f), NEW s \in SUBSET DOMAIN f
    PROVE  PartialSums(f)[s] = IF s = {} THEN 0 ELSE f[Chosen(s)] + PartialSums(f)[s \ {Chosen(s)}]
<1>. DEFINE D == DOMAIN f
<1>1. Cardinality(D) \in Nat
  BY FS_CardinalityType
<1>2. SubsetsUpTo(D, Cardinality(D)) = SUBSET D
  BY FS_Subset DEF SubsetsUpTo
<1>3. \E h : h = [t \in SUBSET D |-> SumStep(f, t, h)]
  <2>1. PICK h : SumsUpTo(f, Cardinality(D), h)
    BY <1>1, SumsExist
  <2>2. h = [t \in SUBSET D |-> SumStep(f, t, h)]
    BY <1>2, <2>1, Zenon DEF SumsUpTo
  <2>. QED
    BY <2>2
<1>4. PartialSums(f) = [t \in SUBSET D |-> SumStep(f, t, PartialSums(f))]
  BY <1>3 DEF PartialSums
<1>5. PartialSums(f)[s] = SumStep(f, s, PartialSums(f))
  BY <1>4
<1>. QED
  BY <1>5 DEF SumStep

\* Of some subsets of a finite set one is the smallest.
LEMMA SmallestSubset ==
    ASSUME NEW D, IsFiniteSet(D), NEW B \in SUBSET SUBSET D, B # {}
    PROVE  \E s \in B : \A t \in B : ~(Cardinality(t) < Cardinality(s))
<1>. DEFINE sizes == {Cardinality(s) : s \in B}
<1>1. \A s \in B : Cardinality(s) \in Nat
  BY FS_Subset, FS_CardinalityType
<1>2. sizes \in SUBSET Nat /\ sizes # {}
  BY <1>1
<1>3. PICK m \in sizes : \A n \in sizes : m <= n
  BY <1>2, LeastElement
<1>4. PICK s \in B : m = Cardinality(s)
  BY <1>3
<1>5. \A t \in B : Cardinality(s) <= Cardinality(t)
  BY <1>3, <1>4
<1>. QED
  BY <1>1, <1>4, <1>5

NatFinite(f) == IsFiniteSet(DOMAIN f) /\ \A x \in DOMAIN f : f[x] \in Nat

\* Sums of natural numbers are natural numbers.
LEMMA PartialIsNat ==
    ASSUME NEW f, NatFinite(f), NEW s \in SUBSET DOMAIN f
    PROVE  PartialSums(f)[s] \in Nat
<1>. DEFINE bad == {t \in SUBSET DOMAIN f : PartialSums(f)[t] \notin Nat}
<1>. SUFFICES ASSUME bad # {} PROVE FALSE
  OBVIOUS
<1>1. PICK t \in bad : \A u \in bad : ~(Cardinality(u) < Cardinality(t))
  BY SmallestSubset DEF NatFinite
<1>2. t # {}
  <2>1. PartialSums(f)[{}] = 0
    BY PartialUnfolds DEF NatFinite
  <2>2. PartialSums(f)[t] \notin Nat
    BY <1>1
  <2>3. PartialSums(f)[{}] \in Nat
    BY <2>1
  <2>. QED
    BY <2>2, <2>3
<1>. DEFINE u == t \ {Chosen(t)}
<1>3. /\ u \in SUBSET DOMAIN f /\ Chosen(t) \in DOMAIN f
      /\ Cardinality(u) = Cardinality(t) - 1 /\ Cardinality(t) \in Nat
  BY <1>2, ChosenFacts DEF NatFinite
<1>4. PartialSums(f)[u] \in Nat
  <2>. HIDE DEF u
  <2>1. Cardinality(u) < Cardinality(t)
    BY <1>3
  <2>. QED
    BY <1>1, <1>3, <2>1
<1>5. PartialSums(f)[t] = f[Chosen(t)] + PartialSums(f)[u]
  BY <1>2, PartialUnfolds DEF NatFinite
<1>6. f[Chosen(t)] \in Nat
  BY <1>3 DEF NatFinite
<1>. HIDE DEF u
<1>7. PartialSums(f)[t] \in Nat
  BY <1>4, <1>5, <1>6
<1>. QED
  BY <1>7

\* Whatever the order of the fold, any element can be taken out of a sum.
LEMMA PartialTakes ==
    ASSUME NEW f, NatFinite(f), NEW s \in SUBSET DOMAIN f, NEW x \in s
    PROVE  PartialSums(f)[s] = f[x] + PartialSums(f)[s \ {x}]
<1>. DEFINE Takes(t, y) == PartialSums(f)[t] = f[y] + PartialSums(f)[t \ {y}]
            bad == {t \in SUBSET DOMAIN f : \E y \in t : ~Takes(t, y)}
<1>. SUFFICES ASSUME bad # {} PROVE FALSE
  OBVIOUS
<1>1. PICK t \in bad : \A u \in bad : ~(Cardinality(u) < Cardinality(t))
  <2>. HIDE DEF Takes
  <2>1. bad \in SUBSET SUBSET DOMAIN f
    OBVIOUS
  <2>. QED
    BY <2>1, SmallestSubset DEF NatFinite
<1>2. PICK y \in t : ~Takes(t, y)
  BY <1>1
<1>. DEFINE p == Chosen(t)
<1>3. /\ t \in SUBSET DOMAIN f /\ p \in t
      /\ IsFiniteSet(t)
      /\ Cardinality(t) \in Nat
  BY <1>2, ChosenFacts DEF NatFinite
<1>4. Takes(t, p)
  BY <1>2, PartialUnfolds DEF NatFinite
<1>5. y # p
  BY <1>2, <1>4
<1>6. \A z \in t : t \ {z} \in SUBSET DOMAIN f /\ Cardinality(t \ {z}) < Cardinality(t)
  <2>1. \A z \in t : Cardinality(t \ {z}) = Cardinality(t) - 1
    BY <1>3, FS_RemoveElement
  <2>. QED
    BY <1>3, <2>1
<1>7. \A z \in t : \A v \in t \ {z} : Takes(t \ {z}, v)
  <2>. HIDE DEF Takes
  <2>. QED
    BY <1>1, <1>6
<1>. HIDE DEF p
<1>8. Takes(t \ {p}, y) /\ Takes(t \ {y}, p)
  BY <1>3, <1>5, <1>7
<1>9. (t \ {p}) \ {y} = (t \ {y}) \ {p}
  OBVIOUS
<1>10. /\ f[y] \in Nat /\ f[p] \in Nat
       /\ PartialSums(f)[(t \ {p}) \ {y}] \in Nat
  <2>1. (t \ {p}) \ {y} \in SUBSET DOMAIN f
    BY <1>3
  <2>. QED
    BY <1>3, <2>1, PartialIsNat DEF NatFinite
<1>. DEFINE all == PartialSums(f)[t]
            rest == PartialSums(f)[(t \ {p}) \ {y}]
            less_p == PartialSums(f)[t \ {p}]
            less_y == PartialSums(f)[t \ {y}]
<1>11. /\ all = f[p] + less_p /\ all # f[y] + less_y
       /\ less_p = f[y] + rest /\ less_y = f[p] + rest
       /\ f[y] \in Nat /\ f[p] \in Nat /\ rest \in Nat
  BY <1>2, <1>4, <1>8, <1>9, <1>10
<1>. HIDE DEF all, rest, less_p, less_y
<1>. QED
  BY <1>11

\* A sum over more is not less.
LEMMA PartialGrows ==
    ASSUME NEW f, NatFinite(f), NEW t \in SUBSET DOMAIN f, NEW s \in SUBSET t
    PROVE  PartialSums(f)[s] <= PartialSums(f)[t]
<1>. DEFINE Above(u) == \A v \in SUBSET u : PartialSums(f)[v] <= PartialSums(f)[u]
            bad == {u \in SUBSET DOMAIN f : ~Above(u)}
<1>. SUFFICES ASSUME bad # {} PROVE FALSE
  OBVIOUS
<1>1. PICK u \in bad : \A w \in bad : ~(Cardinality(w) < Cardinality(u))
  <2>. HIDE DEF Above
  <2>1. bad \in SUBSET SUBSET DOMAIN f
    OBVIOUS
  <2>. QED
    BY <2>1, SmallestSubset DEF NatFinite
<1>2. PICK v \in SUBSET u : ~(PartialSums(f)[v] <= PartialSums(f)[u])
  BY <1>1
<1>3. u \in SUBSET DOMAIN f /\ v \in SUBSET DOMAIN f
  BY <1>1
<1>4. u # {}
  <2>1. u = {} => v = u
    OBVIOUS
  <2>2. PartialSums(f)[u] \in Nat
    BY <1>3, PartialIsNat
  <2>. QED
    BY <1>2, <2>1, <2>2
<1>. DEFINE p == Chosen(u)
            w == u \ {p}
<1>5. /\ p \in u /\ w \in SUBSET DOMAIN f
      /\ Cardinality(w) < Cardinality(u)
  BY <1>3, <1>4, ChosenFacts DEF NatFinite
<1>6. Above(w)
  <2>. HIDE DEF Above, w
  <2>. QED
    BY <1>1, <1>5
<1>7. PartialSums(f)[u] = f[p] + PartialSums(f)[w] /\ f[p] \in Nat /\ PartialSums(f)[w] \in Nat
  BY <1>3, <1>5, PartialTakes, PartialIsNat DEF NatFinite
<1>8. CASE p \notin v
  <2>1. v \in SUBSET w
    BY <1>8
  <2>2. PartialSums(f)[v] <= PartialSums(f)[w]
    BY <1>6, <2>1
  <2>3. PartialSums(f)[v] \in Nat
    BY <1>3, PartialIsNat
  <2>. HIDE DEF w, p
  <2>. QED
    BY <1>2, <1>7, <2>2, <2>3
<1>9. CASE p \in v
  <2>1. v \ {p} \in SUBSET w
    OBVIOUS
  <2>2. PartialSums(f)[v \ {p}] <= PartialSums(f)[w]
    BY <1>6, <2>1
  <2>3. PartialSums(f)[v] = f[p] + PartialSums(f)[v \ {p}] /\ PartialSums(f)[v \ {p}] \in Nat
    BY <1>3, <1>9, PartialTakes, PartialIsNat
  <2>. HIDE DEF w, p
  <2>. QED
    BY <1>2, <1>7, <2>2, <2>3
<1>. QED
  BY <1>8, <1>9

\* Leaving elements out that a sum does not reach does not change it.
LEMMA PartialRestricts ==
    ASSUME NEW f, NatFinite(f), NEW D \in SUBSET DOMAIN f
    PROVE  PartialSums([x \in D |-> f[x]])[D] = PartialSums(f)[D]
<1>. DEFINE g == [x \in D |-> f[x]]
            bad == {s \in SUBSET D : PartialSums(g)[s] # PartialSums(f)[s]}
<1>1. IsFiniteSet(D)
  BY FS_Subset DEF NatFinite
<1>. SUFFICES ASSUME bad # {} PROVE FALSE
  OBVIOUS
<1>2. PICK s \in bad : \A t \in bad : ~(Cardinality(t) < Cardinality(s))
  <2>1. bad \in SUBSET SUBSET D
    OBVIOUS
  <2>. QED
    BY <1>1, <2>1, SmallestSubset
<1>. DEFINE p == Chosen(s)
            t == s \ {p}
<1>3. DOMAIN g = D /\ IsFiniteSet(DOMAIN f) /\ s \in SUBSET D /\ s \in SUBSET DOMAIN f
  BY DEF NatFinite
<1>. HIDE DEF g
<1>4. /\ PartialSums(g)[s] = IF s = {} THEN 0 ELSE g[p] + PartialSums(g)[t]
      /\ PartialSums(f)[s] = IF s = {} THEN 0 ELSE f[p] + PartialSums(f)[t]
  BY <1>1, <1>3, PartialUnfolds
<1>5. s # {}
  BY <1>2, <1>4
<1>6. t \in SUBSET D /\ Cardinality(t) = Cardinality(s) - 1 /\ Cardinality(s) \in Nat /\ p \in D
  BY <1>1, <1>3, <1>5, ChosenFacts
<1>7. g[p] = f[p]
  BY <1>6 DEF g
<1>8. PartialSums(g)[t] = PartialSums(f)[t]
  <2>. HIDE DEF t
  <2>1. Cardinality(t) < Cardinality(s)
    BY <1>6
  <2>. QED
    BY <1>2, <1>6, <2>1
<1>. QED
  BY <1>2, <1>4, <1>5, <1>7, <1>8

\* Summing up counts of disjoint sets counts their union.
LEMMA PartialCounts ==
    ASSUME NEW D, IsFiniteSet(D), NEW R, IsFiniteSet(R), NEW P \in [D -> SUBSET R],
           \A x, y \in D : x # y => P[x] \cap P[y] = {},
           NEW f, f = [x \in D |-> Cardinality(P[x])]
    PROVE  PartialSums(f)[D] = Cardinality(UNION {P[x] : x \in D})
<1>. DEFINE Of(s) == UNION {P[x] : x \in s}
            bad == {s \in SUBSET D : PartialSums(f)[s] # Cardinality(Of(s))}
<1>0. DOMAIN f = D
  OBVIOUS
<1>. SUFFICES ASSUME bad # {} PROVE FALSE
  OBVIOUS
<1>1. PICK s \in bad : \A t \in bad : ~(Cardinality(t) < Cardinality(s))
  <2>. HIDE DEF Of
  <2>1. bad \in SUBSET SUBSET D
    OBVIOUS
  <2>. QED
    BY <2>1, SmallestSubset
<1>2. s # {}
  <2>1. Of({}) = {}
    OBVIOUS
  <2>2. PartialSums(f)[{}] = 0
    BY <1>0, PartialUnfolds
  <2>. QED
    BY <1>1, <2>1, <2>2, FS_EmptySet
<1>. DEFINE p == Chosen(s)
            t == s \ {p}
<1>3. /\ s \in SUBSET D /\ p \in s /\ p \in D /\ t \in SUBSET D
      /\ Cardinality(t) = Cardinality(s) - 1 /\ Cardinality(s) \in Nat
  BY <1>2, ChosenFacts
<1>4. PartialSums(f)[t] = Cardinality(Of(t))
  <2>. HIDE DEF t, Of
  <2>1. Cardinality(t) < Cardinality(s)
    BY <1>3
  <2>. QED
    BY <1>1, <1>3, <2>1
<1>5. PartialSums(f)[s] = Cardinality(P[p]) + PartialSums(f)[t]
  <2>1. PartialSums(f)[s] = f[p] + PartialSums(f)[t]
    BY <1>0, <1>2, <1>3, PartialUnfolds
  <2>. QED
    BY <1>3, <2>1
<1>6. Of(s) = P[p] \cup Of(t)
  BY <1>3
<1>7. P[p] \cap Of(t) = {}
  BY <1>3
<1>8. IsFiniteSet(P[p]) /\ IsFiniteSet(Of(t))
  <2>1. P[p] \in SUBSET R /\ Of(t) \in SUBSET R
    BY <1>3
  <2>. QED
    BY <2>1, FS_Subset
<1>. HIDE DEF Of
<1>9. Cardinality(Of(s)) = Cardinality(P[p]) + Cardinality(Of(t))
  <2>1. /\ Cardinality(P[p]) \in Nat /\ Cardinality(Of(t)) \in Nat
        /\ Cardinality(P[p] \cap Of(t)) = 0
    BY <1>7, <1>8, FS_CardinalityType, FS_EmptySet
  <2>2. Cardinality(Of(s)) =
           Cardinality(P[p]) + Cardinality(Of(t)) - Cardinality(P[p] \cap Of(t))
    BY <1>6, <1>8, FS_Union
  <2>. DEFINE a == Cardinality(P[p])
              b == Cardinality(Of(t))
              c == Cardinality(P[p] \cap Of(t))
              d == Cardinality(Of(s))
  <2>3. a \in Nat /\ b \in Nat /\ c = 0 /\ d = a + b - c
    BY <2>1, <2>2
  <2>4. d = a + b
    <3>. HIDE DEF a, b, c, d
    <3>. QED
      BY <2>3
  <2>. QED
    BY <2>4
<1>. QED
  BY <1>1, <1>4, <1>5, <1>9

\* A sum of counts is a count.
LEMMA SumIsNat == ASSUME NEW f, NatFinite(f) PROVE SumOf(f) \in Nat
BY PartialIsNat, SumIsPartial

\* A sum over more is not less.
LEMMA SumGrows ==
    ASSUME NEW f, NatFinite(f), NEW D \in SUBSET DOMAIN f
    PROVE  SumOf([x \in D |-> f[x]]) <= SumOf(f)
<1>. DEFINE g == [x \in D |-> f[x]]
<1>1. SumOf(g) = PartialSums(g)[D] /\ SumOf(f) = PartialSums(f)[DOMAIN f]
  BY SumIsPartial
<1>2. PartialSums(g)[D] = PartialSums(f)[D]
  BY PartialRestricts
<1>3. PartialSums(f)[D] <= PartialSums(f)[DOMAIN f]
  BY PartialGrows
<1>. QED
  BY <1>1, <1>2, <1>3

\* Counts of disjoint sets add up to the count of their union.
LEMMA SumOfCounts ==
    ASSUME NEW D, IsFiniteSet(D), NEW R, IsFiniteSet(R), NEW P \in [D -> SUBSET R],
           \A x, y \in D : x # y => P[x] \cap P[y] = {}
    PROVE  SumOf([x \in D |-> Cardinality(P[x])]) = Cardinality(UNION {P[x] : x \in D})
<1>. DEFINE f == [x \in D |-> Cardinality(P[x])]
<1>1. SumOf(f) = PartialSums(f)[D]
  BY SumIsPartial
<1>2. PartialSums(f)[D] = Cardinality(UNION {P[x] : x \in D})
  BY PartialCounts
<1>. QED
  BY <1>1, <1>2

\* The sums over two sets that share nothing add up to that over both.
LEMMA PartialAdds ==
    ASSUME NEW f, NatFinite(f), NEW t \in SUBSET DOMAIN f, NEW s \in SUBSET DOMAIN f,
           s \cap t = {}
    PROVE  PartialSums(f)[s \cup t] = PartialSums(f)[s] + PartialSums(f)[t]
<1>. DEFINE Adds(u) == PartialSums(f)[u \cup t] = PartialSums(f)[u] + PartialSums(f)[t]
            apart == SUBSET (DOMAIN f \ t)
            bad == {u \in apart : ~Adds(u)}
<1>. SUFFICES ASSUME bad # {} PROVE FALSE
  OBVIOUS
<1>1. PICK u \in bad : \A v \in bad : ~(Cardinality(v) < Cardinality(u))
  <2>. HIDE DEF Adds
  <2>1. bad \in SUBSET SUBSET DOMAIN f
    OBVIOUS
  <2>. QED
    BY <2>1, SmallestSubset DEF NatFinite
<1>2. u \in SUBSET DOMAIN f /\ u \cap t = {} /\ ~Adds(u)
  BY <1>1
<1>3. PartialSums(f)[t] \in Nat /\ PartialSums(f)[{}] = 0
  BY PartialIsNat, PartialUnfolds DEF NatFinite
<1>4. u # {}
  <2>. SUFFICES ASSUME u = {} PROVE FALSE
    OBVIOUS
  <2>1. u \cup t = t
    OBVIOUS
  <2>2. PartialSums(f)[t] = PartialSums(f)[{}] + PartialSums(f)[t]
    BY <1>3
  <2>3. Adds(u)
    BY <2>1, <2>2
  <2>. QED
    BY <1>2, <2>3
<1>. DEFINE p == Chosen(u)
            v == u \ {p}
<1>5. p \in u /\ v \in SUBSET DOMAIN f /\ Cardinality(v) < Cardinality(u)
  <2>. HIDE DEF Adds, bad
  <2>1. IsFiniteSet(DOMAIN f) /\ u \in SUBSET DOMAIN f
    BY <1>2 DEF NatFinite
  <2>2. /\ p \in u /\ v \in SUBSET DOMAIN f
        /\ Cardinality(u) \in Nat /\ Cardinality(v) = Cardinality(u) - 1
    BY <1>4, <2>1, ChosenFacts
  <2>. HIDE DEF p, v
  <2>. QED
    BY <2>2
<1>6. Adds(v)
  <2>1. v \in apart
    BY <1>2, <1>5
  <2>. HIDE DEF Adds, v, apart
  <2>. QED
    BY <1>1, <1>5, <2>1
<1>7. (u \cup t) \ {p} = v \cup t /\ u \cup t \in SUBSET DOMAIN f /\ p \in u \cup t
  BY <1>2, <1>5
<1>8. PartialSums(f)[u \cup t] = f[p] + PartialSums(f)[v \cup t]
  <2>. HIDE DEF p, v
  <2>1. PartialSums(f)[u \cup t] = f[p] + PartialSums(f)[(u \cup t) \ {p}]
    BY <1>7, PartialTakes
  <2>. QED
    BY <1>7, <2>1
<1>9. PartialSums(f)[u] = f[p] + PartialSums(f)[v]
  BY <1>2, <1>5, PartialTakes
<1>10. f[p] \in Nat /\ PartialSums(f)[v] \in Nat
  BY <1>2, <1>5, PartialIsNat DEF NatFinite
<1>. HIDE DEF p, v
<1>. QED
  BY <1>2, <1>3, <1>6, <1>8, <1>9, <1>10

\* Summing up the sums over disjoint sets sums over their union.
LEMMA PartialSumsUp ==
    ASSUME NEW g, NatFinite(g), NEW D, IsFiniteSet(D), NEW P \in [D -> SUBSET DOMAIN g],
           \A x, y \in D : x # y => P[x] \cap P[y] = {},
           NEW f, f = [x \in D |-> PartialSums(g)[P[x]]]
    PROVE  PartialSums(f)[D] = PartialSums(g)[UNION {P[x] : x \in D}]
<1>. DEFINE Of(s) == UNION {P[x] : x \in s}
            bad == {s \in SUBSET D : PartialSums(f)[s] # PartialSums(g)[Of(s)]}
<1>0. DOMAIN f = D
  OBVIOUS
<1>. SUFFICES ASSUME bad # {} PROVE FALSE
  OBVIOUS
<1>1. PICK s \in bad : \A t \in bad : ~(Cardinality(t) < Cardinality(s))
  <2>. HIDE DEF Of
  <2>1. bad \in SUBSET SUBSET D
    OBVIOUS
  <2>. QED
    BY <2>1, SmallestSubset
<1>2. s # {}
  <2>1. Of({}) = {}
    OBVIOUS
  <2>2. PartialSums(f)[{}] = 0
    BY <1>0, PartialUnfolds
  <2>3. PartialSums(g)[{}] = 0
    BY PartialUnfolds DEF NatFinite
  <2>. QED
    BY <1>1, <2>1, <2>2, <2>3
<1>. DEFINE p == Chosen(s)
            t == s \ {p}
<1>3. /\ s \in SUBSET D /\ p \in s /\ p \in D /\ t \in SUBSET D
      /\ Cardinality(t) = Cardinality(s) - 1 /\ Cardinality(s) \in Nat
  BY <1>2, ChosenFacts
<1>4. PartialSums(f)[t] = PartialSums(g)[Of(t)]
  <2>. HIDE DEF t, Of
  <2>1. Cardinality(t) < Cardinality(s)
    BY <1>3
  <2>. QED
    BY <1>1, <1>3, <2>1
<1>5. PartialSums(f)[s] = PartialSums(g)[P[p]] + PartialSums(f)[t]
  <2>1. PartialSums(f)[s] = f[p] + PartialSums(f)[t]
    BY <1>0, <1>2, <1>3, PartialUnfolds
  <2>. QED
    BY <1>3, <2>1
<1>6. Of(s) = P[p] \cup Of(t) /\ P[p] \cap Of(t) = {}
  BY <1>3
<1>7. P[p] \in SUBSET DOMAIN g /\ Of(t) \in SUBSET DOMAIN g
  BY <1>3
<1>. HIDE DEF Of, t, p
<1>8. PartialSums(g)[Of(s)] = PartialSums(g)[P[p]] + PartialSums(g)[Of(t)]
  BY <1>6, <1>7, PartialAdds
<1>. QED
  BY <1>1, <1>4, <1>5, <1>8

\* Sums over disjoint sets add up to the sum over their union.
LEMMA SumOfSums ==
    ASSUME NEW g, NatFinite(g), NEW D, IsFiniteSet(D), NEW P \in [D -> SUBSET DOMAIN g],
           \A x, y \in D : x # y => P[x] \cap P[y] = {},
           UNION {P[x] : x \in D} = DOMAIN g
    PROVE  SumOf([x \in D |-> SumOf([y \in P[x] |-> g[y]])]) = SumOf(g)
<1>. DEFINE f == [x \in D |-> PartialSums(g)[P[x]]]
<1>1. ASSUME NEW x \in D PROVE SumOf([y \in P[x] |-> g[y]]) = PartialSums(g)[P[x]]
  <2>1. P[x] \in SUBSET DOMAIN g
    OBVIOUS
  <2>2. PartialSums([y \in P[x] |-> g[y]])[P[x]] = PartialSums(g)[P[x]]
    BY <2>1, PartialRestricts
  <2>. QED
    BY <2>2, SumIsPartial
<1>2. [x \in D |-> SumOf([y \in P[x] |-> g[y]])] = f
  BY <1>1
<1>3. SumOf(f) = PartialSums(f)[D]
  BY SumIsPartial
<1>4. PartialSums(f)[D] = PartialSums(g)[UNION {P[x] : x \in D}]
  <2>1. f = [x \in D |-> PartialSums(g)[P[x]]]
    OBVIOUS
  <2>. HIDE DEF f
  <2>. QED
    BY <2>1, PartialSumsUp
<1>. QED
  BY <1>2, <1>3, <1>4, SumIsPartial

\* A function over a finite set takes finitely many values.
LEMMA FiniteRange ==
    ASSUME NEW f, IsFiniteSet(DOMAIN f) PROVE IsFiniteSet(Range(f))
<1>. DEFINE g == [x \in DOMAIN f |-> f[x]]
<1>1. g \in Surjection(DOMAIN f, Range(f))
  BY DEF Surjection, Range
<1>. QED
  BY <1>1, FS_Surjection

=============================================================================
