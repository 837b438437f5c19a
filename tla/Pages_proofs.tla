---------------------------- MODULE Pages_proofs ----------------------------
(***************************************************************************)
(* The pages say what is so.  Those of the Security Center agree with each *)
(* other and with the findings, for every set of devices, checks and       *)
(* controls, every result an assessment may yield and any number of runs   *)
(* and deletions; a comparison of configurations is the majority's, for    *)
(* every fleet; every stranger the logs or the watcher know is offered;    *)
(* and the pages over the daemon's logs follow what happened at the        *)
(* devices, for any number of events and of lines read.  And what a        *)
(* finding recommends clears it, on every device and in every order of     *)
(* repairs, but for six recommendations that do not do what they say.      *)
(***************************************************************************)
EXTENDS AuditReports, ConfigCompare, AccountingLog, ClientWatch, SecurityAssessment,
        FiniteSetTheorems, SequenceTheorems, NaturalsInduction, TLAPS

-----------------------------------------------------------------------------
(* Numbers *)

\* A set of natural numbers has a least element, and a bounded one a greatest.
LEMMA Least == ASSUME NEW S \in SUBSET Nat, S # {} PROVE \E n \in S : \A m \in S : n <= m
<1> DEFINE Less == OpToRel(<, Nat)
<1>1. PICK n \in S : \A m \in S : <<m, n>> \notin Less
  <2> HIDE DEF Less
  <2>1. IsWellFoundedOn(Less, Nat)
    BY NatLessThanWellFounded DEF Less
  <2> QED
    BY <2>1, WFMin
<1>2. \A m \in Nat : m < n => <<m, n>> \in Less
  BY DEF OpToRel
<1>3. \A m \in S : ~ (m < n)
  BY <1>1, <1>2
<1> QED
  BY <1>3

LEMMA Greatest ==
  ASSUME NEW S, NEW bound \in Nat, S \subseteq 1..bound, S # {}
  PROVE  Max(S) \in S /\ \A k \in S : k <= Max(S)
<1> DEFINE Bounds == {n \in Nat : \A k \in S : k <= n}
<1>1. Bounds \in SUBSET Nat /\ bound \in Bounds
  OBVIOUS
<1>2. PICK n \in Bounds : \A m \in Bounds : n <= m
  <2> HIDE DEF Bounds
  <2> QED
    BY <1>1, Least
<1>3. n \in S
  <2> SUFFICES ASSUME n \notin S PROVE FALSE
    OBVIOUS
  <2>1. PICK k \in S : TRUE
    OBVIOUS
  <2>2. n - 1 \in Bounds
    BY <1>2, <2>1
  <2> QED
    BY <1>2, <2>2
<1>4. \A k \in S : n >= k
  BY <1>2
<1> QED
  BY <1>3, <1>4 DEF Max

\* The quotient grows with the dividend, and so does the rounded one.
LEMMA Quotient ==
  ASSUME NEW n \in Nat, NEW d \in Nat \ {0}
  PROVE  /\ n \div d \in Nat /\ n % d \in 0..(d - 1)
         /\ n = d * (n \div d) + (n % d)
<1>1. n % d \in 0..(d - 1)
  OBVIOUS
<1>2. n = d * (n \div d) + (n % d)
  OBVIOUS
<1>3. n \div d \in Int
  OBVIOUS
<1>4. n \div d >= 0
  OBVIOUS
<1> QED
  BY <1>1, <1>2, <1>3, <1>4

LEMMA QuotientGrows ==
  ASSUME NEW n \in Nat, NEW m \in Nat, NEW d \in Nat \ {0}, n <= m
  PROVE  n \div d <= m \div d
<1>1. PICK q \in Nat : q = n \div d
  BY Quotient
<1>2. PICK p \in Nat : p = m \div d
  BY Quotient
<1>3. n >= d * q /\ m < d * p + d
  BY <1>1, <1>2, Quotient
<1>4. ~ (q >= p + 1)
  <2> SUFFICES ASSUME q >= p + 1 PROVE FALSE
    OBVIOUS
  <2>1. PICK e \in Nat : q = p + 1 + e
    <3>1. q - p - 1 \in Nat
      OBVIOUS
    <3> QED
      BY <3>1
  <2>2. d * q = d * p + d + d * e
    BY <2>1
  <2>3. d * e \in Nat /\ d * p \in Nat
    OBVIOUS
  <2> QED
    BY <1>3, <2>2, <2>3
<1> QED
  BY <1>1, <1>2, <1>4

LEMMA RoundedGrows ==
  ASSUME NEW n \in Nat, NEW m \in Nat, NEW d \in Nat \ {0}, n <= m
  PROVE  Rounded(n, d) \in Nat /\ Rounded(n, d) <= Rounded(m, d)
<1>1. PICK q \in Nat : q = n \div d
  BY Quotient
<1>2. PICK p \in Nat : p = m \div d
  BY Quotient
<1>3. PICK r \in 0..(d - 1) : r = n % d
  BY Quotient
<1>4. PICK s \in 0..(d - 1) : s = m % d
  BY Quotient
<1>5. /\ Rounded(n, d) = IF 2 * r > d \/ (2 * r = d /\ q % 2 = 1) THEN q + 1 ELSE q
      /\ Rounded(m, d) = IF 2 * s > d \/ (2 * s = d /\ p % 2 = 1) THEN p + 1 ELSE p
  BY <1>1, <1>2, <1>3, <1>4 DEF Rounded
<1>6. q <= p
  BY <1>1, <1>2, QuotientGrows
<1>7. q = p => r <= s
  <2>1. n = d * q + r
    BY <1>1, <1>3, Quotient
  <2>2. m = d * p + s
    BY <1>2, <1>4, Quotient
  <2>3. PICK e \in Int : e = d * q
    OBVIOUS
  <2> QED
    BY <2>1, <2>2, <2>3
<1>8. Rounded(n, d) \in {q, q + 1} /\ Rounded(m, d) \in {p, p + 1}
  BY <1>5
<1>9. CASE q < p
  BY <1>8, <1>9
<1>10. CASE q = p
  <2>1. r <= s
    BY <1>7, <1>10
  <2>2. Rounded(n, d) = q + 1 => Rounded(m, d) = q + 1
    BY <1>5, <1>10, <2>1
  <2> QED
    BY <1>8, <1>10, <2>2
<1> QED
  BY <1>6, <1>9, <1>10

-----------------------------------------------------------------------------
(* Sums *)

Pick(s) == CHOOSE x \in s : TRUE
PartSum(F, f, s) == IF s = {} THEN 0 ELSE f[Pick(s)] + F[s \ {Pick(s)}]

\* F adds up f over every subset of its domain, one element after the other.
Adds(F, f) == F = [s \in SUBSET DOMAIN f |-> PartSum(F, f, s)]

LEMMA SumIsFold == ASSUME NEW f PROVE SumFunction(f) = (CHOOSE F : Adds(F, f))[DOMAIN f]
BY DEF SumFunction, SumFunctionOnSet, FoldFunctionOnSet, MapThenFoldSet, Adds, PartSum, Pick

\* Taking the element away leaves a smaller set.
LEMMA Smaller ==
  ASSUME NEW D, IsFiniteSet(D), NEW s \in SUBSET D, s # {}
  PROVE  /\ Pick(s) \in s /\ s \ {Pick(s)} \in SUBSET D
         /\ Cardinality(s) \in Nat /\ Cardinality(s \ {Pick(s)}) = Cardinality(s) - 1
BY FS_Subset, FS_RemoveElement, FS_CardinalityType DEF Pick

LEMMA SumsExist == ASSUME NEW f, IsFiniteSet(DOMAIN f) PROVE \E F : Adds(F, f)
<1> DEFINE D == DOMAIN f
           Upto(F, n) == /\ F = [s \in SUBSET D |-> F[s]]
                         /\ \A s \in SUBSET D : Cardinality(s) <= n => F[s] = PartSum(F, f, s)
           Missing == {n \in Nat : ~ \E F : Upto(F, n)}
<1>1. \A s \in SUBSET D : Cardinality(s) \in Nat /\ (Cardinality(s) = 0 => s = {})
  BY FS_Subset, FS_CardinalityType, FS_EmptySet
<1>2. \E F : Upto(F, 0)
  <2> DEFINE Zero == [s \in SUBSET D |-> 0]
  <2>1. Zero = [s \in SUBSET D |-> Zero[s]]
    OBVIOUS
  <2>2. ASSUME NEW s \in SUBSET D, Cardinality(s) <= 0 PROVE Zero[s] = PartSum(Zero, f, s)
    <3>1. s = {}
      BY <1>1, <2>2
    <3> QED
      BY <3>1 DEF PartSum
  <2>3. Upto(Zero, 0)
    BY <2>1, <2>2
  <2> QED
    BY <2>3
<1>3. ASSUME NEW n \in Nat, NEW F, Upto(F, n) PROVE \E G : Upto(G, n + 1)
  <2> DEFINE G == [s \in SUBSET D |-> PartSum(F, f, s)]
  <2>1. ASSUME NEW s \in SUBSET D, Cardinality(s) <= n PROVE G[s] = F[s]
    BY <1>3, <2>1
  <2>0. G = [s \in SUBSET D |-> G[s]] /\ \A s \in SUBSET D : G[s] = PartSum(F, f, s)
    OBVIOUS
  <2> HIDE DEF G
  <2>2. ASSUME NEW s \in SUBSET D, Cardinality(s) <= n + 1, s # {} PROVE G[s] = PartSum(G, f, s)
    <3>1. s \ {Pick(s)} \in SUBSET D /\ Cardinality(s \ {Pick(s)}) <= n
      BY <1>1, <2>2, Smaller
    <3>2. G[s \ {Pick(s)}] = F[s \ {Pick(s)}]
      BY <2>1, <3>1
    <3> QED
      BY <2>0, <2>2, <3>2 DEF PartSum
  <2>3. {} \in SUBSET D /\ G[{}] = PartSum(G, f, {})
    BY <2>0 DEF PartSum
  <2>4. Upto(G, n + 1)
    BY <2>0, <2>2, <2>3
  <2> QED
    BY <2>4
<1>4. Missing = {}
  <2> HIDE DEF Upto
  <2> SUFFICES ASSUME Missing # {} PROVE FALSE
    OBVIOUS
  <2>1. PICK n \in Missing : \A m \in Missing : n <= m
    <3>1. Missing \in SUBSET Nat
      OBVIOUS
    <3> HIDE DEF Missing
    <3> QED
      BY <3>1, Least
  <2>2. n # 0
    BY <1>2, <2>1
  <2>3. n - 1 \in Nat /\ n - 1 \notin Missing
    BY <2>1, <2>2
  <2>4. \E F : Upto(F, n - 1)
    BY <2>3
  <2>5. \E F : Upto(F, n - 1 + 1)
    BY <1>3, <2>3, <2>4
  <2> QED
    BY <2>1, <2>5
<1>5. PICK F : Upto(F, Cardinality(D))
  <2>1. Cardinality(D) \in Nat
    BY FS_CardinalityType
  <2> QED
    BY <1>4, <2>1
<1>6. \A s \in SUBSET D : Cardinality(s) <= Cardinality(D)
  BY FS_Subset
<1>7. Adds(F, f)
  BY <1>5, <1>6 DEF Adds
<1> QED
  BY <1>7

\* A sum of natural numbers is one, and grows with what is added up.
LEMMA SumsGrow ==
  ASSUME NEW f, NEW g, IsFiniteSet(DOMAIN f), DOMAIN g = DOMAIN f,
         \A x \in DOMAIN f : f[x] \in Nat /\ g[x] \in Nat /\ f[x] <= g[x]
  PROVE  SumFunction(f) \in Nat /\ SumFunction(g) \in Nat /\ SumFunction(f) <= SumFunction(g)
<1> DEFINE D == DOMAIN f
<1>1. PICK F : Adds(F, f) /\ SumFunction(f) = F[D]
  BY SumIsFold, SumsExist
<1>2. PICK G : Adds(G, g) /\ SumFunction(g) = G[D]
  BY SumIsFold, SumsExist
<1> DEFINE Good(s) == F[s] \in Nat /\ G[s] \in Nat /\ F[s] <= G[s]
           Sizes == {Cardinality(s) : s \in {t \in SUBSET D : ~ Good(t)}}
<1>3. F[{}] = 0 /\ G[{}] = 0
  BY <1>1, <1>2 DEF Adds, PartSum
<1>4. ASSUME NEW s \in SUBSET D, s # {}, Good(s \ {Pick(s)}) PROVE Good(s)
  <2>1. Pick(s) \in D
    BY <1>4, Smaller
  <2>2. F[s] = f[Pick(s)] + F[s \ {Pick(s)}] /\ G[s] = g[Pick(s)] + G[s \ {Pick(s)}]
    BY <1>1, <1>2, <1>4 DEF Adds, PartSum
  <2> QED
    BY <1>4, <2>1, <2>2
<1>5. Sizes = {}
  <2> SUFFICES ASSUME Sizes # {} PROVE FALSE
    OBVIOUS
  <2>1. Sizes \in SUBSET Nat
    BY FS_Subset, FS_CardinalityType
  <2>2. PICK n \in Sizes : \A m \in Sizes : n <= m
    <3> HIDE DEF Sizes
    <3> QED
      BY <2>1, Least
  <2>3. PICK s \in SUBSET D : ~ Good(s) /\ n = Cardinality(s)
    BY <2>2
  <2>4. s # {}
    BY <1>3, <2>3
  <2>5. s \ {Pick(s)} \in SUBSET D /\ Cardinality(s \ {Pick(s)}) = n - 1 /\ n \in Nat
    BY <2>3, <2>4, Smaller
  <2>6. n - 1 \notin Sizes
    BY <2>1, <2>2, <2>5
  <2>7. Good(s \ {Pick(s)})
    BY <2>5, <2>6
  <2> QED
    BY <1>4, <2>3, <2>4, <2>7
<1>6. Good(D)
  BY <1>5
<1> QED
  BY <1>1, <1>2, <1>6

\* A sum over a partition: what each part counts adds up to the whole.
LEMMA SumsByPart ==
  ASSUME NEW f, IsFiniteSet(DOMAIN f), NEW R, IsFiniteSet(R), NEW h,
         \A i \in R : h[i] \in DOMAIN f,
         \A b \in DOMAIN f : f[b] = Cardinality({i \in R : h[i] = b})
  PROVE  SumFunction(f) = Cardinality(R)
<1> DEFINE D == DOMAIN f
           Part(s) == {i \in R : h[i] \in s}
           One(b) == {i \in R : h[i] = b}
<1>1. PICK F : Adds(F, f) /\ SumFunction(f) = F[D]
  BY SumIsFold, SumsExist
<1> DEFINE Good(s) == F[s] = Cardinality(Part(s))
           Sizes == {Cardinality(s) : s \in {t \in SUBSET D : ~ Good(t)}}
<1>2. Good({})
  <2>1. F[{}] = 0
    BY <1>1 DEF Adds, PartSum
  <2>2. Part({}) = {}
    OBVIOUS
  <2> QED
    BY <2>1, <2>2, FS_EmptySet
<1>3. ASSUME NEW s \in SUBSET D, s # {}, Good(s \ {Pick(s)}) PROVE Good(s)
  <2> DEFINE p == Pick(s)
             t == s \ {p}
  <2>1. p \in s /\ p \in D
    BY <1>3, Smaller
  <2>2. F[s] = f[p] + F[t]
    BY <1>1, <1>3 DEF Adds, PartSum
  <2>3. F[t] = Cardinality(Part(t)) /\ f[p] = Cardinality(One(p))
    BY <1>3, <2>1
  <2> HIDE DEF p
  <2>4. /\ Part(s) = Part(t) \cup One(p) /\ Part(t) \cap One(p) = {}
        /\ Part(t) \in SUBSET R /\ One(p) \in SUBSET R
    BY <2>1
  <2> HIDE DEF t, Part, One
  <2>5. IsFiniteSet(Part(t)) /\ IsFiniteSet(One(p))
    BY <2>4, FS_Subset
  <2>6. Cardinality(Part(s)) = Cardinality(Part(t)) + Cardinality(One(p)) - 0
    BY <2>4, <2>5, FS_Union, FS_EmptySet
  <2>7. Cardinality(Part(t)) \in Nat /\ Cardinality(One(p)) \in Nat
    BY <2>5, FS_CardinalityType
  <2> QED
    BY <2>2, <2>3, <2>6, <2>7
<1>4. Sizes = {}
  <2> HIDE DEF Good
  <2> SUFFICES ASSUME Sizes # {} PROVE FALSE
    OBVIOUS
  <2>1. Sizes \in SUBSET Nat
    BY FS_Subset, FS_CardinalityType
  <2>2. PICK n \in Sizes : \A m \in Sizes : n <= m
    <3> HIDE DEF Sizes
    <3> QED
      BY <2>1, Least
  <2>3. PICK s \in SUBSET D : ~ Good(s) /\ n = Cardinality(s)
    BY <2>2
  <2>4. s # {}
    BY <1>2, <2>3
  <2>5. s \ {Pick(s)} \in SUBSET D /\ Cardinality(s \ {Pick(s)}) = n - 1 /\ n \in Nat
    BY <2>3, <2>4, Smaller
  <2>6. n - 1 \notin Sizes
    BY <2>1, <2>2, <2>5
  <2>7. Good(s \ {Pick(s)})
    BY <2>5, <2>6
  <2> QED
    BY <1>3, <2>3, <2>4, <2>7
<1>5. Good(D)
  <2> HIDE DEF Good
  <2> QED
    BY <1>4
<1>6. Part(D) = R
  OBVIOUS
<1> QED
  BY <1>1, <1>5, <1>6

\* A sum of natural numbers is at least the number of summands that count.
LEMMA SumsCover ==
  ASSUME NEW f, IsFiniteSet(DOMAIN f), \A x \in DOMAIN f : f[x] \in Nat,
         NEW S \in SUBSET DOMAIN f, \A x \in S : f[x] >= 1
  PROVE  /\ SumFunction(f) \in Nat /\ Cardinality(S) \in Nat
         /\ Cardinality(S) <= SumFunction(f)
<1> DEFINE g == [x \in DOMAIN f |-> Cardinality({i \in S : i = x})]
           h == [i \in S |-> i]
<1>1. IsFiniteSet(S) /\ Cardinality(S) \in Nat
  BY FS_Subset, FS_CardinalityType
<1>2. ASSUME NEW x \in DOMAIN f PROVE g[x] \in Nat /\ g[x] <= f[x]
  <2>1. CASE x \in S
    <3>1. {i \in S : i = x} = {x}
      BY <2>1
    <3>2. g[x] = 1
      BY <3>1, FS_Singleton
    <3> QED
      BY <2>1, <3>2
  <2>2. CASE x \notin S
    <3>1. {i \in S : i = x} = {}
      BY <2>2
    <3>2. g[x] = 0
      BY <3>1, FS_EmptySet
    <3> QED
      BY <3>2
  <2> QED
    BY <2>1, <2>2
<1>3. /\ DOMAIN g = DOMAIN f
      /\ \A b \in DOMAIN g : g[b] = Cardinality({i \in S : h[i] = b})
      /\ \A i \in S : h[i] \in DOMAIN g
  <2>1. \A b : {i \in S : h[i] = b} = {i \in S : i = b}
    OBVIOUS
  <2> QED
    BY <2>1
<1> HIDE DEF g, h
<1>4. SumFunction(g) = Cardinality(S)
  BY <1>1, <1>3, SumsByPart
<1>5. SumFunction(g) <= SumFunction(f) /\ SumFunction(f) \in Nat
  BY <1>2, <1>3, SumsGrow
<1> QED
  BY <1>1, <1>4, <1>5

-----------------------------------------------------------------------------
(* What the runs hold *)

\* A run names a device that is there or none, and its assessment row the device it was started
\* for: after a deletion the row alone names it.  A check a framework maps has one finding at
\* most, and the stored score is the one its findings have.
RunIsSound(r) ==
  /\ r.device \in devices \cup {None}
  /\ \/ r.recorded \in {None, r.device}
     \/ r.device = None /\ r.recorded \notin devices
  /\ MappedOnce(r.result.seen)
  /\ ScoreIsRecorded(r)

ReportsSafe ==
  /\ devices \subseteq Devices
  /\ revision \in Int
  /\ runs \in Seq(RunRecords)
  /\ \A i \in DOMAIN runs : RunIsSound(runs[i])

\* A change of one field gives a record of the same kind.
LEMMA RunTypes ==
  ASSUME NEW r \in RunRecords
  PROVE  /\ r = [device |-> r.device, recorded |-> r.recorded, status |-> r.status,
                 engine |-> r.engine, manifest |-> r.manifest, result |-> r.result,
                 score |-> r.score]
         /\ r.device \in Devices \cup {None} /\ r.recorded \in Devices \cup {None}
         /\ r.result \in Results /\ r.manifest \in Int \cup {None}
         /\ r.engine \in Int /\ r.score \in Int \cup {None}
BY DEF RunRecords

\* The image of a finite set is finite.
LEMMA FiniteRange ==
  ASSUME NEW f, IsFiniteSet(DOMAIN f) PROVE IsFiniteSet({f[x] : x \in DOMAIN f})
<1> DEFINE D == DOMAIN f
           T == {f[x] : x \in D}
<1>1. PICK n \in Nat : ExistsSurjection(1..n, D)
  BY FS_NatSurjection
<1>2. PICK g \in [1..n -> D] : \A x \in D : \E i \in 1..n : g[i] = x
  BY <1>1 DEF ExistsSurjection, Surjection
<1> DEFINE h == [i \in 1..n |-> f[g[i]]]
<1>3. h \in [1..n -> T]
  BY <1>2
<1>4. \A y \in T : \E i \in 1..n : h[i] = y
  BY <1>2
<1>5. ExistsSurjection(1..n, T)
  <2> HIDE DEF T, h
  <2> QED
    BY <1>3, <1>4 DEF ExistsSurjection, Surjection
<1> QED
  BY <1>5, FS_NatSurjection

\* The findings of a result, and a status for each.
LEMMA Observing ==
  ASSUME NEW result \in Results
  PROVE  /\ IsFiniteSet(Observed(result.seen, Keys))
         /\ \A o \in Observed(result.seen, Keys) :
              o[1] \in Keys /\ o[2] \in 1..Len(result.seen[o[1]]) /\ StatusOf(result.seen, o) \in Statuses
<1>1. \A k \in Keys : result.seen[k] \in Seq(Statuses)
  BY DEF Results
<1> DEFINE Of(k) == {<<k, m>> : m \in DOMAIN result.seen[k]}
           of == [k \in Keys |-> Of(k)]
<1>2. ASSUME NEW k \in Keys PROVE IsFiniteSet(Of(k))
  <2>1. DOMAIN result.seen[k] = 1..Len(result.seen[k]) /\ Len(result.seen[k]) \in Nat
    BY <1>1
  <2>2. IsFiniteSet(DOMAIN result.seen[k])
    BY <2>1, FS_Interval
  <2> DEFINE g == [m \in DOMAIN result.seen[k] |-> <<k, m>>]
  <2>3. DOMAIN g = DOMAIN result.seen[k] /\ Of(k) = {g[m] : m \in DOMAIN g}
    OBVIOUS
  <2> HIDE DEF g, Of
  <2> QED
    BY <2>2, <2>3, FiniteRange
<1>3. IsFiniteSet({Of(k) : k \in Keys})
  <2>1. DOMAIN of = Keys /\ {Of(k) : k \in Keys} = {of[k] : k \in DOMAIN of}
    OBVIOUS
  <2> HIDE DEF of, Of
  <2> QED
    BY <2>1, ReportsAssumption, FiniteRange
<1>4. IsFiniteSet(UNION {Of(k) : k \in Keys})
  <2> HIDE DEF Of
  <2>1. \A T \in {Of(k) : k \in Keys} : IsFiniteSet(T)
    BY <1>2
  <2> QED
    BY <1>3, <2>1, FS_UNION
<1>5. Observed(result.seen, Keys) = UNION {Of(k) : k \in Keys}
  BY DEF Observed
<1>6. ASSUME NEW o \in Observed(result.seen, Keys)
      PROVE  /\ o[1] \in Keys /\ o[2] \in 1..Len(result.seen[o[1]])
             /\ StatusOf(result.seen, o) \in Statuses
  <2>1. PICK k \in Keys : o \in Of(k)
    BY <1>5, <1>6
  <2>2. PICK n \in DOMAIN result.seen[k] : o = <<k, n>>
    BY <2>1
  <2>3. DOMAIN result.seen[k] = 1..Len(result.seen[k]) /\ result.seen[k][n] \in Statuses
    BY <1>1, <2>2
  <2> QED
    BY <2>2, <2>3 DEF StatusOf
<1> QED
  BY <1>4, <1>5, <1>6

\* What the findings weigh, and what they earn.
Weights(found) == [o \in Counted(found, Keys) |-> Weight[Severity[o[1]]]]
Credits(found) == [o \in Counted(found, Keys) |->
                    Weight[Severity[o[1]]] * HalfCredits[StatusOf(found, o)]]

LEMMA Weighing ==
  ASSUME NEW result \in Results
  PROVE  /\ IsFiniteSet(Counted(result.seen, Keys))
         /\ \A o \in Counted(result.seen, Keys) :
              /\ Weights(result.seen)[o] \in Nat
              /\ Credits(result.seen)[o] \in Nat
         /\ Earned(result.seen, Keys) = SumFunction(Credits(result.seen))
         /\ Applicable(result.seen, Keys) = SumFunction(Weights(result.seen))
<1>1. IsFiniteSet(Counted(result.seen, Keys))
  BY Observing, FS_Subset DEF Counted
<1>2. \A s \in DOMAIN Weight : Weight[s] \in Nat
  BY DEF Weight
<1>3. ASSUME NEW o \in Counted(result.seen, Keys)
      PROVE  /\ Weight[Severity[o[1]]] \in Nat
             /\ HalfCredits[StatusOf(result.seen, o)] \in Nat
  <2>1. o[1] \in Keys /\ StatusOf(result.seen, o) \in Statuses \ {"na"}
    BY <1>3, Observing DEF Counted
  <2>2. Weight[Severity[o[1]]] \in Nat
    <3>1. Severity \in [Keys -> DOMAIN Weight]
      BY ReportsAssumption
    <3>2. Severity[o[1]] \in DOMAIN Weight
      BY <2>1, <3>1
    <3> QED
      BY <1>2, <3>2
  <2>3. HalfCredits[StatusOf(result.seen, o)] \in Nat
    <3>1. \A s \in Statuses \ {"na"} : HalfCredits[s] \in Nat
      BY DEF HalfCredits, Statuses
    <3> QED
      BY <2>1, <3>1
  <2> QED
    BY <2>2, <2>3
<1>4. /\ Earned(result.seen, Keys) = SumFunction(Credits(result.seen))
      /\ Applicable(result.seen, Keys) = SumFunction(Weights(result.seen))
  BY DEF Earned, Applicable, Weights, Credits
<1>5. ASSUME NEW o \in Counted(result.seen, Keys)
      PROVE  Weights(result.seen)[o] \in Nat /\ Credits(result.seen)[o] \in Nat
  <2>1. \A x \in Nat, y \in Nat : x * y \in Nat
    OBVIOUS
  <2> QED
    BY <1>3, <2>1 DEF Weights, Credits
<1> QED
  BY <1>1, <1>4, <1>5

\* A score is a number.
LEMMA ScoresAreNumbers ==
  ASSUME NEW result \in Results PROVE ScoreFindings(result.seen, Keys) \in Nat
<1>1. Earned(result.seen, Keys) \in Nat /\ Applicable(result.seen, Keys) \in Nat
  <2> DEFINE f == Credits(result.seen)
             g == Weights(result.seen)
  <2>1. DOMAIN f = Counted(result.seen, Keys) /\ DOMAIN g = Counted(result.seen, Keys)
    BY DEF Credits, Weights
  <2>2. \A x \in DOMAIN f : f[x] \in Nat /\ f[x] <= f[x]
    BY <2>1, Weighing
  <2>3. \A x \in DOMAIN g : g[x] \in Nat /\ g[x] <= g[x]
    BY <2>1, Weighing
  <2> HIDE DEF f, g
  <2>4. SumFunction(f) \in Nat /\ SumFunction(g) \in Nat
    <3>1. SumFunction(f) \in Nat
      BY <2>1, <2>2, SumsGrow, Weighing
    <3>2. SumFunction(g) \in Nat
      BY <2>1, <2>3, SumsGrow, Weighing
    <3> QED
      BY <3>1, <3>2
  <2> QED
    BY <2>4, Weighing DEF f, g
<1>2. \A e \in Nat : 500 * e \in Nat
  OBVIOUS
<1> QED
  BY <1>1, <1>2, RoundedGrows DEF ScoreFindings

-----------------------------------------------------------------------------
(* The invariant *)

\* The history an installation starts with.
LEMMA ReportsInit == InitReports => ReportsSafe
<1> SUFFICES ASSUME InitReports PROVE ReportsSafe
  OBVIOUS
<1>1. devices = Devices /\ runs \in InitialRuns /\ revision = 1
  BY DEF InitReports
<1>2. /\ runs \in Seq(RunRecords)
      /\ \A i \in DOMAIN runs :
           /\ runs[i].recorded \in {None, runs[i].device}
           /\ MappedOnce(runs[i].result.seen) /\ ScoreIsRecorded(runs[i])
  BY <1>1, ReportsAssumption
<1>3. ASSUME NEW i \in DOMAIN runs PROVE runs[i].device \in devices \cup {None}
  <2>1. runs[i] \in RunRecords
    BY <1>2, <1>3
  <2> QED
    BY <1>1, <2>1, RunTypes
<1> QED
  BY <1>1, <1>2, <1>3 DEF ReportsSafe, RunIsSound

\* Nothing to judge.
LEMMA NothingIsAResult == Nothing \in Results /\ MappedOnce(Nothing.seen)
<1>1. <<>> \in Seq(Statuses)
  OBVIOUS
<1>2. [k \in Keys |-> <<>>] \in [Keys -> Seq(Statuses)]
  BY <1>1
<1> QED
  BY <1>2 DEF Nothing, Results, MappedOnce

LEMMA BeginIsSafe ==
  ASSUME ReportsSafe, NEW d \in devices \cup {None}, BeginRun(d) PROVE ReportsSafe'
<1>1. NewRun(d) \in RunRecords
  BY NothingIsAResult DEF NewRun, RunRecords, ReportsSafe
<1>2. RunIsSound(NewRun(d))
  BY NothingIsAResult DEF NewRun, RunIsSound, ScoreIsRecorded
<1>3. runs' = Append(runs, NewRun(d)) /\ runs \in Seq(RunRecords) /\ UNCHANGED <<devices, revision>>
  BY DEF BeginRun, ReportsSafe
<1>4. runs' \in Seq(RunRecords)
  BY <1>1, <1>3
<1>5. ASSUME NEW i \in DOMAIN runs' PROVE runs'[i] = NewRun(d) \/ (i \in DOMAIN runs /\ runs'[i] = runs[i])
  BY <1>1, <1>3
<1>6. ASSUME NEW i \in DOMAIN runs' PROVE RunIsSound(runs[i])'
  <2>1. RunIsSound(runs'[i])
    BY <1>2, <1>5 DEF ReportsSafe
  <2> QED
    BY <1>3, <2>1 DEF RunIsSound, ScoreIsRecorded
<1> QED
  BY <1>3, <1>4, <1>6 DEF ReportsSafe

\* One run changes, and stays sound.
LEMMA OneRunChanges ==
  ASSUME ReportsSafe, NEW i \in DOMAIN runs, NEW r \in RunRecords, RunIsSound(r),
         runs' = [runs EXCEPT ![i] = r], UNCHANGED <<devices, revision>>
  PROVE  ReportsSafe'
<1>1. runs \in Seq(RunRecords) /\ runs' \in Seq(RunRecords) /\ DOMAIN runs' = DOMAIN runs
  BY DEF ReportsSafe
<1>2. ASSUME NEW j \in DOMAIN runs' PROVE RunIsSound(runs[j])'
  <2>1. runs'[j] \in {r, runs[j]} /\ j \in DOMAIN runs
    BY <1>1
  <2>2. RunIsSound(runs'[j])
    BY <2>1 DEF ReportsSafe
  <2> QED
    BY <2>2 DEF RunIsSound, ScoreIsRecorded
<1> QED
  BY <1>1, <1>2 DEF ReportsSafe

LEMMA FinishIsSafe ==
  ASSUME ReportsSafe, NEW i \in DOMAIN runs, NEW result \in Observations, FinishRun(i, result)
  PROVE  ReportsSafe'
<1> DEFINE r == [runs[i] EXCEPT !.status = "completed", !.manifest = revision,
                                !.recorded = runs[i].device, !.result = result,
                                !.score = ScoreFindings(result.seen, Keys)]
<1>1. runs[i] \in RunRecords /\ RunIsSound(runs[i])
  BY DEF ReportsSafe
<1>2. result \in Results /\ MappedOnce(result.seen)
  BY ReportsAssumption
<1>3. ScoreFindings(result.seen, Keys) \in Int
  BY <1>2, ScoresAreNumbers
<1>4. /\ r.device = runs[i].device /\ r.recorded = runs[i].device /\ r.status = "completed"
      /\ r.engine = runs[i].engine /\ r.manifest = revision /\ r.result = result
      /\ r.score = ScoreFindings(result.seen, Keys)
  BY <1>1 DEF RunRecords
<1>5. r \in RunRecords
  BY <1>1, <1>2, <1>3 DEF RunRecords, ReportsSafe
<1> HIDE DEF r
<1>6. RunIsSound(r)
  BY <1>1, <1>2, <1>4 DEF RunIsSound, ScoreIsRecorded
<1>7. runs' = [runs EXCEPT ![i] = r] /\ UNCHANGED <<devices, revision>>
  BY DEF FinishRun, r
<1> QED
  BY <1>5, <1>6, <1>7, OneRunChanges

LEMMA FailIsSafe ==
  ASSUME ReportsSafe, NEW i \in DOMAIN runs, FailRun(i) PROVE ReportsSafe'
<1> DEFINE r == [runs[i] EXCEPT !.status = "failed"]
<1>1. runs[i] \in RunRecords /\ RunIsSound(runs[i])
  BY DEF ReportsSafe
<1>2. /\ r \in RunRecords
      /\ r.device = runs[i].device /\ r.recorded = runs[i].recorded
      /\ r.manifest = runs[i].manifest /\ r.result = runs[i].result /\ r.score = runs[i].score
  BY <1>1 DEF RunRecords
<1> HIDE DEF r
<1>3. RunIsSound(r)
  BY <1>1, <1>2 DEF RunIsSound, ScoreIsRecorded
<1>4. runs' = [runs EXCEPT ![i] = r] /\ UNCHANGED <<devices, revision>>
  BY DEF FailRun, r
<1> QED
  BY <1>2, <1>3, <1>4, OneRunChanges

\* Its runs lose the device, their assessment rows keep it.
LEMMA DeleteIsSafe ==
  ASSUME ReportsSafe, NEW d \in devices, DeleteDevice(d) PROVE ReportsSafe'
<1>1. /\ devices' = devices \ {d} /\ revision' = revision
      /\ runs' = [i \in DOMAIN runs |->
                    IF runs[i].device = d THEN [runs[i] EXCEPT !.device = None] ELSE runs[i]]
  BY DEF DeleteDevice
<1>2. runs \in Seq(RunRecords) /\ devices \subseteq Devices
  BY DEF ReportsSafe
<1>3. None \notin devices
  BY <1>2, ReportsAssumption
<1>4. ASSUME NEW i \in DOMAIN runs
      PROVE  /\ runs'[i] \in RunRecords
             /\ runs'[i].device = IF runs[i].device = d THEN None ELSE runs[i].device
             /\ runs'[i].recorded = runs[i].recorded /\ runs'[i].result = runs[i].result
             /\ runs'[i].manifest = runs[i].manifest /\ runs'[i].score = runs[i].score
  <2>1. runs[i] \in RunRecords
    BY <1>2
  <2> QED
    BY <1>1, <2>1 DEF RunRecords
<1>5. DOMAIN runs' = DOMAIN runs /\ runs' \in Seq(RunRecords)
  <2>1. PICK n \in Nat : DOMAIN runs = 1..n
    BY <1>2
  <2>2. DOMAIN runs' = 1..n
    BY <1>1, <2>1
  <2>3. runs' = [i \in 1..n |-> runs'[i]]
    BY <1>1, <2>1
  <2> QED
    BY <1>4, <2>1, <2>2, <2>3
<1>6. ASSUME NEW i \in DOMAIN runs' PROVE RunIsSound(runs[i])'
  <2>1. RunIsSound(runs[i])
    BY <1>5 DEF ReportsSafe
  <2>2. runs'[i].device \in devices' \cup {None}
    BY <1>1, <1>4, <1>5, <2>1 DEF RunIsSound
  <2>3. \/ runs'[i].recorded \in {None, runs'[i].device}
        \/ runs'[i].device = None /\ runs'[i].recorded \notin devices'
    BY <1>1, <1>4, <1>5, <2>1 DEF RunIsSound
  <2> QED
    BY <1>4, <1>5, <2>1, <2>2, <2>3 DEF RunIsSound, ScoreIsRecorded
<1> QED
  BY <1>1, <1>2, <1>5, <1>6 DEF ReportsSafe

LEMMA ReportsNext == ReportsSafe /\ [NextReports]_reportVars => ReportsSafe'
<1> SUFFICES ASSUME ReportsSafe, [NextReports]_reportVars PROVE ReportsSafe'
  OBVIOUS
<1>1. ASSUME NEW d \in devices \cup {None}, BeginRun(d) PROVE ReportsSafe'
  BY <1>1, BeginIsSafe
<1>2. ASSUME NEW i \in DOMAIN runs, FailRun(i) PROVE ReportsSafe'
  BY <1>2, FailIsSafe
<1>3. ASSUME NEW i \in DOMAIN runs, NEW result \in Observations, FinishRun(i, result) PROVE ReportsSafe'
  BY <1>3, FinishIsSafe
<1>4. ASSUME NEW d \in devices, DeleteDevice(d) PROVE ReportsSafe'
  BY <1>4, DeleteIsSafe
<1>5. CASE Upgrade
  BY <1>5 DEF Upgrade, ReportsSafe, RunIsSound, ScoreIsRecorded
<1>6. CASE UNCHANGED reportVars
  BY <1>6 DEF reportVars, ReportsSafe, RunIsSound, ScoreIsRecorded
<1> QED
  BY <1>1, <1>2, <1>3, <1>4, <1>5, <1>6 DEF NextReports

LEMMA ReportsAreSafe == SpecReports => []ReportsSafe
BY ReportsInit, ReportsNext, PTL DEF SpecReports

-----------------------------------------------------------------------------
(* The pages *)

\* The latest run of an audited device is one of its completed runs, and no other comes after it.
LEMMA LatestIsLast ==
  ASSUME ReportsSafe, NEW d \in Audited
  PROVE  /\ d \in Devices /\ LatestRun(d) \in CompletedOf(d)
         /\ LatestRun(d) \in DOMAIN runs
         /\ \A i \in CompletedOf(d) : i <= LatestRun(d)
<1>1. DOMAIN runs = 1..Len(runs) /\ Len(runs) \in Nat
  BY DEF ReportsSafe
<1>2. CompletedOf(d) \subseteq 1..Len(runs) /\ CompletedOf(d) # {}
  BY <1>1 DEF CompletedOf, Audited
<1> QED
  BY <1>1, <1>2, Greatest DEF LatestRun, Audited

LEMMA RunFacts ==
  ASSUME ReportsSafe, NEW i \in DOMAIN runs
  PROVE  /\ runs[i] \in RunRecords /\ RunIsSound(runs[i])
         /\ runs[i].result \in Results
         /\ runs[i].result.seen \in [Keys -> Seq(Statuses)]
         /\ MappedOnce(runs[i].result.seen)
<1>1. runs[i] \in RunRecords /\ RunIsSound(runs[i])
  BY DEF ReportsSafe
<1>2. runs[i].result \in Results
  BY <1>1, RunTypes
<1> QED
  BY <1>1, <1>2 DEF Results, RunIsSound

LEMMA SingleFinding ==
  ASSUME NEW s \in Seq(Statuses), Len(s) = 1 PROVE DOMAIN s = {1} /\ s[1] \in Statuses
OBVIOUS

\* A mapped check contributes its finding to the control, and nothing else does.
LEMMA ControlSees ==
  ASSUME NEW found \in [Keys -> Seq(Statuses)], MappedOnce(found), NEW control, NEW status
  PROVE  status \in Contributing(found, control)
           <=> \E o \in Observed(found, Keys) : /\ StatusOf(found, o) = status
                                               /\ control \in Controls[o[1]]
<1>1. ASSUME NEW k \in Keys, control \in Controls[k], found[k] # <<>>
      PROVE  DOMAIN found[k] = {1} /\ Len(found[k]) = 1
  <2>1. Len(found[k]) <= 1
    BY <1>1 DEF MappedOnce
  <2>2. found[k] \in Seq(Statuses)
    OBVIOUS
  <2>3. PICK n \in Nat : n = Len(found[k])
    BY <2>2
  <2>4. n = 0 => found[k] = <<>>
    BY <2>2, <2>3, EmptySeq
  <2>5. n = 1
    BY <1>1, <2>1, <2>3, <2>4
  <2> QED
    BY <2>2, <2>3, <2>5, SingleFinding
<1>2. ASSUME NEW k \in Keys, control \in Controls[k], found[k] # <<>>, found[k][Len(found[k])] = status
      PROVE  \E o \in Observed(found, Keys) : StatusOf(found, o) = status /\ control \in Controls[o[1]]
  <2>1. 1 \in DOMAIN found[k] /\ found[k][1] = status
    BY <1>1, <1>2
  <2>2. <<k, 1>> \in Observed(found, Keys)
    BY <2>1 DEF Observed
  <2> QED
    BY <1>2, <2>1, <2>2 DEF StatusOf
<1>3. ASSUME NEW o \in Observed(found, Keys), StatusOf(found, o) = status, control \in Controls[o[1]]
      PROVE  status \in Contributing(found, control)
  <2>1. PICK k \in Keys : \E n \in DOMAIN found[k] : o = <<k, n>>
    BY <1>3 DEF Observed
  <2>2. PICK n \in DOMAIN found[k] : o = <<k, n>>
    BY <2>1
  <2>3. found[k] # <<>> /\ control \in Controls[k]
    BY <1>3, <2>2
  <2>4. n = Len(found[k])
    BY <1>1, <2>2, <2>3
  <2>5. found[k][Len(found[k])] = status
    BY <1>3, <2>2, <2>4 DEF StatusOf
  <2> QED
    BY <2>3, <2>5 DEF Contributing
<1> QED
  BY <1>2, <1>3 DEF Contributing

\* A finding of the fleet's list is a finding of an audited device's latest run.
LEMMA FleetFindingsOfDevices ==
  ASSUME NEW status, NEW control
  PROVE  (\E f \in FleetFindings(status) : control \in Controls[f[2][1]])
           <=> \E d \in Audited : \E o \in Observed(SeenLatest(d), Keys) :
                 StatusOf(SeenLatest(d), o) = status /\ control \in Controls[o[1]]
<1>1. ASSUME NEW f \in FleetFindings(status), control \in Controls[f[2][1]]
      PROVE  \E d \in Audited : \E o \in Observed(SeenLatest(d), Keys) :
               StatusOf(SeenLatest(d), o) = status /\ control \in Controls[o[1]]
  <2>1. PICK d \in Audited : f \in {d} \X Observed(SeenLatest(d), Keys)
    BY <1>1 DEF FleetFindings
  <2>2. f[1] = d /\ f[2] \in Observed(SeenLatest(d), Keys)
    BY <2>1
  <2>3. StatusOf(SeenLatest(d), f[2]) = status
    BY <1>1, <2>2 DEF FleetFindings
  <2> QED
    BY <1>1, <2>2, <2>3
<1>2. ASSUME NEW d \in Audited, NEW o \in Observed(SeenLatest(d), Keys),
             StatusOf(SeenLatest(d), o) = status, control \in Controls[o[1]]
      PROVE  \E f \in FleetFindings(status) : control \in Controls[f[2][1]]
  <2>1. <<d, o>> \in {d} \X Observed(SeenLatest(d), Keys)
    BY <1>2
  <2>2. <<d, o>> \in FleetFindings(status)
    BY <1>2, <2>1 DEF FleetFindings
  <2> QED
    BY <1>2, <2>2
<1> QED
  BY <1>1, <1>2

\* The compliance page reads the findings that the findings page lists.
LEMMA ControlsAgree ==
  ASSUME ReportsSafe, NEW control
  PROVE  LET Found(status) == \E f \in FleetFindings(status) : control \in Controls[f[2][1]]
         IN  /\ (FleetStatus(control) = "fail") <=> Found("fail")
             /\ (FleetStatus(control) = "manual_review") <=> (Found("manual_review") /\ ~Found("fail"))
<1> DEFINE Found(status) == \E f \in FleetFindings(status) : control \in Controls[f[2][1]]
           Of(d, status) == status \in Contributing(SeenLatest(d), control)
<1>1. ASSUME NEW status PROVE Found(status) <=> \E d \in Audited : Of(d, status)
  <2>1. ASSUME NEW d \in Audited
        PROVE  Of(d, status) <=> \E o \in Observed(SeenLatest(d), Keys) :
                 StatusOf(SeenLatest(d), o) = status /\ control \in Controls[o[1]]
    <3>1. SeenLatest(d) \in [Keys -> Seq(Statuses)] /\ MappedOnce(SeenLatest(d))
      BY LatestIsLast, RunFacts DEF SeenLatest
    <3> QED
      BY <3>1, ControlSees
  <2> QED
    BY <2>1, FleetFindingsOfDevices
<1>2. None # "fail" /\ None # "manual_review"
  BY ReportsAssumption DEF Statuses
<1>3. ASSUME NEW d \in Audited
      PROVE  /\ (ControlStatus(SeenLatest(d), control) = "fail") <=> Of(d, "fail")
             /\ (ControlStatus(SeenLatest(d), control) = "manual_review")
                  <=> (Of(d, "manual_review") /\ ~Of(d, "fail"))
  BY <1>2 DEF ControlStatus
<1>4. ASSUME NEW status
      PROVE  status \in StatusesOfControl(control)
               <=> \E d \in Audited : ControlStatus(SeenLatest(d), control) = status
  BY DEF StatusesOfControl
<1> HIDE DEF Of, Found
<1>5. "fail" \in StatusesOfControl(control) <=> Found("fail")
  BY <1>1, <1>3, <1>4
<1>6. ~Found("fail") => ("manual_review" \in StatusesOfControl(control) <=> Found("manual_review"))
  BY <1>1, <1>3, <1>4
<1>7. /\ (FleetStatus(control) = "fail") <=> Found("fail")
      /\ (FleetStatus(control) = "manual_review") <=> (Found("manual_review") /\ ~Found("fail"))
  BY <1>5, <1>6 DEF FleetStatus
<1> QED
  BY <1>7 DEF Found

\* While a device is in the inventory, its runs and the runs of its identity are the same.
LEMMA IdentityOfPresent ==
  ASSUME ReportsSafe, NEW i \in DOMAIN runs, NEW d \in devices
  PROVE  Identity(runs[i]) = d <=> runs[i].device = d
<1>1. /\ runs[i].device \in devices \cup {None}
      /\ \/ runs[i].recorded \in {None, runs[i].device}
         \/ runs[i].device = None /\ runs[i].recorded \notin devices
  BY DEF ReportsSafe, RunIsSound
<1>2. d # None
  BY ReportsAssumption DEF ReportsSafe
<1> QED
  BY <1>1, <1>2 DEF Identity

\* A score difference, where there is one.
LEMMA DeltaMeans ==
  ASSUME NEW i, NEW j, ScoreDelta(i, j) # None
  PROVE  /\ ScoreDelta(i, j) = runs[j].score - runs[i].score
         /\ ValidPair(i, j) /\ ~Incompatible(runs[i], runs[j])
         /\ Evaluated(runs[i]) = Evaluated(runs[j])
         /\ \A k \in Evaluated(runs[i]) :
              /\ Len(runs[i].result.seen[k]) = 1 /\ Len(runs[j].result.seen[k]) = 1
              /\ \/ Same(runs[i], k) = Same(runs[j], k)
                 \/ {Same(runs[i], k), Same(runs[j], k)} = {"pass", "fail"}
BY DEF ScoreDelta

\* The activity page's pair is the dashboard's, unless something keeps the two runs apart.
LEMMA ActivityAgrees ==
  ASSUME ReportsSafe, NEW d \in Audited
  PROVE  ActivityDelta(LatestRun(d)) =
           IF d \in Paired /\ ~KeptApart(d)
             THEN runs[LatestRun(d)].score - runs[Max(PreviousRuns(d))].score ELSE None
<1>1. PICK i \in DOMAIN runs : i = LatestRun(d) /\ i \in CompletedOf(d)
  BY LatestIsLast
<1>2. \A k \in CompletedOf(d) : k <= i
  BY <1>1, LatestIsLast
<1>3. DOMAIN runs = 1..Len(runs) /\ Len(runs) \in Nat /\ i \in Nat
  BY DEF ReportsSafe
<1>4. d \in devices
  <2>1. d \in Devices /\ runs[i].device = d
    BY <1>1 DEF CompletedOf, Audited
  <2>2. d # None
    BY <2>1, ReportsAssumption
  <2> QED
    BY <2>1, <2>2, RunFacts DEF RunIsSound
<1>5. Identity(runs[i]) = d /\ d # None
  BY <1>1, <1>4, IdentityOfPresent, ReportsAssumption DEF CompletedOf, Audited
<1>6. \A k \in RecentRuns : k \in DOMAIN runs
  BY DEF RecentRuns
<1>7. Predecessors(i) = {k \in RecentRuns : k < i /\ runs[k].device = d}
  BY <1>4, <1>5, <1>6, IdentityOfPresent DEF Predecessors
<1>8. PreviousRuns(d) = {k \in DOMAIN runs : k < i /\ runs[k].status = "completed" /\ runs[k].device = d}
  BY <1>1, <1>2, <1>3 DEF PreviousRuns, CompletedOf
<1>9. ASSUME ActivityDelta(i) # None
      PROVE  /\ d \in Paired /\ ~KeptApart(d)
             /\ ActivityDelta(i) = runs[i].score - runs[Max(PreviousRuns(d))].score
  <2>1. Predecessors(i) # {}
    BY <1>9 DEF ActivityDelta
  <2>2. PICK m \in Predecessors(i) : m = Max(Predecessors(i)) /\ \A k \in Predecessors(i) : k <= m
    <3>1. Predecessors(i) \subseteq 1..Len(runs)
      BY <1>3, <1>6, <1>7
    <3> QED
      BY <1>3, <2>1, <3>1, Greatest
  <2>3. m \in DOMAIN runs /\ m \in RecentRuns /\ m < i /\ runs[m].device = d
    BY <1>6, <1>7, <2>2
  <2>4. ScoreDelta(m, i) # None /\ ActivityDelta(i) = ScoreDelta(m, i)
    BY <1>9, <2>1, <2>2 DEF ActivityDelta
  <2>5. runs[m].status = "completed" /\ ScoreDelta(m, i) = runs[i].score - runs[m].score
    BY <2>3, <2>4, DeltaMeans DEF Incompatible, Problem
  <2>6. m \in PreviousRuns(d)
    BY <1>8, <2>3, <2>5
  <2>7. PICK p \in PreviousRuns(d) : p = Max(PreviousRuns(d)) /\ \A k \in PreviousRuns(d) : k <= p
    <3>1. PreviousRuns(d) \subseteq 1..Len(runs)
      BY <1>3, <1>8
    <3> QED
      BY <1>3, <2>6, <3>1, Greatest
  <2>8. \A k \in DOMAIN runs : m < k /\ k < i => runs[k].device # d
    <3> SUFFICES ASSUME NEW k \in DOMAIN runs, m < k, k < i, runs[k].device = d PROVE FALSE
      OBVIOUS
    <3>1. k \in RecentRuns
      BY <1>3, <2>3, ReportsAssumption DEF RecentRuns
    <3>2. k <= m
      BY <1>7, <2>2, <3>1
    <3> QED
      BY <1>3, <2>3, <3>2
  <2>9. p = m
    <3>1. p \in DOMAIN runs /\ p < i /\ runs[p].device = d
      BY <1>8
    <3>2. m <= p
      BY <2>6, <2>7
    <3>3. ~(m < p)
      BY <2>8, <3>1
    <3> QED
      BY <1>3, <2>3, <3>1, <3>2, <3>3
  <2>10. d \in Paired
    BY <1>1, <2>4, <2>6, <2>7, <2>9 DEF Paired
  <2>11. ~KeptApart(d)
    BY <1>1, <2>3, <2>7, <2>8, <2>9 DEF KeptApart
  <2> QED
    BY <2>4, <2>5, <2>7, <2>9, <2>10, <2>11
<1>10. ASSUME d \in Paired, ~KeptApart(d) PROVE ActivityDelta(i) # None
  <2>1. PreviousRuns(d) # {} /\ ScoreDelta(Max(PreviousRuns(d)), i) # None
    BY <1>1, <1>10 DEF Paired
  <2>2. PICK p \in PreviousRuns(d) : p = Max(PreviousRuns(d)) /\ \A k \in PreviousRuns(d) : k <= p
    <3>1. PreviousRuns(d) \subseteq 1..Len(runs)
      BY <1>3, <1>8
    <3> QED
      BY <1>3, <2>1, <3>1, Greatest
  <2>3. p \in DOMAIN runs /\ p < i /\ runs[p].device = d
    BY <1>8
  <2>4. /\ p \in RecentRuns
        /\ \A k \in DOMAIN runs : p < k /\ k < i => runs[k].device # d
    BY <1>1, <1>10, <2>2 DEF KeptApart
  <2>5. p \in Predecessors(i)
    BY <1>7, <2>3, <2>4
  <2>6. PICK m \in Predecessors(i) : m = Max(Predecessors(i)) /\ \A k \in Predecessors(i) : k <= m
    <3>1. Predecessors(i) \subseteq 1..Len(runs)
      BY <1>3, <1>6, <1>7
    <3> QED
      BY <1>3, <2>5, <3>1, Greatest
  <2>7. m = p
    <3>1. m \in DOMAIN runs /\ m < i /\ runs[m].device = d
      BY <1>6, <1>7
    <3>2. p <= m
      BY <2>5, <2>6
    <3>3. ~(p < m)
      BY <2>4, <3>1
    <3> QED
      BY <1>3, <2>3, <3>1, <3>2, <3>3
  <2> QED
    BY <2>1, <2>2, <2>5, <2>6, <2>7 DEF ActivityDelta
<1> QED
  BY <1>1, <1>9, <1>10

\* The dashboard, the compliance page, the findings page and the activity page are computed
\* apart from one another and agree in every state.
THEOREM PagesAlwaysAgree == SpecReports => []PagesAgree
<1>1. ReportsSafe => PagesAgree
  BY ControlsAgree, ActivityAgrees DEF PagesAgree
<1> QED
  BY <1>1, ReportsAreSafe, PTL

-----------------------------------------------------------------------------
(* Scores and findings *)

\* Where no finding earns more, the score is no higher.
LEMMA ScoreFalls ==
  ASSUME NEW a \in Results, NEW b \in Results,
         Counted(a.seen, Keys) = Counted(b.seen, Keys),
         \A o \in Counted(a.seen, Keys) :
           HalfCredits[StatusOf(b.seen, o)] <= HalfCredits[StatusOf(a.seen, o)]
  PROVE  /\ ScoreFindings(a.seen, Keys) \in Nat /\ ScoreFindings(b.seen, Keys) \in Nat
         /\ ScoreFindings(b.seen, Keys) <= ScoreFindings(a.seen, Keys)
<1>1. Weights(a.seen) = Weights(b.seen) /\ Applicable(a.seen, Keys) = Applicable(b.seen, Keys)
  BY DEF Weights, Applicable
<1>2. ASSUME NEW o \in Counted(a.seen, Keys)
      PROVE  Credits(b.seen)[o] \in Nat /\ Credits(a.seen)[o] \in Nat
             /\ Credits(b.seen)[o] <= Credits(a.seen)[o]
  <2>1. Credits(b.seen)[o] \in Nat /\ Credits(a.seen)[o] \in Nat
    BY Weighing
  <2>2. o[1] \in Keys /\ StatusOf(a.seen, o) \in Statuses \ {"na"}
        /\ StatusOf(b.seen, o) \in Statuses \ {"na"}
    BY Observing DEF Counted
  <2>3. PICK w \in Nat : w = Weight[Severity[o[1]]]
    BY Weighing DEF Weights
  <2>4. \A s \in Statuses \ {"na"} : HalfCredits[s] \in {0, 1, 2}
    BY DEF HalfCredits, Statuses
  <2>5. PICK x \in {0, 1, 2} : x = HalfCredits[StatusOf(a.seen, o)]
    BY <2>2, <2>4
  <2>6. PICK y \in {0, 1, 2} : y = HalfCredits[StatusOf(b.seen, o)]
    BY <2>2, <2>4
  <2>7. Credits(b.seen)[o] = w * y /\ Credits(a.seen)[o] = w * x
    BY <2>3, <2>5, <2>6 DEF Credits
  <2>8. y <= x
    BY <2>5, <2>6
  <2>9. w * y <= w * x
    BY <2>8
  <2> QED
    BY <2>1, <2>7, <2>9
<1>3. /\ Earned(b.seen, Keys) \in Nat /\ Earned(a.seen, Keys) \in Nat
      /\ Earned(b.seen, Keys) <= Earned(a.seen, Keys)
  <2> DEFINE f == Credits(b.seen)
             g == Credits(a.seen)
  <2>1. DOMAIN f = Counted(a.seen, Keys) /\ DOMAIN g = Counted(a.seen, Keys)
    BY DEF Credits
  <2>2. IsFiniteSet(DOMAIN f)
    BY <2>1, Weighing
  <2>3. \A x \in DOMAIN f : f[x] \in Nat /\ g[x] \in Nat /\ f[x] <= g[x]
    BY <1>2, <2>1
  <2> HIDE DEF f, g
  <2>4. SumFunction(f) \in Nat /\ SumFunction(g) \in Nat /\ SumFunction(f) <= SumFunction(g)
    BY <2>1, <2>2, <2>3, SumsGrow
  <2> QED
    BY <2>4, Weighing DEF f, g
<1>4. Applicable(a.seen, Keys) \in Nat
  <2> DEFINE f == Weights(a.seen)
  <2>1. DOMAIN f = Counted(a.seen, Keys)
    BY DEF Weights
  <2>2. \A x \in DOMAIN f : f[x] \in Nat /\ f[x] <= f[x]
    BY <2>1, Weighing
  <2>3. IsFiniteSet(DOMAIN f)
    BY <2>1, Weighing
  <2> HIDE DEF f
  <2>4. SumFunction(f) \in Nat
    BY <2>2, <2>3, SumsGrow
  <2> QED
    BY <2>4, Weighing DEF f
<1>5. ScoreFindings(a.seen, Keys) \in Nat /\ ScoreFindings(b.seen, Keys) \in Nat
  BY ScoresAreNumbers
<1>6. CASE Applicable(a.seen, Keys) = 0
  BY <1>1, <1>6 DEF ScoreFindings
<1>7. CASE Applicable(a.seen, Keys) # 0
  <2>1. PICK x \in Nat, y \in Nat : x = 500 * Earned(a.seen, Keys) /\ y = 500 * Earned(b.seen, Keys)
    BY <1>3
  <2>2. y <= x
    BY <1>3, <2>1
  <2>3. PICK n \in Nat \ {0} : n = Applicable(a.seen, Keys)
    BY <1>4, <1>7
  <2>4. Rounded(y, n) <= Rounded(x, n)
    BY <2>2, RoundedGrows
  <2>5. ScoreFindings(a.seen, Keys) = Rounded(x, n)
    BY <1>7, <2>1, <2>3 DEF ScoreFindings
  <2>6. ScoreFindings(b.seen, Keys) = Rounded(y, n)
    BY <1>1, <1>7, <2>1, <2>3 DEF ScoreFindings
  <2> QED
    BY <1>5, <2>4, <2>5, <2>6
<1> QED
  BY <1>5, <1>6, <1>7

\* The findings of two runs that have a score difference: the same checks, one finding each, and
\* the same status or a change between passing and failing.
SameChecks(a, b) ==
  \A k \in Keys :
    /\ a[k] = <<>> <=> b[k] = <<>>
    /\ a[k] # <<>> =>
         /\ Len(a[k]) = 1 /\ DOMAIN a[k] = {1} /\ a[k][1] \in Statuses
         /\ Len(b[k]) = 1 /\ DOMAIN b[k] = {1} /\ b[k][1] \in Statuses
         /\ (a[k][1] = b[k][1] \/ {a[k][1], b[k][1]} = {"pass", "fail"})

LEMMA RunsAreComparable ==
  ASSUME ReportsSafe, NEW i \in DOMAIN runs, NEW j \in DOMAIN runs, ScoreDelta(i, j) # None
  PROVE  /\ SameChecks(runs[i].result.seen, runs[j].result.seen)
         /\ runs[i].score = ScoreFindings(runs[i].result.seen, Keys)
         /\ runs[j].score = ScoreFindings(runs[j].result.seen, Keys)
<1> DEFINE a == runs[i].result.seen
           b == runs[j].result.seen
<1>1. a \in [Keys -> Seq(Statuses)] /\ b \in [Keys -> Seq(Statuses)]
  BY RunFacts
<1>2. \A k \in Keys : a[k] = <<>> <=> b[k] = <<>>
  BY DeltaMeans DEF Evaluated
<1>3. ASSUME NEW k \in Keys, a[k] # <<>>
      PROVE  /\ Len(a[k]) = 1 /\ Len(b[k]) = 1
             /\ (a[k][1] = b[k][1] \/ {a[k][1], b[k][1]} = {"pass", "fail"})
  BY <1>3, DeltaMeans, ZenonT(60) DEF Evaluated, Same
<1>5. ASSUME NEW k \in Keys, a[k] # <<>>
      PROVE  DOMAIN a[k] = {1} /\ a[k][1] \in Statuses /\ DOMAIN b[k] = {1} /\ b[k][1] \in Statuses
  <2>1. a[k] \in Seq(Statuses) /\ b[k] \in Seq(Statuses)
    BY <1>1
  <2> QED
    BY <1>3, <1>5, <2>1, SingleFinding
<1>6. runs[i].manifest # None /\ runs[j].manifest # None
  BY DeltaMeans DEF Incompatible, Problem
<1>7. runs[i].score = ScoreFindings(a, Keys) /\ runs[j].score = ScoreFindings(b, Keys)
  BY <1>6, RunFacts DEF RunIsSound, ScoreIsRecorded
<1> QED
  BY <1>2, <1>3, <1>5, <1>7 DEF SameChecks

\* Neither run's open findings stay unexplained.
LEMMA EveryFindingIsExplained ==
  ASSUME ReportsSafe, NEW i \in DOMAIN runs, NEW j \in DOMAIN runs, ScoreDelta(i, j) # None
  PROVE  Count(Compare(i, j), "indeterminate") \cup Count(Compare(i, j), "first_observed") = {}
<1> DEFINE a == runs[i].result.seen
           b == runs[j].result.seen
<1>0. \A k \in Keys : a[k] # <<>> =>
        /\ Len(a[k]) = 1 /\ DOMAIN a[k] = {1} /\ Len(b[k]) = 1 /\ DOMAIN b[k] = {1}
        /\ (a[k][1] = b[k][1] \/ {a[k][1], b[k][1]} = {"pass", "fail"})
  BY RunsAreComparable DEF SameChecks
<1>1. ASSUME NEW k \in DOMAIN Compare(i, j)
      PROVE  Category(runs[i], runs[j], k) \notin {"indeterminate", "first_observed"}
  <2>1. k \in Keys /\ (StatusesOf(a, k) \cup StatusesOf(b, k)) \cap {"fail", "manual_review"} # {}
    BY <1>1 DEF Compare
  <2>2. a[k] # <<>>
    <3> SUFFICES ASSUME a[k] = <<>> PROVE FALSE
      OBVIOUS
    <3>1. b[k] = <<>>
      BY <2>1, RunsAreComparable DEF SameChecks
    <3>2. DOMAIN a[k] = {} /\ DOMAIN b[k] = {}
      BY <3>1
    <3>3. StatusesOf(a, k) = {} /\ StatusesOf(b, k) = {}
      BY <3>2 DEF StatusesOf
    <3> QED
      BY <2>1, <3>3
  <2>3. /\ Len(a[k]) = 1 /\ DOMAIN a[k] = {1} /\ Len(b[k]) = 1 /\ DOMAIN b[k] = {1}
        /\ (a[k][1] = b[k][1] \/ {a[k][1], b[k][1]} = {"pass", "fail"})
    BY <1>0, <2>1, <2>2
  <2>4. a[k][1] \in {"fail", "manual_review"} \/ b[k][1] \in {"fail", "manual_review"}
    BY <2>1, <2>3 DEF StatusesOf
  <2>5. ~Incompatible(runs[i], runs[j]) /\ ~Problem(runs[j])
    BY DeltaMeans DEF Incompatible
  <2>6. \/ a[k][1] = "manual_review" /\ b[k][1] = "manual_review"
        \/ a[k][1] \in {"pass", "fail"} /\ b[k][1] \in {"pass", "fail"}
             /\ (a[k][1] = "fail" \/ b[k][1] = "fail")
    BY <2>3, <2>4
  <2> QED
    BY <2>3, <2>5, <2>6 DEF Category
<1>2. \A k \in DOMAIN Compare(i, j) : Compare(i, j)[k] = Category(runs[i], runs[j], k)
  BY DEF Compare
<1> QED
  BY <1>1, <1>2 DEF Count

\* A finding that failed and passes is among the resolved ones, one that passed and fails among
\* the new ones.
LEMMA ChangesAreCounted ==
  ASSUME ReportsSafe, NEW i \in DOMAIN runs, NEW j \in DOMAIN runs, ScoreDelta(i, j) # None,
         NEW k \in Keys, runs[i].result.seen[k] # <<>>
  PROVE  LET was == runs[i].result.seen[k][1]
             is == runs[j].result.seen[k][1]
         IN  /\ was = "fail" /\ is = "pass" => k \in Count(Compare(i, j), "resolved")
             /\ was = "pass" /\ is = "fail" => k \in Count(Compare(i, j), "new")
<1> DEFINE a == runs[i].result.seen
           b == runs[j].result.seen
<1>1. Len(a[k]) = 1 /\ DOMAIN a[k] = {1} /\ Len(b[k]) = 1 /\ DOMAIN b[k] = {1}
  BY RunsAreComparable DEF SameChecks
<1>2. ~Incompatible(runs[i], runs[j]) /\ ~Problem(runs[j])
  BY DeltaMeans DEF Incompatible
<1>3. ASSUME {a[k][1], b[k][1]} = {"pass", "fail"}
      PROVE  k \in DOMAIN Compare(i, j) /\ Compare(i, j)[k] = Category(runs[i], runs[j], k)
  <2>1. "fail" \in StatusesOf(a, k) \cup StatusesOf(b, k)
    BY <1>1, <1>3 DEF StatusesOf
  <2> QED
    BY <2>1 DEF Compare
<1>4. CASE a[k][1] = "fail" /\ b[k][1] = "pass"
  <2>1. Category(runs[i], runs[j], k) = "resolved"
    BY <1>1, <1>2, <1>4 DEF Category
  <2> QED
    BY <1>3, <1>4, <2>1 DEF Count
<1>5. CASE a[k][1] = "pass" /\ b[k][1] = "fail"
  <2>1. Category(runs[i], runs[j], k) = "new"
    BY <1>1, <1>2, <1>5 DEF Category
  <2> QED
    BY <1>3, <1>5, <2>1 DEF Count
<1> QED
  BY <1>4, <1>5

\* A gain has a resolved finding and a loss a new one.
LEMMA DifferencesAreBacked ==
  ASSUME ReportsSafe, NEW i \in DOMAIN runs, NEW j \in DOMAIN runs, ScoreDelta(i, j) # None
  PROVE  /\ runs[i].score \in Nat /\ runs[j].score \in Nat
         /\ runs[j].score > runs[i].score => Count(Compare(i, j), "resolved") # {}
         /\ runs[j].score < runs[i].score => Count(Compare(i, j), "new") # {}
<1> DEFINE a == runs[i].result
           b == runs[j].result
<1>1. a \in Results /\ b \in Results
  BY RunFacts
<1>2. runs[i].score = ScoreFindings(a.seen, Keys) /\ runs[j].score = ScoreFindings(b.seen, Keys)
  BY RunsAreComparable
<1>3. \A k \in Keys : DOMAIN a.seen[k] = DOMAIN b.seen[k] /\ DOMAIN a.seen[k] \in {{}, {1}}
  <2>1. ASSUME NEW k \in Keys PROVE DOMAIN a.seen[k] = DOMAIN b.seen[k] /\ DOMAIN a.seen[k] \in {{}, {1}}
    <3>1. CASE a.seen[k] = <<>>
      BY <3>1, RunsAreComparable DEF SameChecks
    <3>2. CASE a.seen[k] # <<>>
      BY <3>2, RunsAreComparable DEF SameChecks
    <3> QED
      BY <3>1, <3>2
  <2> QED
    BY <2>1
<1>4. Observed(a.seen, Keys) = Observed(b.seen, Keys)
  BY <1>3 DEF Observed
<1>5. ASSUME NEW o \in Observed(a.seen, Keys)
      PROVE  /\ o[1] \in Keys /\ a.seen[o[1]] # <<>>
             /\ StatusOf(a.seen, o) = a.seen[o[1]][1] /\ StatusOf(b.seen, o) = b.seen[o[1]][1]
             /\ \/ StatusOf(a.seen, o) = StatusOf(b.seen, o)
                \/ {StatusOf(a.seen, o), StatusOf(b.seen, o)} = {"pass", "fail"}
  <2>1. PICK k \in Keys : \E n \in DOMAIN a.seen[k] : o = <<k, n>>
    BY <1>5 DEF Observed
  <2>2. PICK n \in DOMAIN a.seen[k] : o = <<k, n>>
    BY <2>1
  <2>3. n = 1
    BY <1>3, <2>2
  <2>4. a.seen[k] # <<>>
    BY <2>2
  <2>5. StatusOf(a.seen, o) = a.seen[k][1] /\ StatusOf(b.seen, o) = b.seen[k][1] /\ o[1] = k
    BY <2>2, <2>3 DEF StatusOf
  <2>6. \/ a.seen[k][1] = b.seen[k][1]
        \/ {a.seen[k][1], b.seen[k][1]} = {"pass", "fail"}
    BY <2>4, RunsAreComparable DEF SameChecks
  <2> QED
    BY <2>4, <2>5, <2>6
<1>6. Counted(a.seen, Keys) = Counted(b.seen, Keys)
  BY <1>4, <1>5 DEF Counted
<1>7. runs[i].score \in Nat /\ runs[j].score \in Nat
  BY <1>1, <1>2, ScoresAreNumbers
<1>8. ASSUME Count(Compare(i, j), "resolved") = {} PROVE runs[j].score <= runs[i].score
  <2>1. ASSUME NEW o \in Counted(a.seen, Keys)
        PROVE  HalfCredits[StatusOf(b.seen, o)] <= HalfCredits[StatusOf(a.seen, o)]
    <3>1. o \in Observed(a.seen, Keys)
      BY DEF Counted
    <3>2. ~(StatusOf(a.seen, o) = "fail" /\ StatusOf(b.seen, o) = "pass")
      BY <1>5, <1>8, <3>1, ChangesAreCounted
    <3>3. CASE StatusOf(a.seen, o) = StatusOf(b.seen, o)
      <4>1. StatusOf(a.seen, o) \in Statuses \ {"na"}
        BY <1>1, Observing DEF Counted
      <4>2. \A s \in Statuses \ {"na"} : HalfCredits[s] \in Nat
        BY DEF HalfCredits, Statuses
      <4> QED
        BY <3>3, <4>1, <4>2
    <3>4. CASE StatusOf(a.seen, o) = "pass" /\ StatusOf(b.seen, o) = "fail"
      BY <3>4 DEF HalfCredits
    <3> QED
      BY <1>5, <3>1, <3>2, <3>3, <3>4
  <2> QED
    BY <1>1, <1>2, <1>6, <2>1, ScoreFalls
<1>9. ASSUME Count(Compare(i, j), "new") = {} PROVE runs[i].score <= runs[j].score
  <2>1. ASSUME NEW o \in Counted(b.seen, Keys)
        PROVE  HalfCredits[StatusOf(a.seen, o)] <= HalfCredits[StatusOf(b.seen, o)]
    <3>1. o \in Observed(a.seen, Keys)
      BY <1>6 DEF Counted
    <3>2. ~(StatusOf(a.seen, o) = "pass" /\ StatusOf(b.seen, o) = "fail")
      BY <1>5, <1>9, <3>1, ChangesAreCounted
    <3>3. CASE StatusOf(a.seen, o) = StatusOf(b.seen, o)
      <4>1. StatusOf(b.seen, o) \in Statuses \ {"na"}
        BY <1>1, Observing DEF Counted
      <4>2. \A s \in Statuses \ {"na"} : HalfCredits[s] \in Nat
        BY DEF HalfCredits, Statuses
      <4> QED
        BY <3>3, <4>1, <4>2
    <3>4. CASE StatusOf(a.seen, o) = "fail" /\ StatusOf(b.seen, o) = "pass"
      BY <3>4 DEF HalfCredits
    <3> QED
      BY <1>5, <3>1, <3>2, <3>3, <3>4
  <2> QED
    BY <1>1, <1>2, <1>6, <2>1, ScoreFalls
<1> QED
  BY <1>7, <1>8, <1>9

\* A mean of scores none of which is higher is no higher.
LEMMA MeansGrow ==
  ASSUME NEW f, NEW g, IsFiniteSet(DOMAIN f), DOMAIN f # {}, DOMAIN g = DOMAIN f,
         \A x \in DOMAIN f : f[x] \in Nat /\ g[x] \in Nat /\ f[x] <= g[x]
  PROVE  Mean(f) \in Nat /\ Mean(g) \in Nat /\ Mean(f) <= Mean(g)
<1>1. PICK n \in Nat \ {0} : n = Cardinality(DOMAIN f)
  BY FS_CardinalityType, FS_EmptySet
<1>2. SumFunction(f) \in Nat /\ SumFunction(g) \in Nat /\ SumFunction(f) <= SumFunction(g)
  BY SumsGrow
<1>3. /\ Rounded(SumFunction(f), n) \in Nat
      /\ Rounded(SumFunction(f), n) <= Rounded(SumFunction(g), n)
  BY <1>2, RoundedGrows
<1>4. Rounded(SumFunction(g), n) \in Nat
  <2>1. SumFunction(g) <= SumFunction(g)
    BY <1>2
  <2> QED
    BY <1>2, <2>1, RoundedGrows
<1> QED
  BY <1>1, <1>3, <1>4 DEF Mean

\* A device of the dashboard's average has a run before its latest one, and a difference.
LEMMA PairsHaveDifferences ==
  ASSUME ReportsSafe, NEW d \in Paired
  PROVE  LET p == Max(PreviousRuns(d))
             l == LatestRun(d)
         IN  p \in DOMAIN runs /\ l \in DOMAIN runs /\ ScoreDelta(p, l) # None
<1>1. DOMAIN runs = 1..Len(runs) /\ Len(runs) \in Nat
  BY DEF ReportsSafe
<1>2. PreviousRuns(d) \subseteq 1..Len(runs) /\ PreviousRuns(d) # {}
  BY <1>1 DEF PreviousRuns, CompletedOf, Paired
<1>3. Max(PreviousRuns(d)) \in DOMAIN runs
  BY <1>1, <1>2, Greatest
<1> QED
  BY <1>3, LatestIsLast DEF Paired

\* The dashboard's average rises with a device that resolved a finding and falls with one that
\* has a new one.
LEMMA AveragesAreBacked ==
  ASSUME ReportsSafe, PreviousAverage # None
  PROVE  \/ AverageScore = PreviousAverage
         \/ \E d \in Paired : /\ runs[LatestRun(d)].score # runs[Max(PreviousRuns(d))].score
                              /\ Backed(AverageScore - PreviousAverage, LastTwo(d))
<1> DEFINE f == [d \in Paired |-> runs[Max(PreviousRuns(d))].score]
           g == [d \in Audited |-> runs[LatestRun(d)].score]
<1>1. Paired # {} /\ Paired = Audited /\ PreviousAverage = Mean(f) /\ AverageScore = Mean(g)
  BY DEF PreviousAverage, AverageScore
<1>2. IsFiniteSet(Paired)
  BY <1>1, FS_Subset, ReportsAssumption DEF Audited
<1>3. ASSUME NEW d \in Paired
      PROVE  /\ f[d] = runs[Max(PreviousRuns(d))].score /\ g[d] = runs[LatestRun(d)].score
             /\ f[d] \in Nat /\ g[d] \in Nat
             /\ g[d] > f[d] => Count(LastTwo(d), "resolved") # {}
             /\ g[d] < f[d] => Count(LastTwo(d), "new") # {}
  <2>1. f[d] = runs[Max(PreviousRuns(d))].score /\ g[d] = runs[LatestRun(d)].score
    BY <1>1
  <2> HIDE DEF f, g
  <2> QED
    BY <2>1, PairsHaveDifferences, DifferencesAreBacked DEF LastTwo
<1>4. DOMAIN f = Paired /\ DOMAIN g = Paired
  BY <1>1
<1> HIDE DEF f, g
<1>5. Mean(f) \in Nat /\ Mean(g) \in Nat
  <2>1. \A d \in Paired : f[d] <= f[d] /\ g[d] <= g[d]
    BY <1>3
  <2> QED
    BY <1>1, <1>2, <1>3, <1>4, <2>1, MeansGrow
<1>6. ASSUME Mean(g) > Mean(f) PROVE \E d \in Paired : g[d] > f[d]
  <2> SUFFICES ASSUME \A d \in Paired : ~(g[d] > f[d]) PROVE FALSE
    OBVIOUS
  <2>1. \A d \in DOMAIN g : g[d] \in Nat /\ f[d] \in Nat /\ g[d] <= f[d]
    BY <1>3, <1>4
  <2>2. Mean(g) <= Mean(f)
    BY <1>1, <1>2, <1>4, <2>1, MeansGrow
  <2> QED
    BY <1>5, <1>6, <2>2
<1>7. ASSUME Mean(g) < Mean(f) PROVE \E d \in Paired : g[d] < f[d]
  <2> SUFFICES ASSUME \A d \in Paired : ~(g[d] < f[d]) PROVE FALSE
    OBVIOUS
  <2>1. \A d \in DOMAIN f : f[d] \in Nat /\ g[d] \in Nat /\ f[d] <= g[d]
    BY <1>3, <1>4
  <2>2. Mean(f) <= Mean(g)
    BY <1>1, <1>2, <1>4, <2>1, MeansGrow
  <2> QED
    BY <1>5, <1>7, <2>2
<1>8. CASE Mean(g) > Mean(f)
  <2>1. PICK d \in Paired : g[d] > f[d]
    BY <1>6, <1>8
  <2>2. Count(LastTwo(d), "resolved") # {} /\ ~(Mean(g) - Mean(f) < 0)
    BY <1>3, <1>5, <1>8, <2>1
  <2>3. Backed(AverageScore - PreviousAverage, LastTwo(d))
    BY <1>1, <2>2 DEF Backed
  <2>4. runs[LatestRun(d)].score # runs[Max(PreviousRuns(d))].score
    BY <1>3, <2>1
  <2> QED
    BY <2>3, <2>4
<1>9. CASE Mean(g) < Mean(f)
  <2>1. PICK d \in Paired : g[d] < f[d]
    BY <1>7, <1>9
  <2>2. Count(LastTwo(d), "new") # {} /\ ~(Mean(g) - Mean(f) > 0)
    BY <1>3, <1>5, <1>9, <2>1
  <2>3. Backed(AverageScore - PreviousAverage, LastTwo(d))
    BY <1>1, <2>2 DEF Backed
  <2>4. runs[LatestRun(d)].score # runs[Max(PreviousRuns(d))].score
    BY <1>3, <2>1
  <2> QED
    BY <2>3, <2>4
<1> QED
  BY <1>1, <1>5, <1>8, <1>9

\* A score moves with findings that the comparison shows, in every state: no open finding of
\* comparable runs is left unexplained, a gain has a resolved finding and a loss a new one, and
\* the dashboard's average moves with a device that has one.
THEOREM ScoresMoveWithFindings == SpecReports => []ScoreMovesWithFindings
<1>1. ASSUME ReportsSafe PROVE ScoreMovesWithFindings
  <2>1. ASSUME NEW i \in DOMAIN runs, NEW j \in DOMAIN runs, ScoreDelta(i, j) # None
        PROVE  /\ Count(Compare(i, j), "indeterminate")
                    \cup Count(Compare(i, j), "first_observed") = {}
               /\ Backed(ScoreDelta(i, j), Compare(i, j))
    <3>1. ScoreDelta(i, j) = runs[j].score - runs[i].score
      BY <2>1, DeltaMeans
    <3>2. PICK x \in Nat, y \in Nat : x = runs[i].score /\ y = runs[j].score
      BY <1>1, <2>1, DifferencesAreBacked
    <3>3. (y - x > 0 => y > x) /\ (y - x < 0 => y < x)
      OBVIOUS
    <3>4. Backed(ScoreDelta(i, j), Compare(i, j))
      BY <1>1, <2>1, <3>1, <3>2, <3>3, DifferencesAreBacked DEF Backed
    <3> QED
      BY <1>1, <2>1, <3>4, EveryFindingIsExplained
  <2> QED
    BY <1>1, <2>1, AveragesAreBacked DEF ScoreMovesWithFindings
<1> QED
  BY <1>1, ReportsAreSafe, PTL

-----------------------------------------------------------------------------
(* The devices of a comparison *)

Request(all) == all \in Seq(DOMAIN fleet)
Distinct(all) == \A i, j \in DOMAIN all : all[i] = all[j] => i = j

\* Every device that is compared has a place, and no two devices have the same.
LEMMA PlacesOfDevices ==
  ASSUME NEW all, Request(all)
  PROVE  /\ Comparable(all) \in SUBSET (1..Len(all))
         /\ IsFiniteSet(Comparable(all)) /\ IsFiniteSet(Compared(all))
         /\ Cardinality(Comparable(all)) \in Nat /\ Cardinality(Compared(all)) \in Nat
         /\ Cardinality(Compared(all)) <= Cardinality(Comparable(all))
         /\ Distinct(all) => Cardinality(Compared(all)) = Cardinality(Comparable(all))
<1> DEFINE place == [i \in Comparable(all) |-> all[i]]
<1>1. Comparable(all) \in SUBSET (1..Len(all)) /\ Len(all) \in Nat
  BY DEF Comparable, Request
<1>2. IsFiniteSet(Comparable(all))
  <2>1. IsFiniteSet(1..Len(all))
    BY <1>1, FS_Interval
  <2> QED
    BY <1>1, <2>1, FS_Subset
<1>3. place \in Surjection(Comparable(all), Compared(all))
  BY DEF Surjection, Compared
<1>4. Distinct(all) => place \in Injection(Comparable(all), Compared(all))
  BY <1>1, <1>3 DEF Injection, IsInjective, Distinct, Comparable, Surjection
<1> HIDE DEF place
<1> QED
  BY <1>1, <1>2, <1>3, <1>4, FS_Surjection, FS_CardinalityType

\* A request that names as many devices as it has places names none twice.
LEMMA NoneTwice ==
  ASSUME NEW all, Request(all), Cardinality(ToSet(all)) = Len(all)
  PROVE  Distinct(all)
<1>1. all \in Surjection(1..Len(all), ToSet(all)) /\ Len(all) \in Nat
  BY DEF Request, ToSet, Surjection
<1>2. IsFiniteSet(1..Len(all)) /\ Cardinality(1..Len(all)) = Len(all)
  <2>1. ASSUME NEW n \in Nat PROVE IsFiniteSet(1..n) /\ Cardinality(1..n) = n
    <3>1. IsFiniteSet(1..n) /\ Cardinality(1..n) = IF 1 > n THEN 0 ELSE n - 1 + 1
      BY FS_Interval
    <3> QED
      BY <3>1
  <2> QED
    BY <1>1, <2>1
<1>3. all \in Injection(1..Len(all), ToSet(all))
  BY <1>1, <1>2, FS_Surjection
<1> QED
  BY <1>3 DEF Injection, IsInjective, Distinct, Request

\* The devices with the same lines, of which one is the device itself.
LEMMA VotesAreNumbers ==
  ASSUME NEW all, Request(all), NEW area, NEW d \in Compared(all)
  PROVE  /\ Alike(all, area, d) \subseteq Compared(all) /\ d \in Alike(all, area, d)
         /\ IsFiniteSet(Alike(all, area, d))
         /\ Votes(all, area, d) \in 1..Cardinality(Compared(all))
<1>1. Alike(all, area, d) \subseteq Compared(all) /\ d \in Alike(all, area, d)
  BY DEF Alike
<1>2. /\ IsFiniteSet(Alike(all, area, d)) /\ Votes(all, area, d) \in Nat
      /\ Votes(all, area, d) <= Cardinality(Compared(all))
      /\ Cardinality(Compared(all)) \in Nat
  BY <1>1, PlacesOfDevices, FS_Subset, FS_CardinalityType DEF Votes
<1>3. Votes(all, area, d) # 0
  BY <1>1, <1>2, FS_EmptySet DEF Votes
<1> QED
  BY <1>1, <1>2, <1>3

LEMMA LeaderLeads ==
  ASSUME NEW all, Request(all), NEW area, Comparable(all) # {}
  PROVE  /\ Leader(all, area) \in Compared(all)
         /\ \A d \in Compared(all) : Votes(all, area, d) <= Votes(all, area, Leader(all, area))
<1> DEFINE tally == [d \in Compared(all) |-> Votes(all, area, d)]
           First(i) == \A j \in Comparable(all) : /\ tally[all[j]] <= tally[all[i]]
                                                  /\ j < i => tally[all[j]] < tally[all[i]]
           most == Max({tally[d] : d \in Compared(all)})
           best == {i \in Comparable(all) : tally[all[i]] = most}
<1>1. /\ \A i \in Comparable(all) : all[i] \in Compared(all)
      /\ \A d \in Compared(all) : \E i \in Comparable(all) : all[i] = d
  BY DEF Compared
<1>2. /\ Cardinality(Compared(all)) \in Nat /\ Comparable(all) \in SUBSET Nat
      /\ \A d \in Compared(all) : tally[d] \in 1..Cardinality(Compared(all))
  BY PlacesOfDevices, VotesAreNumbers
<1>3. most \in {tally[d] : d \in Compared(all)} /\ \A d \in Compared(all) : tally[d] <= most
  <2> HIDE DEF tally
  <2>1. {tally[d] : d \in Compared(all)} \subseteq 1..Cardinality(Compared(all))
    BY <1>2
  <2>2. {tally[d] : d \in Compared(all)} # {}
    BY <1>1
  <2> QED
    BY <1>2, <2>1, <2>2, Greatest
<1> HIDE DEF tally, most
<1>4. PICK i \in best : \A j \in best : i <= j
  <2>1. best \in SUBSET Nat /\ best # {}
    BY <1>1, <1>2, <1>3
  <2> HIDE DEF best
  <2> QED
    BY <2>1, Least
<1>5. i \in Comparable(all) /\ First(i)
  <2> SUFFICES ASSUME NEW j \in Comparable(all)
               PROVE  /\ tally[all[j]] <= tally[all[i]]
                      /\ j < i => tally[all[j]] < tally[all[i]]
    BY <1>4
  <2>1. tally[all[j]] <= most /\ tally[all[j]] \in Int /\ most \in Int /\ tally[all[i]] = most
    BY <1>1, <1>2, <1>3, <1>4
  <2>2. j < i => j \notin best
    BY <1>2, <1>4
  <2> QED
    BY <2>1, <2>2
<1>6. PICK k \in Comparable(all) : Leader(all, area) = all[k] /\ First(k)
  <2>1. Leader(all, area) = all[CHOOSE k \in Comparable(all) : First(k)]
    BY DEF Leader, tally
  <2> HIDE DEF First
  <2> QED
    BY <1>5, <2>1
<1>7. Leader(all, area) \in Compared(all)
  BY <1>1, <1>6
<1>8. \A d \in Compared(all) : tally[d] <= tally[Leader(all, area)]
  BY <1>1, <1>6
<1> QED
  BY <1>7, <1>8 DEF tally

\* Devices with the same lines have the same ones beside them.
LEMMA AlikeIsEquivalence ==
  ASSUME NEW all, NEW area, NEW d \in Compared(all), NEW e \in Compared(all)
  PROVE  /\ LinesOf(d, area) = LinesOf(e, area) => Alike(all, area, d) = Alike(all, area, e)
         /\ LinesOf(d, area) # LinesOf(e, area) => Alike(all, area, d) \cap Alike(all, area, e) = {}
  BY DEF Alike

\* Lines that more than half of the places have are the leader's.
LEMMA MajorityIsMatched ==
  ASSUME NEW all, Request(all), NEW area, NEW d \in Compared(all),
         2 * Votes(all, area, d) > Cardinality(Comparable(all)), Cardinality(Comparable(all)) >= 2
  PROVE  Matching(all, area) = Alike(all, area, d)
<1> DEFINE leader == Leader(all, area)
<1>1. leader \in Compared(all) /\ Votes(all, area, d) <= Votes(all, area, leader)
  BY LeaderLeads DEF Compared
<1>2. /\ Votes(all, area, d) \in Nat /\ Votes(all, area, leader) \in Nat
      /\ Cardinality(Compared(all)) \in Nat /\ Cardinality(Comparable(all)) \in Nat
      /\ Cardinality(Compared(all)) <= Cardinality(Comparable(all))
      /\ IsFiniteSet(Compared(all))
      /\ Alike(all, area, d) \subseteq Compared(all) /\ Alike(all, area, leader) \subseteq Compared(all)
  BY <1>1, PlacesOfDevices, VotesAreNumbers
<1> HIDE DEF leader
<1>3. Cardinality(Alike(all, area, d)) + Cardinality(Alike(all, area, leader)) > Cardinality(Compared(all))
  BY <1>1, <1>2 DEF Votes
<1>4. Alike(all, area, d) \cap Alike(all, area, leader) # {}
  BY <1>2, <1>3, FS_MajoritiesIntersect
<1>5. Alike(all, area, d) = Alike(all, area, leader)
  BY <1>1, <1>4, AlikeIsEquivalence
<1>6. Votes(all, area, leader) # 1
  BY <1>1, <1>2
<1> QED
  BY <1>5, <1>6 DEF Matching, leader

-----------------------------------------------------------------------------
(* What a device differs in *)

\* A device that is selected once has one cell in each row.
LEMMA OneCell ==
  ASSUME NEW all, Distinct(all), NEW d \in Compared(all)
  PROVE  Cells(all, d) = 1
<1>1. PICK k \in Comparable(all) : all[k] = d
  BY DEF Compared
<1>2. {i \in Comparable(all) : all[i] = d} = {k}
  BY <1>1 DEF Distinct, Comparable
<1> QED
  BY <1>2, FS_Singleton DEF Cells

Apart(all, d) == {area \in Shown(all) : d \notin Matching(all, area)}

LEMMA DifferencesCount ==
  ASSUME NEW all, Distinct(all)
  PROVE  /\ Differences(all) = [d \in Compared(all) |-> Cardinality(Apart(all, d))]
         /\ \A d \in Compared(all) : /\ IsFiniteSet(Apart(all, d)) /\ Differences(all)[d] \in Nat
                                     /\ Differences(all)[d] = 0 <=> Apart(all, d) = {}
<1>1. ASSUME NEW d \in Compared(all)
      PROVE  /\ IsFiniteSet(Apart(all, d)) /\ Cardinality(Apart(all, d)) \in Nat
             /\ Cardinality(Apart(all, d)) = 0 <=> Apart(all, d) = {}
  <2>1. Apart(all, d) \in SUBSET Areas
    BY DEF Apart, Shown
  <2> QED
    BY <2>1, CompareAssumption, FS_Subset, FS_CardinalityType, FS_EmptySet DEF Areas
<1>2. ASSUME NEW d \in Compared(all)
      PROVE  Differences(all)[d] = Cardinality(Apart(all, d))
  <2>1. Differences(all)[d] = Cells(all, d) * Cardinality(Apart(all, d))
    BY DEF Differences, Apart
  <2> QED
    BY <2>1, <1>1, OneCell
<1>3. Differences(all) = [d \in Compared(all) |-> Differences(all)[d]]
  BY DEF Differences
<1> QED
  BY <1>1, <1>2, <1>3

\* Two devices differ in the same areas.
LEMMA NobodyIsWorse ==
  ASSUME NEW all, Request(all), Distinct(all), Cardinality(Comparable(all)) = 2
  PROVE  Outlier(Differences(all)) = None
<1>1. PICK a, b : Compared(all) = {a, b}
  <2>1. IsFiniteSet(Compared(all)) /\ Cardinality(Compared(all)) = 2
    BY PlacesOfDevices
  <2>2. PICK a \in Compared(all) : TRUE
    BY <2>1, FS_EmptySet
  <2>3. IsFiniteSet(Compared(all) \ {a}) /\ Cardinality(Compared(all) \ {a}) = 1
    BY <2>1, <2>2, FS_RemoveElement
  <2>4. PICK b : Compared(all) \ {a} = {b}
    BY <2>3, FS_Singleton
  <2> QED
    BY <2>2, <2>4
<1>2. ASSUME NEW area
      PROVE  a \in Matching(all, area) <=> b \in Matching(all, area)
  <2> DEFINE leader == Leader(all, area)
  <2>1. leader \in {a, b}
    <3>1. Comparable(all) # {}
      BY FS_EmptySet
    <3> QED
      BY <3>1, <1>1, LeaderLeads
  <2> HIDE DEF leader
  <2>2. CASE LinesOf(a, area) = LinesOf(b, area)
    BY <1>1, <2>1, <2>2 DEF Matching, Alike, leader
  <2>3. CASE LinesOf(a, area) # LinesOf(b, area)
    <3>1. Alike(all, area, leader) = {leader}
      BY <1>1, <2>1, <2>3 DEF Alike
    <3>2. Votes(all, area, leader) = 1
      BY <3>1, FS_Singleton DEF Votes
    <3> QED
      BY <3>2 DEF Matching, leader
  <2> QED
    BY <2>2, <2>3
<1>3. Apart(all, a) = Apart(all, b)
  BY <1>2 DEF Apart
<1>4. Differences(all)[a] = Differences(all)[b] /\ Differences(all)[a] \in Nat
  BY <1>1, <1>3, DifferencesCount
<1>5. DOMAIN Differences(all) = {a, b}
  BY <1>1 DEF Differences
<1>6. a # b
  <2> SUFFICES ASSUME a = b PROVE FALSE
    OBVIOUS
  <2>1. Cardinality(Compared(all)) = 1
    BY <1>1, FS_Singleton
  <2> QED
    BY <2>1, PlacesOfDevices
<1>7. Worst(Differences(all)) = {}
  <2> DEFINE counts == Differences(all)
  <2>1. counts[a] = counts[b] /\ counts[a] \in Nat /\ DOMAIN counts = {a, b} /\ a # b
    BY <1>4, <1>5, <1>6
  <2> HIDE DEF counts
  <2>2. Worst(counts) = {}
    BY <2>1 DEF Worst
  <2> QED
    BY <2>2 DEF counts
<1> QED
  BY <1>7 DEF Outlier

-----------------------------------------------------------------------------
(* The order of selection *)

\* Two devices change places: the devices are the same.
LEMMA SameDevices ==
  ASSUME NEW all, Request(all), Distinct(all), NEW other \in Reordered(all)
  PROVE  /\ Request(other) /\ Distinct(other)
         /\ ToSet(other) = ToSet(all) /\ Compared(other) = Compared(all)
<1>1. PICK i, j \in DOMAIN all : other = [all EXCEPT ![i] = all[j], ![j] = all[i]]
  BY DEF Reordered
<1> DEFINE Q(k) == IF k = i THEN j ELSE IF k = j THEN i ELSE k
<1>2. DOMAIN all = 1..Len(all) /\ Len(all) \in Nat /\ \A k \in DOMAIN all : all[k] \in DOMAIN fleet
  BY DEF Request
<1>3. DOMAIN other = DOMAIN all /\ \A k \in DOMAIN all : other[k] = all[Q(k)]
  BY <1>1
<1>4. \A k \in DOMAIN all : Q(k) \in DOMAIN all /\ Q(Q(k)) = k
  BY <1>1
<1> HIDE DEF Q
<1>5. Request(other)
  <2>1. other \in [1..Len(all) -> DOMAIN fleet]
    BY <1>1, <1>2
  <2> QED
    BY <1>2, <2>1 DEF Request
<1>6. Distinct(other)
  BY <1>3, <1>4 DEF Distinct
<1>7. ToSet(other) = ToSet(all)
  BY <1>3, <1>4 DEF ToSet
<1>8. ASSUME NEW some PROVE Compared(some) = {d \in ToSet(some) : fleet[d] \notin {None, Blank}}
  BY DEF Compared, Comparable, ToSet
<1> QED
  BY <1>5, <1>6, <1>7, <1>8

LEMMA SameMatching ==
  ASSUME NEW all, Request(all), NEW other, Request(other), Compared(other) = Compared(all),
         Compared(all) # {}, NEW area, ~Tied(all, area)
  PROVE  Matching(other, area) = Matching(all, area)
<1> DEFINE one == Leader(all, area)
           two == Leader(other, area)
<1>1. \A d : Alike(other, area, d) = Alike(all, area, d) /\ Votes(other, area, d) = Votes(all, area, d)
  BY DEF Alike, Votes
<1>2. /\ one \in Compared(all) /\ \A d \in Compared(all) : Votes(all, area, d) <= Votes(all, area, one)
      /\ two \in Compared(all) /\ \A d \in Compared(all) : Votes(all, area, d) <= Votes(all, area, two)
  <2>1. Comparable(all) # {} /\ Comparable(other) # {}
    BY DEF Compared
  <2> QED
    BY <2>1, <1>1, LeaderLeads
<1>3. \A d \in Compared(all) : Votes(all, area, d) \in Nat \ {0}
  BY VotesAreNumbers, PlacesOfDevices
<1> HIDE DEF one, two
<1>4. Votes(all, area, one) = Votes(all, area, two)
  BY <1>2, <1>3
<1>5. CASE Votes(all, area, one) = 1
  BY <1>1, <1>4, <1>5 DEF Matching, one, two
<1>6. CASE Votes(all, area, one) # 1
  <2>1. LinesOf(one, area) = LinesOf(two, area)
    BY <1>2, <1>3, <1>4, <1>6 DEF Tied
  <2>2. Alike(all, area, one) = Alike(all, area, two)
    BY <1>2, <2>1, AlikeIsEquivalence
  <2> QED
    BY <1>1, <1>4, <1>6, <2>2 DEF Matching, one, two
<1> QED
  BY <1>5, <1>6

LEMMA SameDifferences ==
  ASSUME NEW all, Request(all), Distinct(all), NEW other, Request(other), Distinct(other),
         Compared(other) = Compared(all), \A area \in Areas : ~Tied(all, area)
  PROVE  /\ Shown(other) = Shown(all)
         /\ \A area \in Shown(all) : Matching(other, area) = Matching(all, area)
         /\ Differences(other) = Differences(all)
<1>1. Shown(other) = Shown(all)
  BY DEF Shown
<1>2. \A area \in Shown(all) : Matching(other, area) = Matching(all, area)
  BY SameMatching DEF Shown
<1>3. \A d : Apart(other, d) = Apart(all, d)
  BY <1>1, <1>2 DEF Apart
<1> QED
  BY <1>1, <1>2, <1>3, DifferencesCount

\* The device to hold the others against differs nowhere.
LEMMA BaselineAgrees ==
  ASSUME NEW all, Request(all), Distinct(all)
  PROVE  LET base == BaselineDevice(all, Differences(all))
             agreeing == {d \in Compared(all) : Apart(all, d) = {}}
         IN  IF agreeing = {} THEN base = None ELSE base \in agreeing
<1> DEFINE counts == Differences(all)
           places == Agreeing(all, counts)
<1>1. places \in SUBSET Nat
  BY PlacesOfDevices DEF Agreeing
<1>2. \A i \in places : all[i] \in Compared(all) /\ Apart(all, all[i]) = {}
  BY DifferencesCount DEF Agreeing, Compared
<1>3. \A d \in Compared(all) : Apart(all, d) = {} => \E i \in places : all[i] = d
  BY DifferencesCount DEF Agreeing, Compared
<1> HIDE DEF places
<1>4. places # {} => Min(places) \in places
  BY <1>1, Least DEF Min
<1>5. BaselineDevice(all, counts) = IF places = {} THEN None ELSE all[Min(places)]
  BY DEF BaselineDevice, places
<1> QED
  BY <1>2, <1>3, <1>4, <1>5

\* Two devices that differ nowhere have the same lines everywhere.
LEMMA AgreeingAreAlike ==
  ASSUME NEW all, NEW d \in Compared(all), NEW e \in Compared(all),
         Apart(all, d) = {}, Apart(all, e) = {}, NEW area \in Areas
  PROVE  LinesOf(d, area) = LinesOf(e, area)
<1>1. CASE area \in Shown(all)
  <2>1. d \in Matching(all, area) /\ e \in Matching(all, area)
    BY <1>1 DEF Apart
  <2> QED
    BY <2>1 DEF Matching, Alike
<1>2. CASE area \notin Shown(all)
  BY <1>2 DEF Shown
<1> QED
  BY <1>1, <1>2

-----------------------------------------------------------------------------
(* The theorem *)

RequestSafe == Request(selection) /\ None \notin DOMAIN fleet

LEMMA RequestsAreSafe == SpecCompare => []RequestSafe
<1>1. InitCompare => RequestSafe
  BY CompareAssumption DEF InitCompare, Request, RequestSafe
<1>2. RequestSafe /\ [SelectDevice]_compareVars => RequestSafe'
  BY DEF Request, SelectDevice, compareVars, RequestSafe
<1> QED
  BY <1>1, <1>2, PTL DEF SpecCompare

LEMMA MajorityShows ==
  ASSUME NEW all, Request(all), NEW area \in DOMAIN CompareDevices(all).rows,
         NEW d \in Compared(all), 2 * Votes(all, area, d) > Cardinality(Comparable(all))
  PROVE  CompareDevices(all).rows[area] = Alike(all, area, d)
<1>1. CompareDevices(all).rows[area] = Matching(all, area) /\ Cardinality(Comparable(all)) >= 2
  BY DEF CompareDevices
<1> QED
  BY <1>1, MajorityIsMatched

LEMMA OrderDoesNotMatter ==
  ASSUME NEW all, Request(all), Distinct(all), \A area \in Areas : ~Tied(all, area),
         NEW other \in Reordered(all), None \notin DOMAIN fleet
  PROVE  LET its == CompareDevices(other)
             answer == CompareDevices(all)
         IN  /\ [its EXCEPT !.baseline = None] = [answer EXCEPT !.baseline = None]
             /\ its.baseline = None <=> answer.baseline = None
             /\ its.baseline # None =>
                  \A area \in Areas : LinesOf(its.baseline, area) = LinesOf(answer.baseline, area)
<1> DEFINE its == CompareDevices(other)
           answer == CompareDevices(all)
<1>1. /\ Request(other) /\ Distinct(other)
      /\ ToSet(other) = ToSet(all) /\ Compared(other) = Compared(all)
  BY SameDevices
<1>2. Cardinality(Comparable(other)) = Cardinality(Comparable(all))
  BY <1>1, PlacesOfDevices
<1>3. /\ Shown(other) = Shown(all) /\ Differences(other) = Differences(all)
      /\ \A area \in Shown(all) : Matching(other, area) = Matching(all, area)
  BY <1>1, SameDifferences
<1>4. [its EXCEPT !.baseline = None] = [answer EXCEPT !.baseline = None]
  <2> DEFINE Fields(some, base) ==
               [without   |-> some.without, rows |-> some.rows, identical |-> some.identical,
                differing |-> some.differing, outlier |-> some.outlier, baseline |-> base]
  <2>1. /\ its.without = answer.without /\ its.rows = answer.rows
        /\ its.identical = answer.identical /\ its.differing = answer.differing
        /\ its.outlier = answer.outlier
    BY <1>1, <1>2, <1>3 DEF CompareDevices
  <2>2. its = Fields(its, its.baseline) /\ answer = Fields(answer, answer.baseline)
    BY DEF CompareDevices
  <2>3. ASSUME NEW r, r = Fields(r, r.baseline) PROVE [r EXCEPT !.baseline = None] = Fields(r, None)
    BY <2>3
  <2> HIDE DEF its, answer
  <2> QED
    BY <2>1, <2>2, <2>3
<1> DEFINE agreeing == {d \in Compared(all) : Apart(all, d) = {}}
           mine == BaselineDevice(all, Differences(all))
           yours == BaselineDevice(other, Differences(other))
<1>5. \A d : Apart(other, d) = Apart(all, d)
  BY <1>3 DEF Apart
<1>6. IF agreeing = {} THEN mine = None /\ yours = None ELSE mine \in agreeing /\ yours \in agreeing
  BY <1>1, <1>5, BaselineAgrees
<1>7. \A d \in agreeing : d # None
  BY DEF Compared, Comparable, Request
<1>8. \/ answer.baseline = None /\ its.baseline = None
      \/ answer.baseline = mine /\ its.baseline = yours
  BY <1>2 DEF CompareDevices
<1>9. mine # None /\ yours # None =>
        \A area \in Areas : LinesOf(yours, area) = LinesOf(mine, area)
  BY <1>6, AgreeingAreAlike
<1> QED
  BY <1>4, <1>6, <1>7, <1>8, <1>9

\* A comparison shows what more than half of the devices have, calls neither of two devices the
\* outlier, and answers the same in any order of selection, unless two groups tie, in every state.
THEOREM ComparisonsAreFair == SpecCompare => []ComparisonIsFair
<1>1. RequestSafe => ComparisonIsFair
  <2> DEFINE answer == CompareDevices(selection)
  <2> SUFFICES ASSUME RequestSafe, Cardinality(ToSet(selection)) = Len(selection)
               PROVE  /\ \A area \in DOMAIN answer.rows, d \in Compared(selection) :
                           2 * Votes(selection, area, d) > Cardinality(Comparable(selection)) =>
                             answer.rows[area] = Alike(selection, area, d)
                      /\ Cardinality(Comparable(selection)) = 2 => answer.outlier = None
                      /\ (\A area \in Areas : ~Tied(selection, area)) =>
                           \A other \in Reordered(selection) :
                             LET its == CompareDevices(other)
                             IN  /\ [its EXCEPT !.baseline = None] = [answer EXCEPT !.baseline = None]
                                 /\ its.baseline = None <=> answer.baseline = None
                                 /\ its.baseline # None =>
                                      \A area \in Areas :
                                        LinesOf(its.baseline, area) = LinesOf(answer.baseline, area)
    BY DEF ComparisonIsFair
  <2> USE DEF RequestSafe
  <2>1. Distinct(selection)
    BY NoneTwice
  <2>2. Cardinality(Comparable(selection)) = 2 => answer.outlier = None
    BY <2>1, NobodyIsWorse DEF CompareDevices
  <2> HIDE DEF answer
  <2> QED
    BY <2>1, <2>2, MajorityShows, OrderDoesNotMatter DEF answer
<1> QED
  BY <1>1, RequestsAreSafe, PTL

-----------------------------------------------------------------------------
(* Unknown clients *)

WrittenLines == [nas : Clients \cup {None}, text : SUBSET (Clients \cup Stations)]
Sightings    == [ip : Clients, protocol : Protocols, count : Nat \ {0}]

\* While the watcher's latest publication met a client, the file begins with it.
WatchSafe ==
  /\ inventoried \subseteq Clients
  /\ written \in [Logs -> Seq(WrittenLines)]
  /\ seen \in Seq(Sightings)
  /\ published \in Seq(Sightings)
  /\ last # None => published # <<>> /\ published[1].ip = last

LEMMA WatchInit == InitWatch => WatchSafe
BY DEF InitWatch, WatchSafe

\* An observation takes its old entry's place at the end of the list.
LEMMA ObserveKeeps ==
  ASSUME WatchSafe, NEW ip \in Clients, NEW protocol \in Protocols, Observe(ip, protocol)
  PROVE  WatchSafe'
<1>1. seen \in Seq(Sightings)
  BY DEF WatchSafe
<1>2. ASSUME NEW i \in DOMAIN seen,
             seen' = Append(RemoveAt(seen, i), [seen[i] EXCEPT !.count = @ + 1])
      PROVE  seen' \in Seq(Sightings)
  <2>1. /\ Len(seen) \in Nat /\ i \in 1..Len(seen)
        /\ \A j \in 1..Len(seen) : seen[j] \in Sightings
    BY <1>1, <1>2
  <2>2. SubSeq(seen, 1, i - 1) \in Seq(Sightings)
    <3>1. i - 1 \in Int /\ \A j \in 1..(i - 1) : seen[j] \in Sightings
      BY <2>1
    <3> QED
      BY <3>1, SubSeqProperties
  <2>3. SubSeq(seen, i + 1, Len(seen)) \in Seq(Sightings)
    <3>1. i + 1 \in Int /\ Len(seen) \in Int /\ \A j \in (i + 1)..Len(seen) : seen[j] \in Sightings
      BY <2>1
    <3> QED
      BY <3>1, SubSeqProperties
  <2>4. RemoveAt(seen, i) \in Seq(Sightings)
    BY <2>2, <2>3, ConcatProperties DEF RemoveAt
  <2>5. [seen[i] EXCEPT !.count = @ + 1] \in Sightings
    BY <2>1 DEF Sightings
  <2> QED
    BY <1>2, <2>4, <2>5
<1>3. ASSUME seen' = Append(seen, [ip |-> ip, protocol |-> protocol, count |-> 1])
      PROVE  seen' \in Seq(Sightings)
  <2>1. [ip |-> ip, protocol |-> protocol, count |-> 1] \in Sightings
    BY DEF Sightings
  <2> QED
    BY <1>1, <1>3, <2>1
<1>4. seen' \in Seq(Sightings)
  BY <1>2, <1>3 DEF Observe
<1> QED
  BY <1>4 DEF WatchSafe, Observe

\* The file begins with the latest observation.
LEMMA PruneKeepsTheLatest ==
  ASSUME WatchSafe, NEW stale \in 0..Len(seen)
  PROVE  /\ Prune(stale) \in Seq(Sightings)
         /\ stale # Len(seen) => /\ Len(Prune(stale)) >= 1
                                 /\ Prune(stale)[Len(Prune(stale))] = seen[Len(seen)]
<1> DEFINE n == Len(seen)
           kept == SubSeq(seen, stale + 1, n)
           m == Len(kept)
           cut == SubSeq(kept, m - MaxTracked + 1, m)
<1>1. n \in Nat /\ stale \in Nat /\ stale <= n /\ \A j \in 1..n : seen[j] \in Sightings
  BY DEF WatchSafe
<1>2. MaxTracked \in Nat \ {0}
  BY WatchAssumption
<1>3. /\ kept \in Seq(Sightings) /\ m = n - stale
      /\ \A i \in 1..(n - stale) : kept[i] = seen[stale + i]
  <2>1. stale + 1 \in Int /\ n \in Int /\ \A j \in (stale + 1)..n : seen[j] \in Sightings
    BY <1>1
  <2> HIDE DEF n
  <2>2. /\ kept \in Seq(Sightings)
        /\ m = IF stale + 1 <= n THEN n - (stale + 1) + 1 ELSE 0
        /\ \A i \in 1..(n - (stale + 1) + 1) : kept[i] = seen[stale + 1 + i - 1]
    BY <2>1, SubSeqProperties
  <2> QED
    BY <1>1, <2>2
<1>4. Prune(stale) = IF m > MaxTracked THEN cut ELSE kept
  BY DEF Prune
<1>5. CASE m > MaxTracked
  <2>1. m \in Nat /\ m - MaxTracked + 1 \in Int /\ m - MaxTracked + 1 >= 1 /\ m - MaxTracked + 1 <= m
    BY <1>1, <1>2, <1>3, <1>5
  <2>2. \A j \in (m - MaxTracked + 1)..m : kept[j] \in Sightings
    BY <1>3, <2>1
  <2> HIDE DEF kept, n, m
  <2>3. /\ cut \in Seq(Sightings)
        /\ Len(cut) = m - (m - MaxTracked + 1) + 1
        /\ \A i \in 1..(m - (m - MaxTracked + 1) + 1) : cut[i] = kept[m - MaxTracked + 1 + i - 1]
    BY <2>1, <2>2, SubSeqProperties
  <2> HIDE DEF cut
  <2>4. Len(cut) = MaxTracked /\ cut[MaxTracked] = kept[m]
    <3>1. m - (m - MaxTracked + 1) + 1 = MaxTracked /\ m - MaxTracked + 1 + MaxTracked - 1 = m
      BY <1>2, <2>1
    <3>2. MaxTracked \in 1..MaxTracked
      BY <1>2
    <3>3. \A i \in 1..MaxTracked : cut[i] = kept[m - MaxTracked + 1 + i - 1]
      BY <2>3, <3>1, Zenon
    <3>4. cut[MaxTracked] = kept[m - MaxTracked + 1 + MaxTracked - 1]
      BY <3>2, <3>3, Zenon
    <3>5. Len(cut) = MaxTracked
      BY <2>3, <3>1, Zenon
    <3> QED
      BY <3>1, <3>4, <3>5, Zenon
  <2>5. kept[m] = seen[n]
    BY <1>1, <1>2, <1>3, <1>5
  <2> QED
    BY <1>2, <1>4, <1>5, <2>3, <2>4, <2>5 DEF n
<1>6. CASE ~ (m > MaxTracked)
  <2> HIDE DEF n, m, kept
  <2>1. stale # n => m \in 1..(n - stale) /\ stale + m = n
    BY <1>1, <1>3
  <2>2. stale # n => m >= 1 /\ kept[m] = seen[n]
    BY <1>3, <2>1
  <2> QED
    BY <1>3, <1>4, <1>6, <2>2 DEF m, n
<1> QED
  BY <1>5, <1>6

LEMMA PublishKeeps ==
  ASSUME WatchSafe, NEW stale \in 0..Len(seen), Publish(stale) PROVE WatchSafe'
<1>1. seen' = Prune(stale) /\ seen' \in Seq(Sightings)
  BY PruneKeepsTheLatest DEF Publish
<1>2. CASE UNCHANGED <<published, last>>
  BY <1>1, <1>2 DEF Publish, WatchSafe
<1>3. CASE /\ published' = Reverse(seen')
           /\ last' = IF stale = Len(seen) THEN None ELSE Last(seen).ip
  <2>1. Len(seen') \in Nat /\ \A j \in 1..Len(seen') : seen'[j] \in Sightings
    BY <1>1
  <2>2. published' = [i \in 1..Len(seen') |-> seen'[(Len(seen') - i) + 1]]
    BY <1>3 DEF Reverse
  <2>3. published' \in Seq(Sightings) /\ Len(published') = Len(seen')
    BY <2>1, <2>2
  <2>4. ASSUME last' # None PROVE published' # <<>> /\ published'[1].ip = last'
    <3>1. stale # Len(seen) /\ last' = Last(seen).ip
      BY <1>3, <2>4
    <3>2. Len(seen') >= 1 /\ seen'[Len(seen')] = seen[Len(seen)]
      BY <1>1, <3>1, PruneKeepsTheLatest
    <3>3. published'[1] = seen[Len(seen)]
      BY <2>1, <2>2, <3>2
    <3> QED
      BY <2>3, <3>1, <3>2, <3>3 DEF Last
  <2> QED
    BY <1>1, <2>3, <2>4 DEF Publish, WatchSafe
<1> QED
  BY <1>2, <1>3 DEF Publish

LEMMA WatchNext == WatchSafe /\ [NextWatch]_watchVars => WatchSafe'
<1> SUFFICES ASSUME WatchSafe, [NextWatch]_watchVars PROVE WatchSafe'
  OBVIOUS
<1>1. ASSUME NEW l \in Logs, NEW ip \in Clients, NEW station \in Stations, NEW parsed \in BOOLEAN,
             Write(l, ip, station, parsed)
      PROVE  WatchSafe'
  <2>1. [nas |-> IF parsed THEN ip ELSE None, text |-> {ip, station}] \in WrittenLines
    BY DEF WrittenLines
  <2>2. written' \in [Logs -> Seq(WrittenLines)]
    BY <1>1, <2>1 DEF Write, WatchSafe
  <2> QED
    BY <1>1, <2>2 DEF Write, WatchSafe
<1>2. ASSUME NEW ip \in Clients, EditInventory(ip) PROVE WatchSafe'
  BY <1>2 DEF EditInventory, WatchSafe
<1>3. CASE RestartWatcher
  BY <1>3 DEF RestartWatcher, WatchSafe
<1>4. CASE UNCHANGED watchVars
  BY <1>4 DEF watchVars, WatchSafe
<1> QED
  BY <1>1, <1>2, <1>3, <1>4, ObserveKeeps, PublishKeeps DEF NextWatch

LEMMA WatchIsSafe == SpecWatch => []WatchSafe
BY WatchInit, WatchNext, PTL DEF SpecWatch

\* What the search counts: a line that names the client counts, and so does the file's entry.
LEMMA HitsAreNumbers ==
  ASSUME WatchSafe, NEW l \in Logs, NEW ip
  PROVE  /\ FieldHits(l, ip) \in Nat /\ TextHits(l, ip) \in Nat
         /\ (\E i \in LatestLines(l) : ip \in written[l][i].text) => TextHits(l, ip) >= 1
<1> DEFINE field == {i \in LatestLines(l) : written[l][i].nas = ip}
           text == {i \in LatestLines(l) : ip \in written[l][i].text}
<1>1. IsFiniteSet(DOMAIN written[l])
  <2>1. written[l] \in Seq(WrittenLines)
    BY DEF WatchSafe
  <2> QED
    BY <2>1, LenProperties, FS_Interval
<1>2. field \in SUBSET DOMAIN written[l] /\ text \in SUBSET DOMAIN written[l]
  BY DEF LatestLines
<1> HIDE DEF field, text
<1>3. IsFiniteSet(field) /\ IsFiniteSet(text)
  BY <1>1, <1>2, FS_Subset
<1>4. Cardinality(field) \in Nat /\ Cardinality(text) \in Nat /\ (text # {} => Cardinality(text) # 0)
  BY <1>3, FS_CardinalityType, FS_EmptySet
<1>5. (\E i \in LatestLines(l) : ip \in written[l][i].text) => text # {}
  BY DEF text
<1> QED
  BY <1>4, <1>5 DEF FieldHits, TextHits, field, text

LEMMA SightingsCount ==
  ASSUME WatchSafe, NEW ip
  PROVE  LET lines == {l \in Logs : \E i \in LatestLines(l) : ip \in written[l][i].text}
         IN  /\ LogSightings(ip) \in Nat /\ Cardinality(lines) \in Nat
             /\ Cardinality(lines) <= LogSightings(ip)
             /\ lines # {} => Cardinality(lines) >= 1
<1> DEFINE lines == {l \in Logs : \E i \in LatestLines(l) : ip \in written[l][i].text}
           f == [l \in Logs |-> FieldHits(l, ip) + TextHits(l, ip)]
<1>1. IsFiniteSet(Logs) /\ DOMAIN f = Logs /\ lines \in SUBSET DOMAIN f
  BY WatchAssumption
<1>2. \A l \in DOMAIN f : f[l] \in Nat
  BY HitsAreNumbers
<1>3. \A l \in lines : f[l] >= 1
  BY HitsAreNumbers
<1>4. LogSightings(ip) = SumFunction(f)
  BY DEF LogSightings
<1> HIDE DEF f, lines
<1>5. IsFiniteSet(lines)
  BY <1>1, FS_Subset
<1>6. lines # {} => Cardinality(lines) # 0
  BY <1>5, FS_EmptySet
<1>7. /\ SumFunction(f) \in Nat /\ Cardinality(lines) \in Nat
      /\ Cardinality(lines) <= SumFunction(f)
  BY <1>1, <1>2, <1>3, SumsCover
<1> QED
  BY <1>4, <1>6, <1>7 DEF lines

LEMMA AttemptsCount ==
  ASSUME WatchSafe, NEW ip \in Clients
  PROVE  Attempts(ip) \in Nat /\ (last = ip => Attempts(ip) >= 1)
<1> DEFINE f == [i \in Entries(ip) |-> ReadObserved[i].count]
<1>1. IsFiniteSet(DOMAIN published) /\ \A i \in DOMAIN published : published[i] \in Sightings
  BY LenProperties, FS_Interval DEF WatchSafe
<1>2. DOMAIN f = Entries(ip) /\ Entries(ip) \in SUBSET DOMAIN published
  BY DEF Entries, ReadObserved
<1>3. \A i \in DOMAIN f : f[i] \in Nat /\ f[i] >= 1
  BY <1>1, <1>2 DEF ReadObserved, Sightings
<1>4. Attempts(ip) = SumFunction(f)
  BY DEF Attempts
<1> HIDE DEF f
<1>5. IsFiniteSet(DOMAIN f)
  BY <1>1, <1>2, FS_Subset
<1>6. /\ SumFunction(f) \in Nat /\ Cardinality(DOMAIN f) \in Nat
      /\ Cardinality(DOMAIN f) <= SumFunction(f)
  BY <1>3, <1>5, SumsCover
<1>7. ASSUME last = ip PROVE Cardinality(DOMAIN f) # 0
  <2>1. published # <<>> /\ published[1].ip = ip
    BY <1>7, WatchAssumption DEF WatchSafe
  <2>2. 1 \in DOMAIN published
    BY <2>1 DEF WatchSafe
  <2>3. 1 \in DOMAIN f
    BY <1>2, <2>1, <2>2 DEF Entries, ReadObserved
  <2> QED
    BY <1>5, <2>3, FS_EmptySet
<1> QED
  BY <1>4, <1>6, <1>7

\* Unknown clients, for every set of clients, logs and protocols, any number of lines read and
\* observations kept, and any number of packets, lines and changes to the inventory.
THEOREM StrangersAreAlwaysOffered == SpecWatch => []StrangersAreOffered
<1>1. WatchSafe => StrangersAreOffered
  <2> SUFFICES ASSUME WatchSafe PROVE StrangersAreOffered
    OBVIOUS
  <2>1. ASSUME NEW ip \in Clients \ inventoried
        PROVE  LET lines == {l \in Logs : \E i \in LatestLines(l) : ip \in written[l][i].text}
               IN  lines # {} \/ last = ip =>
                     \E d \in FindUnknown :
                       /\ d.ip = ip /\ lines \subseteq d.seen_in
                       /\ last = ip => d.attempts > Cardinality(lines)
    <3> DEFINE lines == {l \in Logs : \E i \in LatestLines(l) : ip \in written[l][i].text}
               d == [ip |-> ip, attempts |-> LogSightings(ip) + Attempts(ip), seen_in |-> SeenIn(ip)]
    <3> SUFFICES ASSUME lines # {} \/ last = ip
                 PROVE  \E e \in FindUnknown :
                          /\ e.ip = ip /\ lines \subseteq e.seen_in
                          /\ last = ip => e.attempts > Cardinality(lines)
      OBVIOUS
    <3>1. lines \subseteq SeenIn(ip)
      <4>1. \A l \in lines : TextHits(l, ip) > 0
        BY HitsAreNumbers
      <4> QED
        BY <4>1 DEF SeenIn
    <3>2. /\ LogSightings(ip) \in Nat /\ Cardinality(lines) \in Nat
          /\ Cardinality(lines) <= LogSightings(ip)
          /\ lines # {} => Cardinality(lines) >= 1
      BY SightingsCount
    <3>3. Attempts(ip) \in Nat /\ (last = ip => Attempts(ip) >= 1)
      BY AttemptsCount
    <3> HIDE DEF lines
    <3>4. LogSightings(ip) + Attempts(ip) > 0
      BY <3>2, <3>3
    <3>5. d \in FindUnknown
      BY <3>4 DEF FindUnknown, IsKnown
    <3>6. last = ip => d.attempts > Cardinality(lines)
      BY <3>2, <3>3
    <3> QED
      BY <3>1, <3>5, <3>6
  <2>2. \A d \in FindUnknown : d.ip \notin inventoried
    BY DEF FindUnknown, IsKnown
  <2> QED
    BY <2>1, <2>2 DEF StrangersAreOffered
<1> QED
  BY <1>1, WatchIsSafe, PTL

-----------------------------------------------------------------------------
(* Sessions from the lines of a log *)

\* What a record makes of a line: nothing before the first one read.
StepOf(F, log, l, first, i) ==
  IF i = 0 \/ i < first THEN NoSession
  ELSE IF log[i].parsed /\ log[i].line = l THEN Absorb(F[i - 1], log[i])
  ELSE F[i - 1]

Groups(F, log, l, first) == F = [i \in 0..Len(log) |-> StepOf(F, log, l, first, i)]

LEMMA GroupingIsRecursive ==
  ASSUME NEW log, NEW l, NEW first
  PROVE  SessionsFrom(log, l, first) = CHOOSE F : Groups(F, log, l, first)
BY DEF SessionsFrom, Groups, StepOf

LEMMA GroupingExists ==
  ASSUME NEW log, Len(log) \in Nat, NEW l, NEW first
  PROVE  \E F : Groups(F, log, l, first)
<1> DEFINE n == Len(log)
           Upto(F, m) == /\ F = [i \in 0..n |-> F[i]]
                         /\ \A i \in 0..n : i <= m => F[i] = StepOf(F, log, l, first, i)
           Missing == {m \in Nat : ~ \E F : Upto(F, m)}
<1>1. \E F : Upto(F, 0)
  <2> DEFINE F == [i \in 0..n |-> NoSession]
  <2>1. F = [i \in 0..n |-> F[i]] /\ \A i \in 0..n : i <= 0 => F[i] = NoSession /\ i = 0
    OBVIOUS
  <2>2. Upto(F, 0)
    BY <2>1 DEF StepOf
  <2> QED
    BY <2>2
<1>2. ASSUME NEW m \in Nat, NEW F, Upto(F, m) PROVE \E G : Upto(G, m + 1)
  <2> DEFINE G == [i \in 0..n |-> StepOf(F, log, l, first, i)]
  <2>1. G = [i \in 0..n |-> G[i]] /\ \A i \in 0..n : G[i] = StepOf(F, log, l, first, i)
    OBVIOUS
  <2>2. ASSUME NEW i \in 0..n, i <= m PROVE G[i] = F[i]
    BY <1>2, <2>1, <2>2
  <2> HIDE DEF G
  <2>3. ASSUME NEW i \in 0..n, i <= m + 1 PROVE G[i] = StepOf(G, log, l, first, i)
    <3>1. CASE i = 0
      BY <2>1, <3>1 DEF StepOf
    <3>2. CASE i # 0
      <4>1. i - 1 \in 0..n /\ i - 1 <= m
        BY <2>3, <3>2
      <4>2. G[i - 1] = F[i - 1]
        BY <2>2, <4>1
      <4> QED
        BY <2>1, <4>2 DEF StepOf
    <3> QED
      BY <3>1, <3>2
  <2>4. Upto(G, m + 1)
    BY <2>1, <2>3
  <2> QED
    BY <2>4
<1>3. Missing = {}
  <2> HIDE DEF Upto
  <2> SUFFICES ASSUME Missing # {} PROVE FALSE
    OBVIOUS
  <2>1. PICK m \in Missing : \A k \in Missing : m <= k
    <3>1. Missing \in SUBSET Nat
      OBVIOUS
    <3> HIDE DEF Missing
    <3> QED
      BY <3>1, Least
  <2>2. m # 0
    BY <1>1, <2>1
  <2>3. m - 1 \in Nat /\ m - 1 \notin Missing
    BY <2>1, <2>2
  <2>4. \E F : Upto(F, m - 1)
    BY <2>3
  <2>5. \E F : Upto(F, m - 1 + 1)
    BY <1>2, <2>3, <2>4
  <2> QED
    BY <2>1, <2>5
<1>4. PICK F : Upto(F, n)
  BY <1>3
<1>5. Groups(F, log, l, first)
  BY <1>4 DEF Groups
<1> QED
  BY <1>5

LEMMA GroupingSteps ==
  ASSUME NEW log, Len(log) \in Nat, NEW l, NEW first, NEW i \in 0..Len(log)
  PROVE  SessionsFrom(log, l, first)[i] = StepOf(SessionsFrom(log, l, first), log, l, first, i)
<1> DEFINE F == SessionsFrom(log, l, first)
<1>1. Groups(F, log, l, first)
  BY GroupingIsRecursive, GroupingExists
<1> HIDE DEF F
<1>2. F[i] = StepOf(F, log, l, first, i)
  BY <1>1 DEF Groups
<1> QED
  BY <1>2 DEF F

\* A record more does not change what the earlier ones made of a line.
LEMMA GroupingKeepsThePast ==
  ASSUME NEW S, NEW log \in Seq(S), NEW e \in S, NEW l, NEW first, NEW n \in 0..Len(log)
  PROVE  SessionsFrom(Append(log, e), l, first)[n] = SessionsFrom(log, l, first)[n]
<1> DEFINE F == SessionsFrom(log, l, first)
           more == Append(log, e)
           G == SessionsFrom(more, l, first)
           Odds == {i \in 0..Len(log) : G[i] # F[i]}
<1>1. Len(log) \in Nat /\ Len(more) = Len(log) + 1 /\ \A i \in 1..Len(log) : more[i] = log[i]
  BY AppendProperties
<1>2. \A i \in 0..Len(log) : F[i] = StepOf(F, log, l, first, i)
  BY <1>1, GroupingSteps
<1>3. \A i \in 0..Len(log) : G[i] = StepOf(G, more, l, first, i)
  <2> HIDE DEF more
  <2>1. Len(more) \in Nat /\ \A i \in 0..Len(log) : i \in 0..Len(more)
    BY <1>1
  <2> QED
    BY <2>1, GroupingSteps
<1> HIDE DEF F, G, more
<1>4. Odds = {}
  <2> SUFFICES ASSUME Odds # {} PROVE FALSE
    OBVIOUS
  <2>1. PICK i \in Odds : \A j \in Odds : i <= j
    <3>1. Odds \in SUBSET Nat
      BY <1>1
    <3> HIDE DEF Odds
    <3> QED
      BY <3>1, Least
  <2>2. i # 0
    BY <1>2, <1>3, <2>1 DEF StepOf
  <2>3. i - 1 \in 0..Len(log) /\ i - 1 \notin Odds /\ i \in 1..Len(log)
    BY <1>1, <2>1, <2>2
  <2>4. G[i - 1] = F[i - 1] /\ more[i] = log[i]
    BY <1>1, <2>3
  <2>5. G[i] = F[i]
    BY <1>2, <1>3, <2>1, <2>4 DEF StepOf
  <2> QED
    BY <2>1, <2>5
<1> QED
  BY <1>4 DEF F, G, more

\* What a page that reads from record `first` on makes of line l in the end.
ShownFrom(log, l, first) == SessionsFrom(log, l, first)[Len(log)]

LEMMA OneMoreRecord ==
  ASSUME NEW S, NEW log \in Seq(S), NEW e \in S, NEW l, NEW first \in Int
  PROVE  ShownFrom(Append(log, e), l, first) =
           IF Len(log) + 1 < first THEN NoSession
           ELSE IF e.parsed /\ e.line = l THEN Absorb(ShownFrom(log, l, first), e)
           ELSE ShownFrom(log, l, first)
<1> DEFINE more == Append(log, e)
           n == Len(log)
           G == SessionsFrom(more, l, first)
<1>1. n \in Nat /\ Len(more) = n + 1 /\ more[n + 1] = e
  BY AppendProperties
<1>2. G[n + 1] = StepOf(G, more, l, first, n + 1)
  <2> HIDE DEF more, n
  <2>1. Len(more) \in Nat /\ n + 1 \in 0..Len(more)
    BY <1>1
  <2> QED
    BY <2>1, GroupingSteps
<1>3. G[n] = ShownFrom(log, l, first)
  BY <1>1, GroupingKeepsThePast DEF ShownFrom
<1>4. ShownFrom(more, l, first) = G[n + 1]
  BY <1>1 DEF ShownFrom
<1> HIDE DEF G, more, n
<1>5. n + 1 # 0 /\ n + 1 - 1 = n
  BY <1>1
<1>6. StepOf(G, more, l, first, n + 1) =
        IF n + 1 < first THEN NoSession
        ELSE IF e.parsed /\ e.line = l THEN Absorb(G[n], e) ELSE G[n]
  BY <1>1, <1>5 DEF StepOf
<1> QED
  BY <1>2, <1>3, <1>4, <1>6 DEF n, more

\* What a log is with a record more.
LEMMA Appended ==
  ASSUME NEW S, NEW log \in Seq(S), NEW e \in S
  PROVE  /\ Append(log, e) \in Seq(S) /\ Len(log) \in Nat /\ DOMAIN log = 1..Len(log)
         /\ DOMAIN Append(log, e) = 1..(Len(log) + 1) /\ Append(log, e)[Len(log) + 1] = e
         /\ \A i \in DOMAIN log : Append(log, e)[i] = log[i]
BY AppendProperties, LenProperties

LEMMA NothingRead ==
  ASSUME NEW l, NEW first \in Int PROVE ShownFrom(<<>>, l, first) = NoSession
<1>1. Len(<<>>) = 0 /\ 0 \in 0..0
  OBVIOUS
<1> QED
  BY <1>1, GroupingSteps DEF ShownFrom, StepOf

-----------------------------------------------------------------------------
(* The invariant of the logs *)

Records ==
  [parsed : BOOLEAN, at : Nat \cup {None}, line : Lines \cup {None}, user : Users \cup {None},
   kind : {"", "start", "stop"}, result : Decisions \cup {"", "failed", "succeeded"},
   cmd : Commands \cup {None}]
Logins       == [user : Users, run : Seq(Commands), start : Nat]
OpenSessions == [user : Users, run : Seq(Commands), start : Nat, events : Nat]

\* Who is logged in on a line is what a page shows that reads the start, and a page that
\* does not, or reads of a line nobody uses, shows nothing; `lost` are the lines without a stop.
Tracks(log, login, lost, l) ==
  /\ login # None =>
       /\ login \in Logins
       /\ login.start \in DOMAIN log /\ log[login.start].parsed
       /\ log[login.start].line = l /\ log[login.start].user = login.user
  /\ \A first \in Int :
       LET shown == ShownFrom(log, l, first).open
       IN  /\ login # None /\ first <= login.start =>
                /\ shown \in OpenSessions /\ shown.user = login.user /\ shown.run = login.run
                /\ shown.start = log[login.start].at
           /\ login # None /\ first > login.start => shown = None
           /\ login = None /\ l \notin lost => shown = None

ShellDecisions(log) == {i \in DOMAIN log : log[i].parsed /\ log[i].cmd = None}
Successes(log)      == {i \in DOMAIN log : log[i].result = "succeeded"}

LogSafe ==
  /\ clock \in Nat
  /\ access \in Seq(Records) /\ auth \in Seq(Records) /\ accounting \in Seq(Records)
  /\ \A i \in DOMAIN auth : auth[i].at # None => auth[i].at <= clock
  /\ \A i \in DOMAIN access : access[i].parsed
  /\ Cardinality(ShellDecisions(auth)) <= Cardinality(Successes(access))
  /\ live = [l \in Lines |-> live[l]]
  /\ \A l \in Lines : Tracks(accounting, live[l], silent, l)

LEMMA LogInit == InitLogs => LogSafe
<1> SUFFICES ASSUME InitLogs PROVE LogSafe
  OBVIOUS
<1>1. /\ access = <<>> /\ auth = <<>> /\ accounting = <<>> /\ live = [l \in Lines |-> None]
      /\ silent = {} /\ clock = 0
  BY DEF InitLogs
<1>2. ShellDecisions(<<>>) = {} /\ Successes(<<>>) = {}
  BY DEF ShellDecisions, Successes
<1>3. ASSUME NEW l \in Lines PROVE Tracks(<<>>, None, {}, l)
  BY NothingRead DEF Tracks, NoSession
<1> QED
  BY <1>1, <1>2, <1>3, FS_EmptySet DEF LogSafe

LEMMA TimesAreNumbers ==
  ASSUME LogSafe, NEW i \in DOMAIN auth, auth[i].at # None
  PROVE  auth[i].at \in Nat /\ auth[i].at <= clock
<1>1. auth[i] \in Records /\ auth[i].at <= clock
  BY DEF LogSafe
<1> QED
  BY <1>1 DEF Records

\* The daemon's lines, and lines of another shape.
LEMMA LinesAreRecords ==
  ASSUME LogSafe, NEW l \in Lines, NEW user \in Users, NEW kind \in {"", "start", "stop"},
         NEW result \in Decisions \cup {"", "failed", "succeeded"}, NEW cmd \in Commands \cup {None}
  PROVE  Line(l, user, kind, result, cmd) \in Records
BY DEF Line, Records, LogSafe

\* One line more is one shell decision or one success more, if it is one.
LEMMA CountAppend ==
  ASSUME NEW log \in Seq(Records), NEW e \in Records
  PROVE  /\ Cardinality(ShellDecisions(log)) \in Nat /\ Cardinality(Successes(log)) \in Nat
         /\ Cardinality(ShellDecisions(Append(log, e))) =
              Cardinality(ShellDecisions(log)) + (IF e.parsed /\ e.cmd = None THEN 1 ELSE 0)
         /\ Cardinality(Successes(Append(log, e))) =
              Cardinality(Successes(log)) + (IF e.result = "succeeded" THEN 1 ELSE 0)
<1> DEFINE n == Len(log)
           more == Append(log, e)
           decides == e.parsed /\ e.cmd = None
<1>1. /\ n \in Nat /\ DOMAIN log = 1..n /\ DOMAIN more = 1..(n + 1)
      /\ more[n + 1] = e /\ \A i \in 1..n : more[i] = log[i]
  BY AppendProperties, LenProperties
<1>2. n + 1 \notin 1..n /\ 1..(n + 1) = (1..n) \cup {n + 1}
  BY <1>1
<1>3. IsFiniteSet(1..n)
  BY <1>1, FS_Interval
<1> HIDE DEF n, more
<1>4. /\ ShellDecisions(log) \in SUBSET (1..n) /\ Successes(log) \in SUBSET (1..n)
      /\ ShellDecisions(more) = ShellDecisions(log) \cup (IF decides THEN {n + 1} ELSE {})
      /\ Successes(more) = Successes(log) \cup (IF e.result = "succeeded" THEN {n + 1} ELSE {})
  <2>1. ShellDecisions(log) \in SUBSET (1..n) /\ Successes(log) \in SUBSET (1..n)
    BY <1>1 DEF ShellDecisions, Successes
  <2>2. ShellDecisions(more) = ShellDecisions(log) \cup (IF decides THEN {n + 1} ELSE {})
    BY <1>1, <1>2 DEF ShellDecisions
  <2>3. Successes(more) = Successes(log) \cup (IF e.result = "succeeded" THEN {n + 1} ELSE {})
    BY <1>1, <1>2 DEF Successes
  <2> QED
    BY <2>1, <2>2, <2>3
<1> HIDE DEF decides
<1>5. IsFiniteSet(ShellDecisions(log)) /\ IsFiniteSet(Successes(log))
  BY <1>3, <1>4, FS_Subset
<1>6. n + 1 \notin ShellDecisions(log) /\ n + 1 \notin Successes(log)
  BY <1>2, <1>4
<1>7. Cardinality(ShellDecisions(log)) \in Nat /\ Cardinality(Successes(log)) \in Nat
  BY <1>5, FS_CardinalityType
<1>8. Cardinality(ShellDecisions(more)) =
        Cardinality(ShellDecisions(log)) + (IF decides THEN 1 ELSE 0)
  <2>1. CASE decides
    BY <1>4, <1>5, <1>6, <2>1, FS_AddElement
  <2>2. CASE ~ decides
    BY <1>4, <1>7, <2>2
  <2> QED
    BY <2>1, <2>2
<1>9. Cardinality(Successes(more)) =
        Cardinality(Successes(log)) + (IF e.result = "succeeded" THEN 1 ELSE 0)
  <2>1. CASE e.result = "succeeded"
    BY <1>4, <1>5, <1>6, <2>1, FS_AddElement
  <2>2. CASE ~ (e.result = "succeeded")
    BY <1>4, <1>7, <2>2
  <2> QED
    BY <2>1, <2>2
<1> QED
  BY <1>7, <1>8, <1>9 DEF more, decides

-----------------------------------------------------------------------------
(* What the steps do to the lines *)

\* A record of another line, or of another shape, changes nothing here.
LEMMA OtherRecord ==
  ASSUME NEW log \in Seq(Records), NEW e \in Records, NEW l \in Lines, NEW login, NEW lost, NEW lost2,
         ~ (e.parsed /\ e.line = l), Tracks(log, login, lost, l), l \notin lost2 => l \notin lost
  PROVE  Tracks(Append(log, e), login, lost2, l)
<1> DEFINE more == Append(log, e)
<1>1. /\ Len(log) \in Nat /\ DOMAIN log = 1..Len(log) /\ DOMAIN more = 1..(Len(log) + 1)
      /\ \A i \in DOMAIN log : more[i] = log[i]
  BY AppendProperties, LenProperties
<1>2. \A first \in Int : ShownFrom(more, l, first) =
        IF Len(log) + 1 < first THEN NoSession ELSE ShownFrom(log, l, first)
  BY OneMoreRecord
<1> HIDE DEF more
<1>3. ASSUME login # None
      PROVE  /\ login \in Logins /\ login.start \in DOMAIN more /\ more[login.start].parsed
             /\ more[login.start].line = l /\ more[login.start].user = login.user
             /\ login.start \in DOMAIN log /\ more[login.start] = log[login.start]
  BY <1>1, <1>3 DEF Tracks
<1>4. ASSUME NEW first \in Int
      PROVE  LET shown == ShownFrom(more, l, first).open
             IN  /\ login # None /\ first <= login.start =>
                      /\ shown \in OpenSessions /\ shown.user = login.user /\ shown.run = login.run
                      /\ shown.start = more[login.start].at
                 /\ login # None /\ first > login.start => shown = None
                 /\ login = None /\ l \notin lost2 => shown = None
  <2>1. CASE Len(log) + 1 < first
    <3>1. ShownFrom(more, l, first).open = None
      BY <1>2, <2>1 DEF NoSession
    <3>2. login # None => ~ (first <= login.start)
      BY <1>1, <1>3, <2>1
    <3> QED
      BY <3>1, <3>2
  <2>2. CASE ~ (Len(log) + 1 < first)
    <3>1. ShownFrom(more, l, first) = ShownFrom(log, l, first)
      BY <1>2, <2>2
    <3> QED
      BY <1>3, <3>1 DEF Tracks
  <2> QED
    BY <2>1, <2>2
<1> QED
  BY <1>3, <1>4 DEF Tracks, more

\* A session with a command more.
Extended(open, cmd) == [open EXCEPT !.events = @ + 1, !.run = Append(@, cmd)]

LEMMA ExtendedIsOpen ==
  ASSUME NEW open \in OpenSessions, NEW cmd \in Commands
  PROVE  /\ Extended(open, cmd) \in OpenSessions /\ Extended(open, cmd).user = open.user
         /\ Extended(open, cmd).run = Append(open.run, cmd) /\ Extended(open, cmd).start = open.start
<1>1. /\ open = [user |-> open.user, run |-> open.run, start |-> open.start, events |-> open.events]
      /\ open.user \in Users /\ open.run \in Seq(Commands) /\ open.start \in Nat /\ open.events \in Nat
  BY DEF OpenSessions
<1>2. Extended(open, cmd) = [user |-> open.user, run |-> Append(open.run, cmd), start |-> open.start,
                             events |-> open.events + 1]
  <2> DEFINE one == [open EXCEPT !.events = @ + 1]
  <2>1. one = [user |-> open.user, run |-> open.run, start |-> open.start, events |-> open.events + 1]
    BY <1>1
  <2>2. Extended(open, cmd) = [one EXCEPT !.run = Append(open.run, cmd)]
    BY <1>1 DEF Extended
  <2> HIDE DEF one
  <2> QED
    BY <2>1, <2>2
<1>3. Append(open.run, cmd) \in Seq(Commands) /\ open.events + 1 \in Nat
  BY <1>1
<1> QED
  BY <1>1, <1>2, <1>3 DEF OpenSessions

LEMMA AbsorbsCommand ==
  ASSUME NEW s, s.open # None, NEW cmd, cmd # None, NEW e, e.kind = "stop", e.cmd = cmd
  PROVE  Absorb(s, e).open = Extended(s.open, cmd)
<1> DEFINE more == [s.open EXCEPT !.events = @ + 1,
                                  !.run = IF e.cmd = None THEN @ ELSE Append(@, e.cmd)]
<1>1. Absorb(s, e) = [s EXCEPT !.open = more]
  BY DEF Absorb
<1>2. more = Extended(s.open, cmd)
  BY DEF Extended
<1> QED
  BY <1>1, <1>2

\* A start opens a session, whatever was open.
LEMMA StartTracks ==
  ASSUME LogSafe, NEW l \in Lines, NEW lost, NEW login \in Logins, login.run = <<>>,
         login.start = Len(accounting) + 1, NEW e \in Records,
         e.parsed, e.line = l, e.kind = "start", e.at = clock, e.user = login.user
  PROVE  Tracks(Append(accounting, e), login, lost, l)
<1> DEFINE more == Append(accounting, e)
<1>1. accounting \in Seq(Records) /\ clock \in Nat
  BY DEF LogSafe
<1>2. /\ Len(accounting) \in Nat /\ DOMAIN more = 1..(Len(accounting) + 1)
      /\ more[Len(accounting) + 1] = e
  BY <1>1, Appended
<1>3. \A first \in Int : ShownFrom(more, l, first) =
        IF Len(accounting) + 1 < first THEN NoSession ELSE Absorb(ShownFrom(accounting, l, first), e)
  BY <1>1, OneMoreRecord
<1> HIDE DEF more
<1>4. \A s : Absorb(s, e).open = Begin(e)
  BY DEF Absorb
<1>5. /\ Begin(e) \in OpenSessions /\ Begin(e).user = login.user /\ Begin(e).run = login.run
      /\ Begin(e).start = e.at
  BY <1>1 DEF Begin, OpenSessions, Logins
<1>6. NoSession.open = None
  BY DEF NoSession
<1>7. login # None
  BY LogAssumption DEF Logins
<1>8. login.start \in DOMAIN more /\ more[login.start] = e
  BY <1>2
<1>9. ASSUME NEW first \in Int
      PROVE  LET shown == ShownFrom(more, l, first).open
             IN  /\ login # None /\ first <= login.start =>
                      /\ shown \in OpenSessions /\ shown.user = login.user /\ shown.run = login.run
                      /\ shown.start = more[login.start].at
                 /\ login # None /\ first > login.start => shown = None
                 /\ login = None /\ l \notin lost => shown = None
  <2>1. CASE Len(accounting) + 1 < first
    <3>1. ShownFrom(more, l, first).open = None
      BY <1>3, <1>6, <2>1
    <3>2. ~ (first <= login.start)
      BY <1>2, <2>1
    <3> QED
      BY <1>7, <3>1, <3>2
  <2>2. CASE ~ (Len(accounting) + 1 < first)
    <3>1. ShownFrom(more, l, first).open = Begin(e)
      BY <1>3, <1>4, <2>2
    <3>2. ~ (first > login.start)
      BY <1>2, <2>2
    <3> QED
      BY <1>5, <1>7, <1>8, <3>1, <3>2
  <2> QED
    BY <2>1, <2>2
<1>10. Tracks(more, login, lost, l)
  BY <1>7, <1>8, <1>9 DEF Tracks
<1> QED
  BY <1>10 DEF more

\* A command is added to the session that is open.
LEMMA CommandTracks ==
  ASSUME LogSafe, NEW l \in Lines, NEW login, login = live[l], login # None, NEW cmd \in Commands,
         NEW longer \in Logins, longer.user = login.user, longer.run = Append(login.run, cmd),
         longer.start = login.start, NEW e \in Records,
         e.parsed, e.line = l, e.kind = "stop", e.cmd = cmd
  PROVE  Tracks(Append(accounting, e), longer, silent, l)
<1> DEFINE more == Append(accounting, e)
<1>1. Tracks(accounting, login, silent, l) /\ accounting \in Seq(Records)
  BY DEF LogSafe
<1>2. /\ login \in Logins /\ login.start \in DOMAIN accounting /\ accounting[login.start].parsed
      /\ accounting[login.start].line = l /\ accounting[login.start].user = login.user
  BY <1>1 DEF Tracks
<1>3. longer # None /\ cmd # None
  BY LogAssumption DEF Logins
<1>4. /\ Len(accounting) \in Nat /\ DOMAIN accounting = 1..Len(accounting)
      /\ DOMAIN more = 1..(Len(accounting) + 1)
      /\ \A i \in DOMAIN accounting : more[i] = accounting[i]
  BY <1>1, Appended
<1>5. \A first \in Int : ShownFrom(more, l, first) =
        IF Len(accounting) + 1 < first THEN NoSession ELSE Absorb(ShownFrom(accounting, l, first), e)
  BY <1>1, OneMoreRecord
<1> HIDE DEF more
<1>6. longer.start \in DOMAIN more /\ more[longer.start] = accounting[login.start] /\ login.start \in Int
  BY <1>2, <1>4
<1>7. NoSession.open = None
  BY DEF NoSession
<1>8. ASSUME NEW first \in Int, first <= login.start
      PROVE  LET shown == ShownFrom(more, l, first).open
             IN  /\ shown \in OpenSessions /\ shown.user = longer.user /\ shown.run = longer.run
                 /\ shown.start = more[longer.start].at
  <2> DEFINE s == ShownFrom(accounting, l, first)
  <2>1. /\ s.open \in OpenSessions /\ s.open.user = login.user /\ s.open.run = login.run
        /\ s.open.start = accounting[login.start].at
    BY <1>1, <1>8 DEF Tracks
  <2>2. s.open # None
    BY <2>1, LogAssumption DEF OpenSessions
  <2>3. ~ (Len(accounting) + 1 < first)
    BY <1>2, <1>4, <1>8
  <2>4. ShownFrom(more, l, first) = Absorb(s, e)
    BY <1>5, <2>3
  <2> HIDE DEF s
  <2>5. Absorb(s, e).open = Extended(s.open, cmd)
    BY <1>3, <2>2, AbsorbsCommand
  <2>6. /\ Extended(s.open, cmd) \in OpenSessions /\ Extended(s.open, cmd).user = s.open.user
        /\ Extended(s.open, cmd).run = Append(s.open.run, cmd) /\ Extended(s.open, cmd).start = s.open.start
    BY <2>1, ExtendedIsOpen
  <2> QED
    BY <1>6, <2>1, <2>4, <2>5, <2>6
<1>9. ASSUME NEW first \in Int, first > login.start PROVE ShownFrom(more, l, first).open = None
  <2>1. ShownFrom(accounting, l, first).open = None
    BY <1>1, <1>9 DEF Tracks
  <2>2. Absorb(ShownFrom(accounting, l, first), e) = ShownFrom(accounting, l, first)
    BY <2>1 DEF Absorb
  <2>3. ShownFrom(more, l, first) \in {NoSession, ShownFrom(accounting, l, first)}
    BY <1>5, <2>2
  <2> QED
    BY <1>7, <2>1, <2>3
<1>10. Tracks(more, longer, silent, l)
  BY <1>2, <1>3, <1>6, <1>8, <1>9 DEF Tracks
<1> QED
  BY <1>10 DEF more

\* A stop without a command closes it.
LEMMA StopTracks ==
  ASSUME LogSafe, NEW l \in Lines, NEW e \in Records,
         e.parsed, e.line = l, e.kind = "stop", e.cmd = None
  PROVE  Tracks(Append(accounting, e), None, silent, l)
<1>1. accounting \in Seq(Records)
  BY DEF LogSafe
<1>2. \A s : Absorb(s, e).open = None
  BY DEF Absorb
<1>3. ASSUME NEW first \in Int PROVE ShownFrom(Append(accounting, e), l, first).open = None
  <2>1. ShownFrom(Append(accounting, e), l, first) \in {NoSession, Absorb(ShownFrom(accounting, l, first), e)}
    BY <1>1, OneMoreRecord
  <2> QED
    BY <1>2, <2>1 DEF NoSession
<1> QED
  BY <1>3 DEF Tracks

-----------------------------------------------------------------------------
(* The steps *)

LEMMA RefusedLoginKeeps ==
  ASSUME LogSafe, NEW l \in Lines, NEW user \in Users, RefusedLogin(l, user) PROVE LogSafe'
<1> DEFINE e == Line(l, user, "", "failed", None)
<1>1. e \in Records /\ e.parsed /\ e.result = "failed"
  BY LinesAreRecords DEF Line
<1> HIDE DEF e
<1>2. access' = Append(access, e) /\ UNCHANGED <<auth, accounting, live, silent, clock>>
  BY DEF RefusedLogin, e
<1>3. Cardinality(Successes(access')) = Cardinality(Successes(access))
  <2>1. Cardinality(Successes(access)) \in Nat /\ Cardinality(Successes(access')) = Cardinality(Successes(access)) + 0
    BY <1>1, <1>2, CountAppend DEF LogSafe
  <2> QED
    BY <2>1
<1>4. access' \in Seq(Records) /\ \A i \in DOMAIN access' : access'[i].parsed
  BY <1>1, <1>2 DEF LogSafe
<1> QED
  BY <1>2, <1>3, <1>4 DEF LogSafe

\* Every success comes with one shell decision.
LEMMA LogInKeeps ==
  ASSUME LogSafe, NEW l \in Lines, NEW user \in Users, NEW result \in Decisions, LogIn(l, user, result)
  PROVE  LogSafe'
<1> DEFINE a == Line(l, user, "", "succeeded", None)
           b == Line(l, user, "", result, None)
           c == Line(l, user, "start", "", None)
           login == [user |-> user, run |-> <<>>, start |-> Len(accounting) + 1]
<1>1. /\ a \in Records /\ a.parsed /\ a.result = "succeeded"
      /\ b \in Records /\ b.parsed /\ b.cmd = None /\ b.at = clock
      /\ c \in Records /\ c.parsed /\ c.line = l
  BY LinesAreRecords DEF Line
<1>2. /\ access' = Append(access, a) /\ auth' = Append(auth, b) /\ UNCHANGED clock
      /\ \/ UNCHANGED <<accounting, live, silent>>
         \/ /\ accounting' = Append(accounting, c) /\ live' = [live EXCEPT ![l] = login]
            /\ silent' = silent \ {l}
  BY DEF LogIn
<1>3. Tracks(Append(accounting, c), login, silent \ {l}, l)
  <2>1. c.parsed /\ c.line = l /\ c.kind = "start" /\ c.at = clock /\ c.user = user
    BY DEF Line
  <2>2. Len(accounting) + 1 \in Nat /\ <<>> \in Seq(Commands)
    BY Appended DEF LogSafe
  <2>3. login \in Logins /\ login.run = <<>> /\ login.start = Len(accounting) + 1 /\ login.user = user
    BY <2>2 DEF Logins
  <2> HIDE DEF c, login
  <2> QED
    BY <1>1, <2>1, <2>3, StartTracks
<1> HIDE DEF a, b, c, login
<1>4. Cardinality(ShellDecisions(auth')) <= Cardinality(Successes(access'))
  <2>1. /\ Cardinality(ShellDecisions(auth)) \in Nat
        /\ Cardinality(ShellDecisions(auth')) = Cardinality(ShellDecisions(auth)) + 1
    BY <1>1, <1>2, CountAppend DEF LogSafe
  <2>2. /\ Cardinality(Successes(access)) \in Nat
        /\ Cardinality(Successes(access')) = Cardinality(Successes(access)) + 1
    BY <1>1, <1>2, CountAppend DEF LogSafe
  <2> QED
    BY <2>1, <2>2 DEF LogSafe
<1>5. /\ access' \in Seq(Records) /\ \A i \in DOMAIN access' : access'[i].parsed
      /\ auth' \in Seq(Records) /\ clock' \in Nat
  BY <1>1, <1>2 DEF LogSafe
<1>6. \A i \in DOMAIN auth' : auth'[i].at # None => auth'[i].at <= clock'
  BY <1>1, <1>2 DEF LogSafe
<1>7. CASE UNCHANGED <<accounting, live, silent>>
  BY <1>4, <1>5, <1>6, <1>7 DEF LogSafe
<1>8. CASE /\ accounting' = Append(accounting, c) /\ live' = [live EXCEPT ![l] = login]
           /\ silent' = silent \ {l}
  <2>1. accounting' \in Seq(Records) /\ live' = [k \in Lines |-> live'[k]]
    BY <1>1, <1>8 DEF LogSafe
  <2>2. ASSUME NEW k \in Lines PROVE Tracks(accounting', live'[k], silent', k)
    <3>1. CASE k = l
      <4>1. live'[k] = login
        BY <1>8, <3>1 DEF LogSafe
      <4> QED
        BY <1>3, <1>8, <3>1, <4>1
    <3>2. CASE k # l
      <4>1. live'[k] = live[k] /\ Tracks(accounting, live[k], silent, k)
        BY <1>8, <3>2 DEF LogSafe
      <4>2. ~ (c.parsed /\ c.line = k) /\ (k \notin silent' => k \notin silent)
        BY <1>1, <1>8, <3>2
      <4> QED
        BY <1>1, <1>8, <4>1, <4>2, OtherRecord DEF LogSafe
    <3> QED
      BY <3>1, <3>2
  <2> QED
    BY <1>4, <1>5, <1>6, <2>1, <2>2 DEF LogSafe
<1> QED
  BY <1>2, <1>7, <1>8

LEMMA LongerIsLogin ==
  ASSUME NEW login \in Logins, NEW cmd \in Commands, NEW longer,
         longer = [login EXCEPT !.run = Append(@, cmd)]
  PROVE  /\ longer \in Logins /\ longer.user = login.user
         /\ longer.run = Append(login.run, cmd) /\ longer.start = login.start
<1>1. /\ login = [user |-> login.user, run |-> login.run, start |-> login.start]
      /\ login.user \in Users /\ login.run \in Seq(Commands) /\ login.start \in Nat
  BY DEF Logins
<1>2. longer = [user |-> login.user, run |-> Append(login.run, cmd), start |-> login.start]
  BY <1>1
<1>3. Append(login.run, cmd) \in Seq(Commands)
  BY <1>1
<1> QED
  BY <1>1, <1>2, <1>3 DEF Logins

LEMMA RunKeeps ==
  ASSUME LogSafe, NEW l \in Lines, NEW cmd \in Commands, NEW result \in Decisions, Run(l, cmd, result)
  PROVE  LogSafe'
<1> DEFINE b == Line(l, live[l].user, "", result, cmd)
           c == Line(l, live[l].user, "stop", "", cmd)
           longer == [live[l] EXCEPT !.run = Append(@, cmd)]
<1>1. live[l] # None /\ live[l].user \in Users
  BY DEF Run, Authorize, LogSafe, Tracks, Logins
<1>2. /\ b \in Records /\ b.at = clock /\ b.cmd # None
      /\ c \in Records /\ c.parsed /\ c.line = l
  BY <1>1, LinesAreRecords, LogAssumption DEF Line
<1>3. /\ auth' = Append(auth, b) /\ UNCHANGED <<access, silent, clock>>
      /\ \/ UNCHANGED <<accounting, live>>
         \/ accounting' = Append(accounting, c) /\ live' = [live EXCEPT ![l] = longer]
  BY DEF Run, Authorize
<1>4. Tracks(Append(accounting, c), longer, silent, l)
  <2> DEFINE login == live[l]
  <2>1. c.parsed /\ c.line = l /\ c.kind = "stop" /\ c.cmd = cmd
    BY DEF Line
  <2>2. login \in Logins
    BY <1>1 DEF LogSafe, Tracks
  <2>3. /\ longer \in Logins /\ longer.user = login.user
        /\ longer.run = Append(login.run, cmd) /\ longer.start = login.start
    BY <2>2, LongerIsLogin
  <2> HIDE DEF c, longer
  <2> QED
    BY <1>1, <1>2, <2>1, <2>3, CommandTracks
<1> HIDE DEF b, c, longer
<1>5. Cardinality(ShellDecisions(auth')) = Cardinality(ShellDecisions(auth))
  <2>1. /\ Cardinality(ShellDecisions(auth)) \in Nat
        /\ Cardinality(ShellDecisions(auth')) = Cardinality(ShellDecisions(auth)) + 0
    BY <1>2, <1>3, CountAppend DEF LogSafe
  <2> QED
    BY <2>1
<1>6. /\ auth' \in Seq(Records)
      /\ \A i \in DOMAIN auth' : auth'[i].at # None => auth'[i].at <= clock'
  BY <1>2, <1>3 DEF LogSafe
<1>7. CASE UNCHANGED <<accounting, live>>
  BY <1>3, <1>5, <1>6, <1>7 DEF LogSafe
<1>8. CASE accounting' = Append(accounting, c) /\ live' = [live EXCEPT ![l] = longer]
  <2>1. accounting' \in Seq(Records) /\ live' = [k \in Lines |-> live'[k]]
    BY <1>2, <1>8 DEF LogSafe
  <2>2. ASSUME NEW k \in Lines PROVE Tracks(accounting', live'[k], silent', k)
    <3>1. CASE k = l
      <4>1. live'[k] = longer
        BY <1>8, <3>1 DEF LogSafe
      <4> QED
        BY <1>3, <1>4, <1>8, <3>1, <4>1
    <3>2. CASE k # l
      <4>1. live'[k] = live[k] /\ Tracks(accounting, live[k], silent, k)
        BY <1>8, <3>2 DEF LogSafe
      <4>2. ~ (c.parsed /\ c.line = k) /\ silent' = silent
        BY <1>2, <1>3, <3>2
      <4> QED
        BY <1>2, <1>8, <4>1, <4>2, OtherRecord DEF LogSafe
    <3> QED
      BY <3>1, <3>2
  <2> QED
    BY <1>3, <1>5, <1>6, <2>1, <2>2 DEF LogSafe
<1> QED
  BY <1>3, <1>7, <1>8

\* A record that left its session changes no line.
LEMMA RunSplittingKeeps ==
  ASSUME LogSafe, NEW l \in Lines, NEW cmd \in Commands, NEW result \in Decisions,
         RunSplitting(l, cmd, result)
  PROVE  LogSafe'
<1> DEFINE b == Line(l, live[l].user, "", result, cmd)
           c == Shifted(cmd)
<1>1. live[l] # None /\ live[l].user \in Users
  BY DEF RunSplitting, Authorize, LogSafe, Tracks, Logins
<1>2. b \in Records /\ b.at = clock /\ b.cmd # None
  BY <1>1, LinesAreRecords, LogAssumption DEF Line
<1>3. c \in Records /\ c.line = None
  BY DEF Shifted, Records, LogSafe
<1>4. /\ auth' = Append(auth, b) /\ accounting' = Append(accounting, c)
      /\ UNCHANGED <<access, live, silent, clock>>
  BY DEF RunSplitting, Authorize
<1> HIDE DEF b, c
<1>5. Cardinality(ShellDecisions(auth')) = Cardinality(ShellDecisions(auth))
  <2>1. /\ Cardinality(ShellDecisions(auth)) \in Nat
        /\ Cardinality(ShellDecisions(auth')) = Cardinality(ShellDecisions(auth)) + 0
    BY <1>2, <1>4, CountAppend DEF LogSafe
  <2> QED
    BY <2>1
<1>6. /\ auth' \in Seq(Records) /\ accounting' \in Seq(Records)
      /\ \A i \in DOMAIN auth' : auth'[i].at # None => auth'[i].at <= clock'
  BY <1>2, <1>3, <1>4 DEF LogSafe
<1>7. ASSUME NEW k \in Lines PROVE Tracks(accounting', live'[k], silent', k)
  <2>1. ~ (c.parsed /\ c.line = k)
    BY <1>3, LogAssumption
  <2>2. Tracks(accounting, live[k], silent, k) /\ accounting \in Seq(Records)
    BY DEF LogSafe
  <2> QED
    BY <1>3, <1>4, <2>1, <2>2, OtherRecord
<1> QED
  BY <1>4, <1>5, <1>6, <1>7 DEF LogSafe

LEMMA LogoutKeeps == ASSUME LogSafe, NEW l \in Lines, Logout(l) PROVE LogSafe'
<1> DEFINE c == Line(l, live[l].user, "stop", "", None)
<1>1. live[l] # None /\ live[l].user \in Users
  BY DEF Logout, LogSafe, Tracks, Logins
<1>2. c \in Records /\ c.parsed /\ c.line = l
  BY <1>1, LinesAreRecords DEF Line
<1>3. /\ accounting' = Append(accounting, c) /\ live' = [live EXCEPT ![l] = None]
      /\ UNCHANGED <<access, auth, silent, clock>>
  BY DEF Logout
<1>4. Tracks(Append(accounting, c), None, silent, l)
  <2>1. c.parsed /\ c.line = l /\ c.kind = "stop" /\ c.cmd = None
    BY DEF Line
  <2> HIDE DEF c
  <2> QED
    BY <1>2, <2>1, StopTracks
<1> HIDE DEF c
<1>5. accounting' \in Seq(Records) /\ live' = [k \in Lines |-> live'[k]]
  BY <1>2, <1>3 DEF LogSafe
<1>6. ASSUME NEW k \in Lines PROVE Tracks(accounting', live'[k], silent', k)
  <2>1. CASE k = l
    <3>1. live'[k] = None
      BY <1>3, <2>1 DEF LogSafe
    <3> QED
      BY <1>3, <1>4, <2>1, <3>1
  <2>2. CASE k # l
    <3>1. live'[k] = live[k] /\ Tracks(accounting, live[k], silent, k)
      BY <1>3, <2>2 DEF LogSafe
    <3>2. ~ (c.parsed /\ c.line = k) /\ silent' = silent
      BY <1>2, <1>3, <2>2
    <3> QED
      BY <1>2, <1>3, <3>1, <3>2, OtherRecord DEF LogSafe
  <2> QED
    BY <2>1, <2>2
<1> QED
  BY <1>3, <1>5, <1>6 DEF LogSafe

LEMMA VanishKeeps == ASSUME LogSafe, NEW l \in Lines, Vanish(l) PROVE LogSafe'
<1>1. /\ live' = [live EXCEPT ![l] = None] /\ silent' = silent \cup {l}
      /\ UNCHANGED <<access, auth, accounting, clock>>
  BY DEF Vanish
<1>2. live' = [k \in Lines |-> live'[k]]
  BY <1>1 DEF LogSafe
<1>3. ASSUME NEW k \in Lines PROVE Tracks(accounting, live'[k], silent', k)
  <2>1. CASE k = l
    <3>1. live'[k] = None /\ k \in silent'
      BY <1>1, <2>1 DEF LogSafe
    <3> QED
      BY <3>1 DEF Tracks
  <2>2. CASE k # l
    <3>1. live'[k] = live[k] /\ Tracks(accounting, live[k], silent, k) /\ (k \notin silent' => k \notin silent)
      BY <1>1, <2>2 DEF LogSafe
    <3> QED
      BY <3>1 DEF Tracks
  <2> QED
    BY <2>1, <2>2
<1> QED
  BY <1>1, <1>2, <1>3 DEF LogSafe

LEMMA WriteOddKeeps == ASSUME LogSafe, WriteOdd PROVE LogSafe'
<1>1. PICK at \in {clock, None} :
        \/ auth' = Append(auth, Odd(at)) /\ UNCHANGED accounting
        \/ accounting' = Append(accounting, Odd(at)) /\ UNCHANGED auth
  BY DEF WriteOdd
<1>2. UNCHANGED <<access, live, silent, clock>>
  BY DEF WriteOdd
<1>3. Odd(at) \in Records /\ ~ Odd(at).parsed /\ (Odd(at).at # None => Odd(at).at = clock)
  BY DEF Odd, Records, LogSafe
<1>4. CASE auth' = Append(auth, Odd(at)) /\ UNCHANGED accounting
  <2>1. Cardinality(ShellDecisions(auth')) = Cardinality(ShellDecisions(auth))
    <3>1. /\ Cardinality(ShellDecisions(auth)) \in Nat
          /\ Cardinality(ShellDecisions(auth')) = Cardinality(ShellDecisions(auth)) + 0
      BY <1>3, <1>4, CountAppend DEF LogSafe
    <3> QED
      BY <3>1
  <2>2. /\ auth' \in Seq(Records)
        /\ \A i \in DOMAIN auth' : auth'[i].at # None => auth'[i].at <= clock'
    BY <1>2, <1>3, <1>4 DEF LogSafe
  <2> QED
    BY <1>2, <1>4, <2>1, <2>2 DEF LogSafe
<1>5. CASE accounting' = Append(accounting, Odd(at)) /\ UNCHANGED auth
  <2>1. accounting' \in Seq(Records)
    BY <1>3, <1>5 DEF LogSafe
  <2>2. ASSUME NEW k \in Lines PROVE Tracks(accounting', live[k], silent, k)
    BY <1>3, <1>5, OtherRecord DEF LogSafe
  <2> QED
    BY <1>2, <1>5, <2>1, <2>2 DEF LogSafe
<1> QED
  BY <1>1, <1>4, <1>5

LEMMA PassTimeKeeps == ASSUME LogSafe, PassTime PROVE LogSafe'
<1>1. clock' = clock + 1 /\ UNCHANGED <<access, auth, accounting, live, silent>>
  BY DEF PassTime
<1>2. \A i \in DOMAIN auth : auth[i].at # None => auth[i].at \in Nat
  BY TimesAreNumbers
<1>3. \A i \in DOMAIN auth' : auth'[i].at # None => auth'[i].at <= clock'
  BY <1>1, <1>2 DEF LogSafe
<1> QED
  BY <1>1, <1>3 DEF LogSafe

LEMMA LogNext == LogSafe /\ [NextLogs]_logVars => LogSafe'
<1>1. CASE UNCHANGED logVars
  BY <1>1 DEF logVars, LogSafe
<1> QED
  BY <1>1, RefusedLoginKeeps, LogInKeeps, RunKeeps, RunSplittingKeeps, LogoutKeeps, VanishKeeps, WriteOddKeeps,
     PassTimeKeeps DEF NextLogs

LEMMA LogsAreSafe == SpecLogs => []LogSafe
BY LogInit, LogNext, PTL DEF SpecLogs

-----------------------------------------------------------------------------
(* Sessions and the dashboard *)

LEMMA SessionsAreTrue == LogSafe => SessionsFollowTheLog
<1> SUFFICES ASSUME LogSafe, NEW l \in Lines
             PROVE  LET shown == SessionsOn(l).open
                        read  == live[l] # None /\ live[l].start > Len(accounting) - TailLimit
                    IN  /\ read => shown # None /\ shown.user = live[l].user /\ shown.run = live[l].run
                        /\ live[l] = None /\ l \notin silent => shown = None
                        /\ shown # None /\ live[l] # None =>
                             <<l, live[l].user>> \in RecentActivity(shown.start)
  BY DEF SessionsFollowTheLog
<1> DEFINE first == FirstRead(accounting)
           shown == SessionsOn(l).open
           login == live[l]
<1>1. Len(accounting) \in Nat /\ TailLimit \in Nat /\ first = Len(accounting) - TailLimit + 1 /\ first \in Int
  BY LogAssumption, LenProperties DEF LogSafe, FirstRead
<1>2. shown = ShownFrom(accounting, l, first).open
  BY DEF SessionsOn, ShownFrom
<1> HIDE DEF first, shown
<1>3. /\ login # None /\ first <= login.start =>
           /\ shown \in OpenSessions /\ shown.user = login.user /\ shown.run = login.run
           /\ shown.start = accounting[login.start].at
      /\ login # None /\ first > login.start => shown = None
      /\ login = None /\ l \notin silent => shown = None
  BY <1>1, <1>2 DEF LogSafe, Tracks
<1>4. login # None =>
        /\ login.start \in DOMAIN accounting /\ accounting[login.start].parsed /\ login.start \in Nat
        /\ accounting[login.start].line = l /\ accounting[login.start].user = login.user
  BY DEF LogSafe, Tracks, Logins
<1>5. None \notin OpenSessions
  BY LogAssumption DEF OpenSessions
<1>6. ASSUME shown # None, login # None PROVE <<l, login.user>> \in RecentActivity(shown.start)
  <2>1. first <= login.start
    BY <1>1, <1>3, <1>4, <1>6
  <2>2. shown.start = accounting[login.start].at /\ shown.start \in Nat
    BY <1>3, <1>6, <2>1 DEF OpenSessions
  <2>3. login.start \in ParsedIn(accounting)
    BY <1>4, <1>6, <2>1 DEF ParsedIn, Latest, first
  <2>4. login.start \in {j \in ParsedIn(accounting) : accounting[j].at >= shown.start}
    BY <2>2, <2>3
  <2> QED
    BY <1>4, <1>6, <2>4 DEF RecentActivity
<1>7. login # None /\ login.start > Len(accounting) - TailLimit =>
        shown # None /\ shown.user = login.user /\ shown.run = login.run
  BY <1>1, <1>3, <1>4, <1>5
<1> QED
  BY <1>3, <1>6, <1>7 DEF shown

\* Hours are whole, and a later time is in no earlier hour.
LEMMA HoursAreOrdered ==
  ASSUME NEW s \in Int, NEW t \in Int, s <= t
  PROVE  HourOf(s) \in Int /\ HourOf(s) <= HourOf(t) /\ HourOf(HourOf(s)) = HourOf(s)
<1>1. Hour \in Nat \ {0}
  BY LogAssumption
<1>2. \A n \in Int : n % Hour \in 0..(Hour - 1) /\ n \div Hour \in Int /\ n = Hour * (n \div Hour) + (n % Hour)
  BY <1>1
<1>3. PICK p \in Int : p = s \div Hour
  BY <1>2
<1>4. PICK q \in Int : q = t \div Hour
  BY <1>2
<1>5. HourOf(s) = Hour * p /\ HourOf(t) = Hour * q
  BY <1>1, <1>2, <1>3, <1>4 DEF HourOf
<1>6. p <= q
  <2> SUFFICES ASSUME p >= q + 1 PROVE FALSE
    OBVIOUS
  <2>1. PICK e \in Nat : p = q + 1 + e
    <3>1. p - q - 1 \in Nat
      OBVIOUS
    <3> QED
      BY <3>1
  <2>2. Hour * p = Hour * q + Hour + Hour * e /\ Hour * e >= 0
    BY <1>1, <2>1
  <2>3. s >= Hour * p /\ t < Hour * q + Hour
    BY <1>1, <1>2, <1>3, <1>4
  <2> QED
    BY <1>1, <2>2, <2>3
<1>7. Hour * p <= Hour * q
  <2>1. PICK e \in Nat : q = p + e
    <3>1. q - p \in Nat
      BY <1>6
    <3> QED
      BY <3>1
  <2>2. Hour * q = Hour * p + Hour * e /\ Hour * e >= 0
    BY <1>1, <2>1
  <2> QED
    BY <1>1, <2>2
<1>8. HourOf(Hour * p) = Hour * p
  <2> DEFINE n == Hour * p
             r == n % Hour
             d == n \div Hour
  <2>0. n \in Int
    BY <1>1
  <2>1. n \in Int /\ r \in 0..(Hour - 1) /\ d \in Int /\ n = Hour * d + r
    <3> HIDE DEF n
    <3> QED
      BY <1>2, <2>0
  <2>2. Hour * (p - d) = r
    BY <1>1, <2>1
  <2>3. p - d = 0
    <3>1. CASE p - d >= 1
      <4>1. PICK e \in Nat : p - d = 1 + e
        <5> HIDE DEF d
        <5>1. p - d - 1 \in Nat
          BY <2>1, <3>1
        <5> QED
          BY <2>1, <5>1
      <4>2. Hour * (1 + e) = Hour + Hour * e /\ Hour * e >= 0
        BY <1>1
      <4> QED
        BY <1>1, <2>1, <2>2, <4>1, <4>2
    <3>2. CASE p - d <= -1
      <4>1. PICK e \in Nat : p - d = -1 - e
        <5> HIDE DEF d
        <5>1. d - p - 1 \in Nat
          BY <2>1, <3>2
        <5> QED
          BY <2>1, <5>1
      <4>2. Hour * (-1 - e) = -Hour - Hour * e /\ Hour * e >= 0
        BY <1>1
      <4> QED
        BY <1>1, <2>1, <2>2, <4>1, <4>2
    <3> QED
      BY <2>1, <3>1, <3>2
  <2>4. r = 0
    BY <1>1, <2>2, <2>3
  <2> QED
    BY <1>1, <2>4 DEF HourOf
<1> QED
  BY <1>1, <1>5, <1>7, <1>8

LEMMA DashboardIsTheList ==
  ASSUME LogSafe PROVE ActivityWindow(CommandRecords) = Events("command", WindowStart)
<1>1. WindowStart \in Int
  BY LogAssumption DEF WindowStart, LogSafe
<1>2. \A i \in DOMAIN auth : auth[i].at # None => auth[i].at \in Nat /\ auth[i].at <= clock
  BY TimesAreNumbers
<1> QED
  BY <1>1, <1>2 DEF ActivityWindow, CommandRecords, Events, ParsedIn, Latest, LogSafe

LEMMA HoursAddUp ==
  ASSUME LogSafe
  PROVE  LET listed == Events("command", WindowStart)
         IN  SumFunction(HourlyActivity(listed)) = Cardinality(listed)
<1> DEFINE listed == Events("command", WindowStart)
           f == HourlyActivity(listed)
           h == [i \in listed |-> HourOf(auth[i].at)]
<1>1. WindowStart \in Int /\ clock \in Int
  BY LogAssumption DEF WindowStart, LogSafe
<1>2. IsFiniteSet(listed)
  <2>1. listed \in SUBSET DOMAIN auth /\ IsFiniteSet(DOMAIN auth)
    BY LenProperties, FS_Interval DEF Events, ParsedIn, Latest, LogSafe
  <2> QED
    BY <2>1, FS_Subset
<1>3. ASSUME NEW i \in listed PROVE h[i] \in Buckets
  <2>1. i \in DOMAIN auth /\ auth[i].at # None /\ WindowStart <= auth[i].at
    BY DEF Events, ParsedIn, Latest
  <2>2. auth[i].at \in Nat /\ auth[i].at <= clock
    BY <2>1, TimesAreNumbers
  <2>3. /\ HourOf(WindowStart) \in Int /\ HourOf(WindowStart) <= HourOf(auth[i].at)
        /\ HourOf(auth[i].at) \in Int /\ HourOf(auth[i].at) <= HourOf(clock)
        /\ HourOf(HourOf(auth[i].at)) = HourOf(auth[i].at) /\ HourOf(clock) \in Int
    BY <1>1, <2>1, <2>2, HoursAreOrdered
  <2> QED
    BY <2>3 DEF Buckets
<1>4. DOMAIN f = Buckets /\ \A b \in Buckets : f[b] = Cardinality({i \in listed : h[i] = b})
  <2>1. \A b : {i \in listed : h[i] = b} = {i \in listed : HourOf(auth[i].at) = b}
    OBVIOUS
  <2> QED
    BY <2>1 DEF HourlyActivity
<1>5. IsFiniteSet(Buckets)
  <2>1. HourOf(WindowStart) \in Int /\ HourOf(clock) \in Int
    BY <1>1, HoursAreOrdered
  <2>2. IsFiniteSet(HourOf(WindowStart)..HourOf(clock)) /\ Buckets \in SUBSET (HourOf(WindowStart)..HourOf(clock))
    BY <2>1, FS_Interval DEF Buckets
  <2> QED
    BY <2>2, FS_Subset
<1> HIDE DEF listed, f, h
<1>6. SumFunction(f) = Cardinality(listed)
  BY <1>2, <1>3, <1>4, <1>5, SumsByPart
<1> QED
  BY <1>6 DEF f, listed

LEMMA DashboardAgrees == LogSafe => DashboardAgreesWithEvents
<1> SUFFICES ASSUME LogSafe PROVE DashboardAgreesWithEvents
  OBVIOUS
<1> DEFINE listed == Events("command", WindowStart)
<1>1. Health = [stats |-> FailureStats(listed), hourly |-> HourlyActivity(listed)]
  BY DashboardIsTheList DEF Health
<1>2. /\ FailureStats(listed).total = Cardinality(listed)
      /\ FailureStats(listed).permit + Cardinality(Qualified(listed)) = Counts(listed)["success"]
      /\ FailureStats(listed).nonPermit = Counts(listed)["failure"] + Cardinality(Qualified(listed))
  <2>1. listed \in SUBSET DOMAIN auth /\ IsFiniteSet(listed)
    <3>1. listed \in SUBSET DOMAIN auth /\ IsFiniteSet(DOMAIN auth)
      BY LenProperties, FS_Interval DEF Events, ParsedIn, Latest, LogSafe
    <3> QED
      BY <3>1, FS_Subset
  <2> HIDE DEF listed
  <2> DEFINE plain == {i \in listed : auth[i].result = "permit"}
             other == {i \in listed : auth[i].result \notin {"", "permit"}}
             success == {i \in listed : LoginOutcome(auth[i]) = "success"}
             failure == {i \in listed : LoginOutcome(auth[i]) = "failure"}
             parted == Qualified(listed)
  <2>2. "" \notin Permits
    BY PermitAssumption
  <2>3. ASSUME NEW i \in listed, auth[i].result = "permit" PROVE "permit" \in Permits
    <3>1. auth[i] \in Records
      BY <2>1 DEF LogSafe
    <3>2. auth[i].result \in Decisions \cup {"", "failed", "succeeded"}
      BY <3>1 DEF Records
    <3> QED
      BY <2>3, <3>2, PermitAssumption
  <2>4. success = plain \cup parted /\ plain \cap parted = {}
    BY <2>2, <2>3 DEF LoginOutcome, Qualified
  <2>5. other = failure \cup parted /\ failure \cap parted = {}
    BY <2>2, <2>3 DEF LoginOutcome, Qualified
  <2>6. /\ IsFiniteSet(plain) /\ IsFiniteSet(failure) /\ IsFiniteSet(parted)
    <3>1. plain \in SUBSET listed /\ failure \in SUBSET listed /\ parted \in SUBSET listed
      BY DEF Qualified
    <3> QED
      BY <2>1, <3>1, FS_Subset
  <2> HIDE DEF plain, other, success, failure, parted
  <2>7. /\ Cardinality(success) = Cardinality(plain) + Cardinality(parted)
        /\ Cardinality(other) = Cardinality(failure) + Cardinality(parted)
    <3>1. Cardinality({}) = 0
      BY FS_EmptySet
    <3>2. /\ Cardinality(plain) \in Nat /\ Cardinality(parted) \in Nat /\ Cardinality(failure) \in Nat
      BY <2>6, FS_CardinalityType
    <3>3. Cardinality(success) = Cardinality(plain) + Cardinality(parted) - 0
      BY <2>4, <2>6, <3>1, FS_Union
    <3>4. Cardinality(other) = Cardinality(failure) + Cardinality(parted) - 0
      BY <2>5, <2>6, <3>1, FS_Union
    <3> QED
      BY <3>2, <3>3, <3>4
  <2>8. /\ FailureStats(listed).total = Cardinality(listed)
        /\ FailureStats(listed).permit = Cardinality(plain)
        /\ FailureStats(listed).nonPermit = Cardinality(other)
    BY DEF FailureStats, plain, other
  <2>9. /\ Counts(listed)["success"] = Cardinality(success)
        /\ Counts(listed)["failure"] = Cardinality(failure)
    BY DEF Counts, success, failure
  <2> QED
    BY <2>7, <2>8, <2>9 DEF parted
<1>3. SumFunction(HourlyActivity(listed)) = Cardinality(listed)
  BY HoursAddUp
<1>4. ASSUME Len(access) <= TailLimit PROVE Cardinality(Events("login", 0)) <= Authentications.success
  <2>1. Len(access) \in Nat /\ TailLimit \in Nat /\ DOMAIN access = 1..Len(access) /\ DOMAIN auth = 1..Len(auth)
    BY LogAssumption, LenProperties DEF LogSafe
  <2>2. {i \in ParsedIn(access) : access[i].result = "succeeded"} = Successes(access)
    BY <1>4, <2>1 DEF ParsedIn, Latest, FirstRead, Successes, LogSafe
  <2>3. Events("login", 0) \in SUBSET ShellDecisions(auth)
    BY DEF Events, ParsedIn, Latest, ShellDecisions
  <2>4. IsFiniteSet(ShellDecisions(auth)) /\ IsFiniteSet(Successes(access))
    <3>1. IsFiniteSet(DOMAIN auth) /\ IsFiniteSet(DOMAIN access)
      BY LenProperties, FS_Interval DEF LogSafe
    <3>2. ShellDecisions(auth) \in SUBSET DOMAIN auth /\ Successes(access) \in SUBSET DOMAIN access
      BY DEF ShellDecisions, Successes
    <3> QED
      BY <3>1, <3>2, FS_Subset
  <2>5. Cardinality(Events("login", 0)) \in Nat /\ Cardinality(Events("login", 0)) <= Cardinality(ShellDecisions(auth))
    BY <2>3, <2>4, FS_Subset, FS_CardinalityType
  <2>6. Cardinality(ShellDecisions(auth)) \in Nat /\ Cardinality(Successes(access)) \in Nat
    BY <2>4, FS_CardinalityType
  <2>7. Authentications.success = Cardinality(Successes(access))
    BY <2>2 DEF Authentications
  <2>8. Cardinality(ShellDecisions(auth)) <= Cardinality(Successes(access))
    BY DEF LogSafe
  <2> QED
    BY <2>5, <2>6, <2>7, <2>8
<1> HIDE DEF listed
<1>5. /\ Health.stats = FailureStats(listed) /\ Health.hourly = HourlyActivity(listed)
  BY <1>1
<1> QED
  BY <1>2, <1>3, <1>4, <1>5 DEF DashboardAgreesWithEvents, listed

\* The pages over the logs, for every set of lines, users and commands, any number of lines read
\* and hours shown, and any number of events at the devices.
THEOREM PagesAlwaysFollowTheLogs == SpecLogs => []PagesFollowTheLogs
<1>1. LogSafe => PagesFollowTheLogs
  BY SessionsAreTrue, DashboardAgrees DEF PagesFollowTheLogs
<1> QED
  BY <1>1, LogsAreSafe, PTL

-----------------------------------------------------------------------------
(* The checks of a device and the commands they recommend *)

\* The ports on which the trust of the two inspections disagrees.
Distrust(c) ==
  (On(c, "dai_trust") \cup On(c, "dhcp_trust")) \ (On(c, "dai_trust") \cap On(c, "dhcp_trust"))

\* What a configuration must lack or hold for a check to fail, check by check: first where ports
\* decide, then where the lines of the device do.
PortFails(n, c) ==
  CASE n = "L2PS-01" -> EdgePorts(c) \ Secured(c) # {}
    [] n = "L2PS-02" -> Secured(c) \cap On(c, "maximum_high") # {}
    [] n = "L2PS-03" -> NotSticky(c) # {}
    [] n = "L2PS-04" -> Secured(c) \cap On(c, "violation_protect") # {}
    [] n = "STP-02" -> On(c, "guard_root") = {}
    [] n = "STORM-01" -> AccessPorts(c) \ On(c, "storm-control") # {}
    [] n = "DHCPSNOOP-03" -> AccessPorts(c) \ (On(c, "dhcp_trust") \cup Rated(c)) # {}
    [] n = "DHCPSNOOP-04" -> (AccessPorts(c) \ On(c, "dhcp_trust")) \cap On(c, "dhcp_rate_high") # {}
    [] n = "DHCPSNOOP-05" -> ~ (Cardinality(On(c, "dhcp_trust")) <= TrustLimit(c))
    [] n = "DAI-02" -> Distrust(c) # {}
    [] n = "DAI-04" -> AccessPorts(c) \ (On(c, "dhcp_trust") \cup On(c, "arp_rate")) # {}
    [] n = "IPSG-01" -> AccessPorts(c) \ On(c, "verify_source") # {}
    [] n = "TRUNK-01" -> TrunkPorts(c) \ On(c, "native_vlan") # {}
    [] n = "TRUNK-02" -> TrunkPorts(c) \ On(c, "allowed_vlan") # {}
    [] n = "TRUNK-03" -> TrunkPorts(c) \ On(c, "nonegotiate") # {}
    [] n = "ECHAN-01" -> On(c, "channel-group_on") # {}
    [] n = "URPF-01" -> On(c, "urpf_strict") = {}
    [] n = "FHRP-HSRP-01" -> On(c, "hsrp") \ (On(c, "hsrp_text") \cup On(c, "hsrp_md5")) # {}
    [] n = "FHRP-HSRP-02" -> On(c, "hsrp") \cap On(c, "hsrp_text") # {}
    [] n = "FHRP-VRRP-01" -> On(c, "vrrp") \ On(c, "vrrp_authentication") # {}
    [] n = "ICMP-01" -> RoutedPorts(c) \ On(c, "no_redirects") # {}
    [] n = "ICMP-02" -> RoutedPorts(c) \ On(c, "no_proxy-arp") # {}
    [] n = "ICMP-03" -> RoutedPorts(c) \ On(c, "no_unreachables") # {}
    [] OTHER -> TRUE

Fails(n, c) ==
  CASE n = "AAA-01" -> "aaa_new-model" \notin c.lines
    [] n = "AAA-02" -> "login_group" \notin c.lines
    [] n = "AAA-03" -> "login_local" \notin c.lines
    [] n = "AAA-04" -> "authorization_commands" \notin c.lines
    [] n = "AAA-05" -> "authorization_config-commands" \notin c.lines
    [] n = "AAA-06" -> "accounting_commands" \notin c.lines
    [] n = "AAA-07" -> "accounting_exec" \notin c.lines
    [] n = "AAA-08" -> "max-fail" \notin c.lines
    [] n = "SSH-01" -> "ssh_version_2" \notin c.lines
    [] n = "SSH-05" -> "ssh_time-out" \notin c.lines
    [] n = "SSH-06" -> "ssh_retries" \notin c.lines
    [] n = "SSH-08" -> "ssh_algorithms" \notin c.lines
    [] n = "HTTP-02" -> "http_access-class" \notin c.lines
    [] n = "NTP-01" -> "ntp_authenticate" \notin c.lines
    [] n = "NTP-02" -> "ntp_key" \notin c.lines
    [] n = "NTP-03" -> "ntp_server" \notin c.lines
    [] n = "NTP-04" -> "ntp_access-group" \notin c.lines
    [] n = "LOG-01" -> "logging_host" \notin c.lines
    [] n = "LOG-02" -> "timestamps" \notin c.lines
    [] n = "LOG-03" -> "login_on-failure" \notin c.lines
    [] n = "LOG-04" -> "login_on-success" \notin c.lines
    [] n = "BAN-01" -> "banner" \notin c.lines
    [] n = "DNS-01" -> "name-server" \notin c.lines
    [] n = "PWD-01" -> "password-encryption" \notin c.lines
    [] n = "PWD-04" -> "min-length" \notin c.lines
    [] n = "STP-01" -> "bpduguard_default" \notin c.lines
    [] n = "STP-03" -> "loopguard_default" \notin c.lines
    [] n = "UDLD-01" -> "udld_aggressive" \notin c.lines
    [] n = "DHCPSNOOP-01" -> "dhcp_snooping" \notin c.lines
    [] n = "DHCPSNOOP-02" -> "dhcp_snooping_vlan" \notin c.lines
    [] n = "DAI-01" -> "arp_inspection_vlan" \notin c.lines
    [] n = "DAI-03" -> "arp_validate" \notin c.lines
    [] n = "DAI-05" -> "device-tracking" \notin c.lines
    [] n = "VTP-01" -> "vtp_transparent" \notin c.lines
    [] n = "RTAUTH-OSPF-01" -> "ospf_authentication" \notin c.lines
    [] n = "RTAUTH-OSPF-02" -> "passive-interface_default" \notin c.lines
    [] n = "RTAUTH-EIGRP-01" -> "eigrp_authentication" \notin c.lines
    [] n = "RTAUTH-RIP-01" -> "rip_authentication" \notin c.lines
    [] n = "RTAUTH-BGP-02" -> "bgp_ttl-security" \notin c.lines
    [] n = "RTAUTH-BGP-03" -> "bgp_maximum-prefix" \notin c.lines
    [] n = "ICMP-04" -> "no_source-route" \notin c.lines
    [] n = "COPP-01" -> "copp" \notin c.lines
    [] n = "COPP-CLASS-ICMP" -> "copp_icmp" \notin c.lines
    [] n = "COPP-CLASS-ROUTING" -> "copp_routing" \notin c.lines
    [] n = "COPP-CLASS-ARP" -> "copp_arp" \notin c.lines
    [] n = "COPP-CLASS-L2CTRL" -> "copp_l2ctrl" \notin c.lines
    [] n = "COPP-CLASS-MGMT" -> "copp_mgmt" \notin c.lines
    [] n = "COPP-CLASS-DHCP" -> "copp_dhcp" \notin c.lines
    [] n = "COPP-CLASS-FHRP" -> "copp_fhrp" \notin c.lines
    [] n = "COPP-CLASS-MCAST" -> "copp_mcast" \notin c.lines
    [] n = "ZBFW-01" -> "zone-pair" \notin c.lines
    [] n = "ZBFW-02" -> "inspect_policy" \notin c.lines
    [] n = "ZBFW-03" -> "inspect_applied" \notin c.lines
    [] n = "ZBFW-04" -> "self_zone-pair" \notin c.lines
    [] n = "PHYS-01" -> "no_password-recovery" \notin c.lines
    [] n = "BOOT-01" -> "boot_system" \notin c.lines
    [] n = "SVC-08" -> "no_vstack" \notin c.lines
    [] n = "MISC-01" -> "errdisable_recovery" \notin c.lines
    [] n = "MISC-05" -> "management_vrf" \notin c.lines
    [] n = "AAA-09" -> "weak_server_key" \in c.lines \/ "legacy_server_key" \in c.lines
    [] n = "AAA-10" -> "enable_password" \in c.lines
    [] n = "AAA-11" -> "enable_secret_5" \in c.lines
    [] n = "USR-01" -> "user_type_7" \in c.lines
    [] n = "USR-02" -> "generic_user" \in c.lines
    [] n = "SSH-02" -> "vty_telnet" \in c.lines
    [] n = "SSH-03" -> "vty_open" \in c.lines
    [] n = "SSH-04" -> "vty_endless" \in c.lines
    [] n = "HTTP-01" -> "http_server" \in c.lines
    [] n = "SNMP-01" -> "default_community" \in c.lines
    [] n = "SNMP-02" -> "default_community" \in c.lines \/ "community" \in c.lines
    [] n = "SNMP-03" -> "v3_noauth_user" \in c.lines
    [] n = "EXP-RESTCONF" -> "restconf" \in c.lines
    [] n = "EXP-NETCONF" -> "netconf" \in c.lines
    [] n = "EXP-GNMI" -> "gnmi" \in c.lines
    [] n = "EXP-IOX" -> "iox" \in c.lines
    [] n = "EXP-TFTP" -> "tftp-server" \in c.lines
    [] n = "EXP-FTP" -> "ftp-server" \in c.lines
    [] n = "EXP-SCP" -> "scp_server" \in c.lines
    [] n = "PWD-02" -> \/ "user_type_7" \in c.lines \/ "type_7_key" \in c.lines
                       \/ "line_password_7" \in c.lines
    [] n = "PWD-03" -> "enable_secret_5" \in c.lines
    [] n = "RTAUTH-BGP-01" -> "bgp_peer_open" \in c.lines
    [] n = "ACL-01" -> "orphan_acl" \in c.lines
    [] n = "ACL-02" -> "permit_ip_any_any" \in c.lines
    [] n = "ACL-03" -> "duplicate_entry" \in c.lines
    [] n = "TRACK-01" -> "broken_track" \in c.lines
    [] n = "TRACK-02" -> "unused_track" \in c.lines
    [] n = "CPURISK-02" -> "many_applets" \in c.lines
    [] n = "CPURISK-03" -> "destructive_applet" \in c.lines
    [] n = "CPURISK-04" -> "ip_accounting" \in c.lines
    [] n = "CPURISK-05" -> "large_acl" \in c.lines
    [] n = "CPURISK-06" -> "debug" \in c.lines
    [] n = "VPN-01" -> "weak_proposal" \in c.lines
    [] n = "VPN-02" -> "no_dpd" \in c.lines
    [] n = "VPN-03" -> "weak_transform" \in c.lines
    [] n = "VPN-04" -> "no_pfs" \in c.lines
    [] n = "VPN-05" -> "reused_psk" \in c.lines
    [] n = "PKI-01" -> "revocation_none" \in c.lines
    [] n = "PKI-02" -> "revocation_unset" \in c.lines
    [] n = "PKI-04" -> "no_enrollment" \in c.lines
    [] n = "PKI-05" -> "weak_hash" \in c.lines
    [] n = "PKI-06" -> "weak_key" \in c.lines
    [] n = "PHYS-02" -> "console_endless" \in c.lines \/ "console_unbounded" \in c.lines
    [] n = "BOOT-03" -> "boot_usb" \in c.lines
    [] n = "SVC-01" -> "tcp-small-servers" \in c.lines
    [] n = "SVC-02" -> "udp-small-servers" \in c.lines
    [] n = "SVC-03" -> "bootp_server" \in c.lines
    [] n = "SVC-04" -> "finger" \in c.lines
    [] n = "SVC-05" -> "identd" \in c.lines
    [] n = "SVC-06" -> "service_config" \in c.lines
    [] n = "SVC-07" -> "pad" \in c.lines
    [] OTHER -> PortFails(n, c)

\* The check fails before its fix and not after it.
Cures(n, c, d) == Fails(n, c) /\ ~ Fails(n, d)
Gains(s, c, d) == s \notin c.lines /\ s \in d.lines
Loses(s, c, d) == s \in c.lines /\ s \notin d.lines
LosesAll(S, c, d) == Has(c, S) /\ ~ Has(d, S)

LEMMA LinesAre ==
  ASSUME NEW c, NEW drop, NEW add
  PROVE  /\ \A s \in add : s \notin c.lines => Gains(s, c, WithFix(c, LineFix(drop, add)))
         /\ \A s \in drop \ add : s \notin WithFix(c, LineFix(drop, add)).lines
         /\ \A s \in drop \ add : s \in c.lines => Loses(s, c, WithFix(c, LineFix(drop, add)))
         /\ Has(c, drop) /\ drop \cap add = {} => LosesAll(drop, c, WithFix(c, LineFix(drop, add)))
<1>1. WithFix(c, LineFix(drop, add)).lines = (c.lines \ drop) \cup add
  BY DEF WithFix, LineFix, Repaired
<1> QED
  BY <1>1 DEF Gains, Loses, LosesAll, Has

LEMMA RequiredIs ==
  ASSUME NEW c, NEW rows, NEW f \in Required(c, rows), f.status = "fail"
  PROVE  \E r \in rows : f.check = r[1] /\ Gains(r[3], c, WithFix(c, f.fix))
<1>1. PICK r \in rows : f = Fixable(r[1], Verdict(r[3] \in c.lines), r[2], LineFix({}, {r[3]}))
  BY DEF Required
<1>2. f.check = r[1] /\ f.status = Verdict(r[3] \in c.lines) /\ f.fix = LineFix({}, {r[3]})
  BY <1>1 DEF Fixable
<1> QED
  BY <1>2, LinesAre DEF Verdict

LEMMA ForbiddenIs ==
  ASSUME NEW c, NEW rows, NEW f \in Forbidden(c, rows), f.status = "fail"
  PROVE  \E r \in rows : f.check = r[1] /\ Loses(r[3], c, WithFix(c, f.fix))
<1>1. PICK r \in rows : f = Fixable(r[1], Verdict(r[3] \notin c.lines), r[2], LineFix({r[3]}, {}))
  BY DEF Forbidden
<1>2. f.check = r[1] /\ f.status = Verdict(r[3] \notin c.lines) /\ f.fix = LineFix({r[3]}, {})
  BY <1>1 DEF Fixable
<1> QED
  BY <1>2, LinesAre DEF Verdict

LEMMA StanzaIs ==
  ASSUME NEW c, NEW check, NEW severity, NEW applies, NEW defect, NEW add, defect \notin add,
         NEW f \in Stanza(c, check, severity, applies, defect, add), f.status = "fail"
  PROVE  f.check = check /\ Loses(defect, c, WithFix(c, f.fix))
BY LinesAre DEF Stanza, Fixable, Unless

LEMMA FixableIs ==
  ASSUME NEW check, NEW status, NEW severity, NEW fix, NEW f, f = Fixable(check, status, severity, fix)
  PROVE  f.check = check /\ f.status = status /\ f.fix = fix
BY DEF Fixable

LEMMA OnlyIs ==
  ASSUME NEW condition, NEW S, NEW f \in Only(condition, S) PROVE f \in S
BY DEF Only

-----------------------------------------------------------------------------
(* The checks that read the lines of the device *)

\* The fix cures the check, or leaves behind what the check finds elsewhere.
Treats(n, c, d) == Fails(n, c) /\ (n \in Unhelpful(d) \/ ~ Fails(n, d))

LEMMA AaaTreated ==
  ASSUME NEW c, NEW f \in AaaChecks(c), f.status = "fail", NEW n, n = f.check,
         NEW d, d = WithFix(c, f.fix)
  PROVE  Treats(n, c, d)
<1>1. \/ n = "AAA-01" /\ Gains("aaa_new-model", c, d)
      \/ n = "AAA-02" /\ Gains("login_group", c, d)
      \/ n = "AAA-03" /\ Gains("login_local", c, d)
      \/ n = "AAA-04" /\ Gains("authorization_commands", c, d)
      \/ n = "AAA-05" /\ Gains("authorization_config-commands", c, d)
      \/ n = "AAA-06" /\ Gains("accounting_commands", c, d)
      \/ n = "AAA-07" /\ Gains("accounting_exec", c, d)
      \/ n = "AAA-08" /\ Gains("max-fail", c, d)
      \/ n = "AAA-09" /\ Has(c, {"weak_server_key", "legacy_server_key"}) /\ "weak_server_key" \notin d.lines
      \/ n = "AAA-10" /\ Loses("enable_password", c, d)
      \/ n = "AAA-11" /\ Loses("enable_secret_5", c, d)
  BY RequiredIs, OnlyIs, LinesAre DEF AaaChecks, SecretNine, Fixable, Verdict
<1>2. Fails(n, c)
  BY <1>1, ZenonT(60) DEF Gains, Loses, Has, Fails
<1>3. (n = "AAA-09" /\ "legacy_server_key" \in d.lines) \/ ~ Fails(n, d)
  BY <1>1, ZenonT(60) DEF Gains, Loses, Fails
<1>4. n = "AAA-09" /\ "legacy_server_key" \in d.lines => n \in Unhelpful(d)
  BY DEF Unhelpful, Only
<1> QED
  BY <1>2, <1>3, <1>4 DEF Treats

LEMMA UserCured ==
  ASSUME NEW c, NEW f \in UserChecks(c), f.status = "fail", NEW n, n = f.check,
         NEW d, d = WithFix(c, f.fix)
  PROVE  Cures(n, c, d)
<1>1. \/ n = "USR-01" /\ Loses("user_type_7", c, d)
      \/ n = "USR-02" /\ Loses("generic_user", c, d)
  BY StanzaIs DEF UserChecks, Judge, Fixable
<1>2. Fails(n, c)
  BY <1>1, ZenonT(60) DEF Loses, Fails
<1>3. ~ Fails(n, d)
  BY <1>1, ZenonT(60) DEF Loses, Fails
<1> QED
  BY <1>2, <1>3 DEF Cures

LEMMA SshCured ==
  ASSUME NEW c, NEW f \in SshChecks(c), f.status = "fail", NEW n, n = f.check,
         NEW d, d = WithFix(c, f.fix)
  PROVE  Cures(n, c, d)
<1>1. \/ n = "SSH-01" /\ Gains("ssh_version_2", c, d)
      \/ n = "SSH-05" /\ Gains("ssh_time-out", c, d)
      \/ n = "SSH-06" /\ Gains("ssh_retries", c, d)
      \/ n = "SSH-08" /\ Gains("ssh_algorithms", c, d)
      \/ n = "SSH-02" /\ Loses("vty_telnet", c, d)
      \/ n = "SSH-03" /\ Loses("vty_open", c, d)
      \/ n = "SSH-04" /\ Loses("vty_endless", c, d)
  BY RequiredIs, ForbiddenIs, StanzaIs DEF SshChecks, Judge, Fixable
<1>2. Fails(n, c)
  BY <1>1, ZenonT(60) DEF Gains, Loses, Fails
<1>3. ~ Fails(n, d)
  BY <1>1, ZenonT(60) DEF Gains, Loses, Fails
<1> QED
  BY <1>2, <1>3 DEF Cures

LEMMA HttpCured ==
  ASSUME NEW c, NEW f \in HttpChecks(c), f.status = "fail", NEW n, n = f.check,
         NEW d, d = WithFix(c, f.fix)
  PROVE  Cures(n, c, d)
<1>1. \/ n = "HTTP-02" /\ Gains("http_access-class", c, d)
      \/ n = "HTTP-01" /\ Loses("http_server", c, d)
  BY RequiredIs, OnlyIs, LinesAre DEF HttpChecks, Fixable, Verdict
<1>2. Fails(n, c)
  BY <1>1, ZenonT(60) DEF Gains, Loses, Fails
<1>3. ~ Fails(n, d)
  BY <1>1, ZenonT(60) DEF Gains, Loses, Fails
<1> QED
  BY <1>2, <1>3 DEF Cures

LEMMA SnmpCured ==
  ASSUME NEW c, NEW f \in SnmpChecks(c), f.status = "fail", NEW n, n = f.check,
         NEW d, d = WithFix(c, f.fix)
  PROVE  Cures(n, c, d)
<1>1. \/ n = "SNMP-01" /\ Loses("default_community", c, d)
      \/ n = "SNMP-02" /\ LosesAll({"default_community", "community"}, c, d)
      \/ n = "SNMP-03" /\ Loses("v3_noauth_user", c, d)
  BY ForbiddenIs, StanzaIs, LinesAre DEF SnmpChecks, Judge, Fixable, Unless
<1>2. Fails(n, c)
  BY <1>1, ZenonT(60) DEF Loses, LosesAll, Has, Fails
<1>3. ~ Fails(n, d)
  BY <1>1, ZenonT(60) DEF Loses, LosesAll, Has, Fails
<1> QED
  BY <1>2, <1>3 DEF Cures

LEMMA NtpCured ==
  ASSUME NEW c, NEW f \in NtpChecks(c), f.status = "fail", NEW n, n = f.check,
         NEW d, d = WithFix(c, f.fix)
  PROVE  Cures(n, c, d)
<1>1. \/ n = "NTP-01" /\ Gains("ntp_authenticate", c, d)
      \/ n = "NTP-02" /\ Gains("ntp_key", c, d)
      \/ n = "NTP-03" /\ Gains("ntp_server", c, d)
      \/ n = "NTP-04" /\ Gains("ntp_access-group", c, d)
  BY RequiredIs, LinesAre DEF NtpChecks, Fixable, Verdict
<1>2. Fails(n, c)
  BY <1>1, ZenonT(60) DEF Gains, Fails
<1>3. ~ Fails(n, d)
  BY <1>1, ZenonT(60) DEF Gains, Fails
<1> QED
  BY <1>2, <1>3 DEF Cures

LEMMA LoggingCured ==
  ASSUME NEW c, NEW f \in LoggingChecks(c), f.status = "fail", NEW n, n = f.check,
         NEW d, d = WithFix(c, f.fix)
  PROVE  Cures(n, c, d)
<1>1. \/ n = "LOG-01" /\ Gains("logging_host", c, d)
      \/ n = "LOG-02" /\ Gains("timestamps", c, d)
      \/ n = "LOG-03" /\ Gains("login_on-failure", c, d)
      \/ n = "LOG-04" /\ Gains("login_on-success", c, d)
  BY RequiredIs DEF LoggingChecks
<1>2. Fails(n, c)
  BY <1>1, ZenonT(60) DEF Gains, Fails
<1>3. ~ Fails(n, d)
  BY <1>1, ZenonT(60) DEF Gains, Fails
<1> QED
  BY <1>2, <1>3 DEF Cures

LEMMA BannerCured ==
  ASSUME NEW c, NEW f \in BannerChecks(c), f.status = "fail", NEW n, n = f.check,
         NEW d, d = WithFix(c, f.fix)
  PROVE  Cures(n, c, d)
<1>1. n = "BAN-01" /\ Gains("banner", c, d)
  BY RequiredIs DEF BannerChecks
<1>2. Fails(n, c)
  BY <1>1, ZenonT(60) DEF Gains, Fails
<1>3. ~ Fails(n, d)
  BY <1>1, ZenonT(60) DEF Gains, Fails
<1> QED
  BY <1>2, <1>3 DEF Cures

LEMMA DnsCured ==
  ASSUME NEW c, NEW f \in DnsChecks(c), f.status = "fail", NEW n, n = f.check,
         NEW d, d = WithFix(c, f.fix)
  PROVE  Cures(n, c, d)
<1>1. n = "DNS-01" /\ Gains("name-server", c, d)
  BY LinesAre DEF DnsChecks, Judge, Fixable
<1>2. Fails(n, c)
  BY <1>1, ZenonT(60) DEF Gains, Fails
<1>3. ~ Fails(n, d)
  BY <1>1, ZenonT(60) DEF Gains, Fails
<1> QED
  BY <1>2, <1>3 DEF Cures

LEMMA ExposureCured ==
  ASSUME NEW c, NEW f \in ExposureChecks(c), f.status = "fail", NEW n, n = f.check,
         NEW d, d = WithFix(c, f.fix)
  PROVE  Cures(n, c, d)
<1>1. \/ n = "EXP-RESTCONF" /\ Loses("restconf", c, d)
      \/ n = "EXP-NETCONF" /\ Loses("netconf", c, d)
      \/ n = "EXP-GNMI" /\ Loses("gnmi", c, d)
      \/ n = "EXP-IOX" /\ Loses("iox", c, d)
      \/ n = "EXP-TFTP" /\ Loses("tftp-server", c, d)
      \/ n = "EXP-FTP" /\ Loses("ftp-server", c, d)
      \/ n = "EXP-SCP" /\ Loses("scp_server", c, d)
  BY LinesAre DEF ExposureChecks, Judge, Fixable
<1>2. Fails(n, c)
  BY <1>1, ZenonT(60) DEF Loses, Fails
<1>3. ~ Fails(n, d)
  BY <1>1, ZenonT(60) DEF Loses, Fails
<1> QED
  BY <1>2, <1>3 DEF Cures

LEMMA PasswordTreated ==
  ASSUME NEW c, NEW f \in PasswordChecks(c), f.status = "fail", NEW n, n = f.check,
         NEW d, d = WithFix(c, f.fix)
  PROVE  Treats(n, c, d)
<1>1. \/ n = "PWD-01" /\ Gains("password-encryption", c, d)
      \/ n = "PWD-04" /\ Gains("min-length", c, d)
      \/ /\ n = "PWD-02" /\ Has(c, {"user_type_7", "type_7_key", "line_password_7"})
         /\ "user_type_7" \notin d.lines /\ "type_7_key" \notin d.lines
      \/ n = "PWD-03" /\ Loses("enable_secret_5", c, d)
  BY RequiredIs, LinesAre DEF PasswordChecks, SecretNine, Fixable, Verdict
<1>2. Fails(n, c)
  BY <1>1, ZenonT(60) DEF Gains, Loses, Has, Fails
<1>3. (n = "PWD-02" /\ "line_password_7" \in d.lines) \/ ~ Fails(n, d)
  BY <1>1, ZenonT(60) DEF Gains, Loses, Fails
<1>4. n = "PWD-02" /\ "line_password_7" \in d.lines => n \in Unhelpful(d)
  BY DEF Unhelpful, Only
<1> QED
  BY <1>2, <1>3, <1>4 DEF Treats

LEMMA UdldCured ==
  ASSUME NEW c, NEW f \in UdldChecks(c), f.status = "fail", NEW n, n = f.check,
         NEW d, d = WithFix(c, f.fix)
  PROVE  Cures(n, c, d)
<1>1. n = "UDLD-01" /\ Gains("udld_aggressive", c, d)
  BY LinesAre DEF UdldChecks, Somewhere, Fixable, Verdict
<1>2. Fails(n, c)
  BY <1>1, ZenonT(60) DEF Gains, Fails
<1>3. ~ Fails(n, d)
  BY <1>1, ZenonT(60) DEF Gains, Fails
<1> QED
  BY <1>2, <1>3 DEF Cures

LEMMA AclCured ==
  ASSUME NEW c, NEW f \in AclChecks(c), f.status = "fail", NEW n, n = f.check,
         NEW d, d = WithFix(c, f.fix)
  PROVE  Cures(n, c, d)
<1>1. \/ n = "ACL-01" /\ Loses("orphan_acl", c, d)
      \/ n = "ACL-02" /\ Loses("permit_ip_any_any", c, d)
      \/ n = "ACL-03" /\ Loses("duplicate_entry", c, d)
  BY ForbiddenIs DEF AclChecks, Judge, Fixable
<1>2. Fails(n, c)
  BY <1>1, ZenonT(60) DEF Loses, Fails
<1>3. ~ Fails(n, d)
  BY <1>1, ZenonT(60) DEF Loses, Fails
<1> QED
  BY <1>2, <1>3 DEF Cures

LEMMA TrackCured ==
  ASSUME NEW c, NEW f \in TrackChecks(c), f.status = "fail", NEW n, n = f.check,
         NEW d, d = WithFix(c, f.fix)
  PROVE  Cures(n, c, d)
<1>1. \/ n = "TRACK-01" /\ Loses("broken_track", c, d)
      \/ n = "TRACK-02" /\ Loses("unused_track", c, d)
  BY ForbiddenIs DEF TrackChecks, Judge, Fixable
<1>2. Fails(n, c)
  BY <1>1, ZenonT(60) DEF Loses, Fails
<1>3. ~ Fails(n, d)
  BY <1>1, ZenonT(60) DEF Loses, Fails
<1> QED
  BY <1>2, <1>3 DEF Cures

LEMMA VpnCured ==
  ASSUME NEW c, NEW f \in VpnChecks(c), f.status = "fail", NEW n, n = f.check,
         NEW d, d = WithFix(c, f.fix)
  PROVE  Cures(n, c, d)
<1>1. \/ n = "VPN-01" /\ Loses("weak_proposal", c, d)
      \/ n = "VPN-02" /\ Loses("no_dpd", c, d)
      \/ n = "VPN-03" /\ Loses("weak_transform", c, d)
      \/ n = "VPN-04" /\ Loses("no_pfs", c, d)
      \/ n = "VPN-05" /\ Loses("reused_psk", c, d)
  BY StanzaIs, LinesAre DEF VpnChecks, Judge, Fixable
<1>2. Fails(n, c)
  BY <1>1, ZenonT(60) DEF Loses, Fails
<1>3. ~ Fails(n, d)
  BY <1>1, ZenonT(60) DEF Loses, Fails
<1> QED
  BY <1>2, <1>3 DEF Cures

LEMMA ZoneCured ==
  ASSUME NEW c, NEW f \in ZoneChecks(c), f.status = "fail", NEW n, n = f.check,
         NEW d, d = WithFix(c, f.fix)
  PROVE  Cures(n, c, d)
<1>1. \/ n = "ZBFW-01" /\ Gains("zone-pair", c, d)
      \/ n = "ZBFW-02" /\ Gains("inspect_policy", c, d)
      \/ n = "ZBFW-03" /\ Gains("inspect_applied", c, d)
      \/ n = "ZBFW-04" /\ Gains("self_zone-pair", c, d)
  BY RequiredIs, LinesAre DEF ZoneChecks, Fixable, Verdict, Judge
<1>2. Fails(n, c)
  BY <1>1, ZenonT(60) DEF Gains, Fails
<1>3. ~ Fails(n, d)
  BY <1>1, ZenonT(60) DEF Gains, Fails
<1> QED
  BY <1>2, <1>3 DEF Cures

LEMMA PkiCured ==
  ASSUME NEW c, NEW f \in PkiChecks(c), f.status = "fail", NEW n, n = f.check,
         NEW d, d = WithFix(c, f.fix)
  PROVE  Cures(n, c, d)
<1>1. \/ n = "PKI-01" /\ Loses("revocation_none", c, d)
      \/ n = "PKI-02" /\ Loses("revocation_unset", c, d)
      \/ n = "PKI-04" /\ Loses("no_enrollment", c, d)
      \/ n = "PKI-05" /\ Loses("weak_hash", c, d)
      \/ n = "PKI-06" /\ Loses("weak_key", c, d)
  BY ForbiddenIs DEF PkiChecks, Judge, Fixable
<1>2. Fails(n, c)
  BY <1>1, ZenonT(60) DEF Loses, Fails
<1>3. ~ Fails(n, d)
  BY <1>1, ZenonT(60) DEF Loses, Fails
<1> QED
  BY <1>2, <1>3 DEF Cures

LEMMA PhysicalCured ==
  ASSUME NEW c, NEW f \in PhysicalChecks(c), f.status = "fail", NEW n, n = f.check,
         NEW d, d = WithFix(c, f.fix)
  PROVE  Cures(n, c, d)
<1>1. \/ n = "PHYS-01" /\ Gains("no_password-recovery", c, d)
      \/ n = "PHYS-02" /\ LosesAll({"console_endless", "console_unbounded"}, c, d)
  BY RequiredIs, OnlyIs, LinesAre DEF PhysicalChecks, Fixable, Verdict, Judge
<1>2. Fails(n, c)
  BY <1>1, ZenonT(60) DEF Gains, LosesAll, Has, Fails
<1>3. ~ Fails(n, d)
  BY <1>1, ZenonT(60) DEF Gains, LosesAll, Has, Fails
<1> QED
  BY <1>2, <1>3 DEF Cures

LEMMA ServiceCured ==
  ASSUME NEW c, NEW f \in ServiceChecks(c), f.status = "fail", NEW n, n = f.check,
         NEW d, d = WithFix(c, f.fix)
  PROVE  Cures(n, c, d)
<1>1. \/ n = "SVC-08" /\ Gains("no_vstack", c, d)
      \/ n = "SVC-01" /\ Loses("tcp-small-servers", c, d)
      \/ n = "SVC-02" /\ Loses("udp-small-servers", c, d)
      \/ n = "SVC-03" /\ Loses("bootp_server", c, d)
      \/ n = "SVC-04" /\ Loses("finger", c, d)
      \/ n = "SVC-05" /\ Loses("identd", c, d)
      \/ n = "SVC-06" /\ Loses("service_config", c, d)
      \/ n = "SVC-07" /\ Loses("pad", c, d)
  BY ForbiddenIs, LinesAre DEF ServiceChecks, Judge, Fixable
<1>2. Fails(n, c)
  BY <1>1, ZenonT(60) DEF Gains, Loses, Fails
<1>3. ~ Fails(n, d)
  BY <1>1, ZenonT(60) DEF Gains, Loses, Fails
<1> QED
  BY <1>2, <1>3 DEF Cures

LEMMA MiscCured ==
  ASSUME NEW c, NEW f \in MiscChecks(c), f.status = "fail", NEW n, n = f.check,
         NEW d, d = WithFix(c, f.fix)
  PROVE  Cures(n, c, d)
<1>1. \/ n = "MISC-01" /\ Gains("errdisable_recovery", c, d)
      \/ n = "MISC-05" /\ Gains("management_vrf", c, d)
  BY RequiredIs DEF MiscChecks, Judge, Fixable
<1>2. Fails(n, c)
  BY <1>1, ZenonT(60) DEF Gains, Fails
<1>3. ~ Fails(n, d)
  BY <1>1, ZenonT(60) DEF Gains, Fails
<1> QED
  BY <1>2, <1>3 DEF Cures

-----------------------------------------------------------------------------
(* The checks that read the ports *)

\* What a fix of ports leaves on each of them.
LEMMA PortsAre ==
  ASSUME NEW c, NEW ps, NEW drop, NEW add, NEW d, d = WithFix(c, PortFix(ps, drop, add))
  PROVE  /\ DOMAIN d.ports = DOMAIN c.ports
         /\ \A p \in DOMAIN c.ports : p \in ps => d.ports[p] = (c.ports[p] \ drop) \cup add
         /\ \A p \in DOMAIN c.ports : p \notin ps => d.ports[p] = c.ports[p]
BY DEF WithFix, PortFix, Repaired

LEMMA StatementsAre ==
  ASSUME NEW c, NEW ps, NEW drop, NEW add, NEW s, NEW d, d = WithFix(c, PortFix(ps, drop, add))
  PROVE  /\ s \in add => On(d, s) = On(c, s) \cup (ps \cap DOMAIN c.ports)
         /\ s \in drop \ add => On(d, s) = On(c, s) \ ps
         /\ s \notin drop \cup add => On(d, s) = On(c, s)
<1>1. DOMAIN d.ports = DOMAIN c.ports
  BY PortsAre
<1>2. ASSUME NEW p \in DOMAIN c.ports
      PROVE  /\ p \notin ps => d.ports[p] = c.ports[p]
             /\ p \in ps => d.ports[p] = (c.ports[p] \ drop) \cup add
  BY PortsAre
<1>3. ASSUME NEW p \in DOMAIN c.ports
      PROVE  /\ p \notin ps => (s \in d.ports[p] <=> s \in c.ports[p])
             /\ p \in ps => (s \in d.ports[p] <=> (s \in add \/ (s \in c.ports[p] /\ s \notin drop)))
  BY <1>2
<1> QED
  BY <1>1, <1>3 DEF On

LEMMA PortsOf ==
  ASSUME NEW c
  PROVE  /\ \A s : On(c, s) \subseteq DOMAIN c.ports
         /\ AccessPorts(c) \subseteq DOMAIN c.ports /\ EdgePorts(c) \subseteq AccessPorts(c)
         /\ Secured(c) \subseteq EdgePorts(c) /\ TrunkPorts(c) \subseteq DOMAIN c.ports
         /\ RoutedPorts(c) \subseteq DOMAIN c.ports /\ Uplinks(c) \subseteq DOMAIN c.ports
BY DEF On, AccessPorts, EdgePorts, Secured, TrunkPorts, RoutedPorts, Uplinks

\* The ports keep their kinds where a fix leaves the statements alone that tell the kinds apart, or
\* adds one that says what the port was already.
LEMMA KindsStay ==
  ASSUME NEW c, NEW ps, NEW drop, NEW add,
         NEW d, d = WithFix(c, PortFix(ps, drop, add)),
         {"switchport_mode_trunk", "no_switchport", "description_uplink", "ip_address"} \cap (drop \cup add) = {},
         \/ Switchport \cap (drop \cup add) = {}
         \/ ps \subseteq AccessPorts(c) /\ Switchport \cap add # {}
  PROVE  /\ TrunkPorts(d) = TrunkPorts(c) /\ AccessPorts(d) = AccessPorts(c)
         /\ Uplinks(d) = Uplinks(c) /\ EdgePorts(d) = EdgePorts(c) /\ RoutedPorts(d) = RoutedPorts(c)
<1>1. \A s \in {"switchport_mode_trunk", "no_switchport", "description_uplink", "ip_address"} :
         On(d, s) = On(c, s)
  BY StatementsAre
<1>2. TrunkPorts(d) = TrunkPorts(c) /\ Uplinks(d) = Uplinks(c) /\ RoutedPorts(d) = RoutedPorts(c)
  BY <1>1 DEF TrunkPorts, Uplinks, RoutedPorts
<1>3. ASSUME NEW p \in DOMAIN c.ports
      PROVE  /\ d.ports[p] = c.ports[p] \/ (p \in ps /\ d.ports[p] = (c.ports[p] \ drop) \cup add)
             /\ ("no_switchport" \in d.ports[p]) <=> ("no_switchport" \in c.ports[p])
  <2>1. /\ p \in ps => d.ports[p] = (c.ports[p] \ drop) \cup add
        /\ p \notin ps => d.ports[p] = c.ports[p]
    BY PortsAre
  <2> QED
    BY <2>1
<1>4. DOMAIN d.ports = DOMAIN c.ports
  BY PortsAre
<1>5. AccessPorts(d) = AccessPorts(c)
  <2>1. ASSUME NEW p \in DOMAIN c.ports \ TrunkPorts(c), "no_switchport" \notin c.ports[p]
        PROVE  (d.ports[p] \cap Switchport # {}) <=> (c.ports[p] \cap Switchport # {})
    <3>1. CASE d.ports[p] = c.ports[p]
      BY <3>1
    <3>2. CASE p \in ps /\ d.ports[p] = (c.ports[p] \ drop) \cup add /\ Switchport \cap (drop \cup add) = {}
      BY <3>2
    <3>3. CASE /\ p \in ps /\ d.ports[p] = (c.ports[p] \ drop) \cup add
               /\ ps \subseteq AccessPorts(c) /\ Switchport \cap add # {}
      BY <3>3 DEF AccessPorts
    <3> QED
      BY <1>3, <2>1, <3>1, <3>2, <3>3
  <2> QED
    BY <1>2, <1>3, <1>4, <2>1 DEF AccessPorts
<1>6. EdgePorts(d) = EdgePorts(c)
  BY <1>1, <1>5 DEF EdgePorts
<1> QED
  BY <1>2, <1>5, <1>6

\* A fix of ports that are secured already secures no other.
LEMMA SecuredStay ==
  ASSUME NEW c, NEW ps, ps \subseteq Secured(c), NEW drop, drop \subseteq PortSecurity,
         NEW add, add \subseteq PortSecurity, add # {},
         NEW d, d = WithFix(c, PortFix(ps, drop, add))
  PROVE  Secured(d) \subseteq Secured(c)
<1>1. EdgePorts(d) = EdgePorts(c)
  <2>1. {"switchport_mode_trunk", "no_switchport", "description_uplink", "ip_address"} \cap (drop \cup add) = {}
    BY DEF PortSecurity
  <2>2. ps \subseteq AccessPorts(c) /\ Switchport \cap add # {}
    BY PortsOf DEF Switchport
  <2> QED
    BY <2>1, <2>2, KindsStay
<1>2. ASSUME NEW p \in Secured(d), p \notin Secured(c) PROVE FALSE
  <2>1. p \in DOMAIN c.ports /\ p \in EdgePorts(c) /\ p \notin ps
    BY <1>1, <1>2, PortsOf DEF Secured
  <2>2. d.ports[p] = c.ports[p]
    BY <2>1, PortsAre
  <2> QED
    BY <1>2, <2>1, <2>2 DEF Secured
<1> QED
  BY <1>2

LEMMA EachPortIs ==
  ASSUME NEW check, NEW severity, NEW ports, NEW ps, NEW drop, NEW add,
         NEW f \in EachPort(check, severity, ports, ps, drop, add), f.status = "fail"
  PROVE  f.check = check /\ ps # {} /\ f.fix = PortFix(ps, drop, add)
BY DEF EachPort, Fixable, Unless

LEMMA PortSecurityCured ==
  ASSUME NEW c, NEW f \in PortSecurityChecks(c), f.status = "fail", NEW n, n = f.check,
         NEW d, d = WithFix(c, f.fix)
  PROVE  Cures(n, c, d)
<1> DEFINE open == EdgePorts(c) \ Secured(c)
           high == Secured(c) \cap On(c, "maximum_high")
           protect == Secured(c) \cap On(c, "violation_protect")
<1>1. \/ /\ n = "L2PS-01" /\ open # {}
         /\ f.fix = PortFix(open, {}, {"port-security", "maximum", "violation_restrict", "sticky"})
      \/ n = "L2PS-02" /\ high # {} /\ f.fix = PortFix(high, {"maximum_high"}, {"maximum"})
      \/ n = "L2PS-03" /\ NotSticky(c) # {} /\ f.fix = PortFix(NotSticky(c), {}, {"sticky"})
      \/ /\ n = "L2PS-04" /\ protect # {}
         /\ f.fix = PortFix(protect, {"violation_protect"}, {"violation_restrict"})
  BY EachPortIs DEF PortSecurityChecks
<1>2. CASE n = "L2PS-01"
  <2>1. f.fix = PortFix(open, {}, {"port-security", "maximum", "violation_restrict", "sticky"}) /\ open # {}
    BY <1>1, <1>2
  <2>2. open \subseteq AccessPorts(c) /\ open \subseteq DOMAIN c.ports
    BY PortsOf
  <2>3. EdgePorts(d) = EdgePorts(c)
    BY <2>1, <2>2, KindsStay DEF Switchport, PortSecurity
  <2>4. ASSUME NEW p \in EdgePorts(c) PROVE p \in Secured(d)
    <3> DEFINE add == {"port-security", "maximum", "violation_restrict", "sticky"}
    <3>1. p \in DOMAIN c.ports /\ p \in EdgePorts(d)
      BY <2>3, PortsOf
    <3>2. /\ p \in open => d.ports[p] = (c.ports[p] \ {}) \cup add
          /\ p \notin open => d.ports[p] = c.ports[p]
      BY <2>1, <3>1, PortsAre
    <3>3. d.ports[p] \cap PortSecurity # {}
      BY <3>2 DEF Secured, PortSecurity
    <3> QED
      BY <3>1, <3>3 DEF Secured
  <2>5. open # {} /\ EdgePorts(d) \ Secured(d) = {}
    BY <2>1, <2>3, <2>4
  <2> HIDE DEF open
  <2> QED
    BY <1>2, <2>5 DEF Cures, Fails, PortFails, open
<1>3. CASE n = "L2PS-02"
  <2>1. f.fix = PortFix(high, {"maximum_high"}, {"maximum"}) /\ high # {}
    BY <1>1, <1>3
  <2>2. On(d, "maximum_high") = On(c, "maximum_high") \ high
    BY <2>1, StatementsAre
  <2>3. Secured(d) \subseteq Secured(c)
    BY <2>1, SecuredStay DEF PortSecurity
  <2> QED
    BY <1>3, <2>1, <2>2, <2>3 DEF Cures, Fails, PortFails
<1>4. CASE n = "L2PS-03"
  <2>1. f.fix = PortFix(NotSticky(c), {}, {"sticky"}) /\ NotSticky(c) # {}
    BY <1>1, <1>4
  <2>2. On(d, "sticky") = On(c, "sticky") \cup (NotSticky(c) \cap DOMAIN c.ports)
    BY <2>1, StatementsAre
  <2>3. Secured(d) \subseteq Secured(c)
    BY <2>1, SecuredStay DEF PortSecurity, NotSticky
  <2>4. NotSticky(d) = {}
    BY <2>2, <2>3, PortsOf DEF NotSticky
  <2> QED
    BY <1>4, <2>1, <2>4 DEF Cures, Fails, PortFails
<1>5. CASE n = "L2PS-04"
  <2>1. f.fix = PortFix(protect, {"violation_protect"}, {"violation_restrict"}) /\ protect # {}
    BY <1>1, <1>5
  <2>2. On(d, "violation_protect") = On(c, "violation_protect") \ protect
    BY <2>1, StatementsAre
  <2>3. Secured(d) \subseteq Secured(c)
    BY <2>1, SecuredStay DEF PortSecurity
  <2> QED
    BY <1>5, <2>1, <2>2, <2>3 DEF Cures, Fails, PortFails
<1> QED
  BY <1>1, <1>2, <1>3, <1>4, <1>5

LEMMA CoveredAre ==
  ASSUME NEW c, NEW ps, NEW drop, NEW add, NEW s \in add, NEW K, K \subseteq DOMAIN c.ports,
         K \ On(c, s) \subseteq ps, NEW d, d = WithFix(c, PortFix(ps, drop, add))
  PROVE  K \ On(d, s) = {}
<1>1. On(d, s) = On(c, s) \cup (ps \cap DOMAIN c.ports)
  BY StatementsAre
<1> QED
  BY <1>1

\* A fix that adds or drops none of the statements by which ports are told apart.
LEMMA KindsKeep ==
  ASSUME NEW c, NEW ps, NEW drop, NEW add, NEW d, d = WithFix(c, PortFix(ps, drop, add)),
         {"switchport_mode_trunk", "no_switchport", "description_uplink", "ip_address"} \cap (drop \cup add) = {},
         Switchport \cap (drop \cup add) = {}
  PROVE  /\ TrunkPorts(d) = TrunkPorts(c) /\ AccessPorts(d) = AccessPorts(c)
         /\ Uplinks(d) = Uplinks(c) /\ EdgePorts(d) = EdgePorts(c) /\ RoutedPorts(d) = RoutedPorts(c)
BY KindsStay

\* What the lemmas below show of a failing check, with the ports or the device its fix is for.
Heals(on, n, c, d) == Fails(n, c) /\ (on = {} \/ n \in Unhelpful(d) \/ ~ Fails(n, d))

LEMMA StpCured ==
  ASSUME NEW c, NEW f \in StpChecks(c), f.status = "fail", NEW n, n = f.check,
         NEW d, d = WithFix(c, f.fix)
  PROVE  Heals(f.fix.on, n, c, d)
<1>1. \/ n = "STP-01" /\ Gains("bpduguard_default", c, d)
      \/ n = "STP-02" /\ On(c, "guard_root") = {} /\ f.fix = PortFix(Uplinks(c), {}, {"guard_root"})
      \/ n = "STP-03" /\ Gains("loopguard_default", c, d)
  BY LinesAre DEF StpChecks, Fixable, Judge, Verdict
<1>2. CASE n # "STP-02"
  <2>1. Fails(n, c)
    BY <1>1, <1>2, ZenonT(60) DEF Gains, Fails
  <2>2. ~ Fails(n, d)
    BY <1>1, <1>2, ZenonT(60) DEF Gains, Fails
  <2> QED
    BY <2>1, <2>2 DEF Heals
<1>3. CASE n = "STP-02"
  <2>1. On(c, "guard_root") = {} /\ f.fix = PortFix(Uplinks(c), {}, {"guard_root"})
    BY <1>1, <1>3
  <2>2. Uplinks(c) \ On(d, "guard_root") = {} /\ f.fix.on = Uplinks(c)
    BY <2>1, PortsOf, CoveredAre DEF PortFix
  <2>3. f.fix.on = {} \/ On(d, "guard_root") # {}
    BY <2>2
  <2> QED
    BY <1>3, <2>1, <2>3 DEF Heals, Fails, PortFails
<1> QED
  BY <1>2, <1>3

LEMMA StormCured ==
  ASSUME NEW c, NEW f \in StormChecks(c), f.status = "fail", NEW n, n = f.check,
         NEW d, d = WithFix(c, f.fix)
  PROVE  Cures(n, c, d)
<1> DEFINE open == AccessPorts(c) \ On(c, "storm-control")
<1>1. n = "STORM-01" /\ open # {} /\ f.fix = PortFix(open, {}, {"storm-control"})
  BY EachPortIs DEF StormChecks
<1>2. AccessPorts(d) = AccessPorts(c)
  BY <1>1, KindsKeep DEF Switchport, PortSecurity
<1>3. AccessPorts(c) \ On(d, "storm-control") = {}
  BY <1>1, PortsOf, CoveredAre
<1> QED
  BY <1>1, <1>2, <1>3 DEF Cures, Fails, PortFails

LEMMA SourceGuardCured ==
  ASSUME NEW c, NEW f \in SourceGuardChecks(c), f.status = "fail", NEW n, n = f.check,
         NEW d, d = WithFix(c, f.fix)
  PROVE  Cures(n, c, d)
<1> DEFINE open == AccessPorts(c) \ On(c, "verify_source")
<1>1. n = "IPSG-01" /\ open # {} /\ f.fix = PortFix(open, {}, {"verify_source"})
  BY DEF SourceGuardChecks, Fixable, Unless
<1>2. AccessPorts(d) = AccessPorts(c)
  BY <1>1, KindsKeep DEF Switchport, PortSecurity
<1>3. AccessPorts(c) \ On(d, "verify_source") = {}
  BY <1>1, PortsOf, CoveredAre
<1> QED
  BY <1>1, <1>2, <1>3 DEF Cures, Fails, PortFails

LEMMA DhcpCured ==
  ASSUME NEW c, NEW f \in DhcpChecks(c), f.status = "fail", NEW n, n = f.check,
         NEW d, d = WithFix(c, f.fix), IsFiniteSet(DOMAIN c.ports)
  PROVE  Heals(f.fix.on, n, c, d)
<1> DEFINE trusted == On(c, "dhcp_trust")
           unrated == AccessPorts(c) \ (trusted \cup Rated(c))
<1>1. \/ n = "DHCPSNOOP-01" /\ Gains("dhcp_snooping", c, d)
      \/ n = "DHCPSNOOP-02" /\ Gains("dhcp_snooping_vlan", c, d)
      \/ n = "DHCPSNOOP-03" /\ unrated # {} /\ f.fix = PortFix(unrated, {}, {"dhcp_rate_ok"})
      \/ /\ n = "DHCPSNOOP-04" /\ (AccessPorts(c) \ trusted) \cap On(c, "dhcp_rate_high") # {}
         /\ f.fix = PortFix(AccessPorts(c), {"dhcp_rate_high"}, {"dhcp_rate_ok"})
      \/ /\ n = "DHCPSNOOP-05" /\ ~ (Cardinality(trusted) <= TrustLimit(c))
         /\ f.fix = PortFix(trusted \ Uplinks(c), {"dhcp_trust"}, {})
  <2>1. \/ f \in Required(c, {<<"DHCPSNOOP-01", "critical", "dhcp_snooping">>,
                              <<"DHCPSNOOP-02", "medium", "dhcp_snooping_vlan">>})
        \/ n = "DHCPSNOOP-03" /\ unrated # {} /\ f.fix = PortFix(unrated, {}, {"dhcp_rate_ok"})
        \/ /\ n = "DHCPSNOOP-04" /\ (AccessPorts(c) \ trusted) \cap On(c, "dhcp_rate_high") # {}
           /\ f.fix = PortFix(AccessPorts(c), {"dhcp_rate_high"}, {"dhcp_rate_ok"})
        \/ /\ n = "DHCPSNOOP-05" /\ ~ (Cardinality(trusted) <= TrustLimit(c))
           /\ f.fix = PortFix(trusted \ Uplinks(c), {"dhcp_trust"}, {})
    BY DEF DhcpChecks, EachPort, Fixable, Unless, Verdict
  <2> QED
    BY <2>1, RequiredIs
<1>2. CASE n \in {"DHCPSNOOP-01", "DHCPSNOOP-02"}
  <2>1. Fails(n, c)
    BY <1>1, <1>2, ZenonT(60) DEF Gains, Fails
  <2>2. ~ Fails(n, d)
    BY <1>1, <1>2, ZenonT(60) DEF Gains, Fails
  <2> QED
    BY <2>1, <2>2 DEF Heals
<1>3. CASE n = "DHCPSNOOP-03"
  <2>1. unrated # {} /\ f.fix = PortFix(unrated, {}, {"dhcp_rate_ok"})
    BY <1>1, <1>3
  <2>2. AccessPorts(d) = AccessPorts(c)
    BY <2>1, KindsKeep DEF Switchport, PortSecurity
  <2>3. /\ On(d, "dhcp_trust") = trusted /\ On(d, "dhcp_rate_high") = On(c, "dhcp_rate_high")
        /\ On(d, "dhcp_rate_ok") = On(c, "dhcp_rate_ok") \cup (unrated \cap DOMAIN c.ports)
    BY <2>1, StatementsAre
  <2>4. AccessPorts(d) \ (On(d, "dhcp_trust") \cup Rated(d)) = {}
    BY <2>2, <2>3, PortsOf DEF Rated
  <2> QED
    BY <1>3, <2>1, <2>4 DEF Heals, Fails, PortFails
<1>4. CASE n = "DHCPSNOOP-04"
  <2>1. /\ (AccessPorts(c) \ trusted) \cap On(c, "dhcp_rate_high") # {}
        /\ f.fix = PortFix(AccessPorts(c), {"dhcp_rate_high"}, {"dhcp_rate_ok"})
    BY <1>1, <1>4
  <2>2. AccessPorts(d) = AccessPorts(c)
    BY <2>1, KindsKeep DEF Switchport, PortSecurity
  <2>3. On(d, "dhcp_rate_high") = On(c, "dhcp_rate_high") \ AccessPorts(c)
    BY <2>1, StatementsAre
  <2> QED
    BY <1>4, <2>1, <2>2, <2>3 DEF Heals, Fails, PortFails
<1>5. CASE n = "DHCPSNOOP-05"
  <2>1. /\ ~ (Cardinality(trusted) <= TrustLimit(c))
        /\ f.fix = PortFix(trusted \ Uplinks(c), {"dhcp_trust"}, {})
    BY <1>1, <1>5
  <2>2. Uplinks(d) = Uplinks(c)
    BY <2>1, KindsKeep DEF Switchport, PortSecurity
  <2>3. On(d, "dhcp_trust") = On(d, "dhcp_trust") \cap Uplinks(d)
    BY <2>1, <2>2, StatementsAre
  <2>4. DOMAIN d.ports = DOMAIN c.ports
    BY <2>1, PortsAre
  <2>5. Cardinality(On(d, "dhcp_trust")) \in Nat /\ Cardinality(DOMAIN d.ports) \in Nat
    BY <2>4, PortsOf, FS_Subset, FS_CardinalityType
  <2>6. TrustLimit(d) \in Nat
    BY <2>5 DEF TrustLimit
  <2>7. n \in Unhelpful(d) \/ Cardinality(On(d, "dhcp_trust")) <= TrustLimit(d)
    BY <1>5, <2>3, <2>5, <2>6 DEF Unhelpful, Only
  <2> QED
    BY <1>5, <2>1, <2>7 DEF Heals, Fails, PortFails
<1> QED
  BY <1>1, <1>2, <1>3, <1>4, <1>5

LEMMA DaiCured ==
  ASSUME NEW c, NEW f \in DaiChecks(c), f.status = "fail", NEW n, n = f.check,
         NEW d, d = WithFix(c, f.fix)
  PROVE  Cures(n, c, d)
<1> DEFINE unrated == AccessPorts(c) \ (On(c, "dhcp_trust") \cup On(c, "arp_rate"))
<1>1. \/ n = "DAI-01" /\ Gains("arp_inspection_vlan", c, d)
      \/ n = "DAI-03" /\ Gains("arp_validate", c, d)
      \/ n = "DAI-05" /\ Gains("device-tracking", c, d)
      \/ n = "DAI-02" /\ Distrust(c) # {} /\ f.fix = PortFix(Distrust(c), {}, {"dhcp_trust", "dai_trust"})
      \/ n = "DAI-04" /\ unrated # {} /\ f.fix = PortFix(unrated, {}, {"arp_rate"})
  <2>1. \/ f \in Required(c, {<<"DAI-01", "high", "arp_inspection_vlan">>, <<"DAI-03", "low", "arp_validate">>})
        \/ n = "DAI-05" /\ "device-tracking" \notin c.lines /\ f.fix = LineFix({}, {"device-tracking"})
        \/ n = "DAI-02" /\ Distrust(c) # {} /\ f.fix = PortFix(Distrust(c), {}, {"dhcp_trust", "dai_trust"})
        \/ n = "DAI-04" /\ unrated # {} /\ f.fix = PortFix(unrated, {}, {"arp_rate"})
    BY DEF DaiChecks, Fixable, Unless, Verdict, Somewhere, Distrust
  <2> QED
    BY <2>1, RequiredIs, LinesAre
<1>2. CASE n \in {"DAI-01", "DAI-03", "DAI-05"}
  <2>1. Fails(n, c)
    BY <1>1, <1>2, ZenonT(60) DEF Gains, Fails
  <2>2. ~ Fails(n, d)
    BY <1>1, <1>2, ZenonT(60) DEF Gains, Fails
  <2> QED
    BY <2>1, <2>2 DEF Cures
<1>3. CASE n = "DAI-02"
  <2>1. Distrust(c) # {} /\ f.fix = PortFix(Distrust(c), {}, {"dhcp_trust", "dai_trust"})
    BY <1>1, <1>3
  <2>2. \A s \in {"dhcp_trust", "dai_trust"} : On(d, s) = On(c, s) \cup (Distrust(c) \cap DOMAIN c.ports)
    BY <2>1, StatementsAre
  <2>3. Distrust(c) \subseteq DOMAIN c.ports
    BY PortsOf DEF Distrust
  <2>4. Distrust(d) = {}
    BY <2>2, <2>3 DEF Distrust
  <2> QED
    BY <1>3, <2>1, <2>4 DEF Cures, Fails, PortFails
<1>4. CASE n = "DAI-04"
  <2>1. unrated # {} /\ f.fix = PortFix(unrated, {}, {"arp_rate"})
    BY <1>1, <1>4
  <2>2. AccessPorts(d) = AccessPorts(c)
    BY <2>1, KindsKeep DEF Switchport, PortSecurity
  <2>3. /\ On(d, "dhcp_trust") = On(c, "dhcp_trust")
        /\ On(d, "arp_rate") = On(c, "arp_rate") \cup (unrated \cap DOMAIN c.ports)
    BY <2>1, StatementsAre
  <2>4. AccessPorts(d) \ (On(d, "dhcp_trust") \cup On(d, "arp_rate")) = {}
    BY <2>2, <2>3, PortsOf
  <2> QED
    BY <1>4, <2>1, <2>4 DEF Cures, Fails, PortFails
<1> QED
  BY <1>1, <1>2, <1>3, <1>4

LEMMA TrunkCured ==
  ASSUME NEW c, NEW f \in TrunkChecks(c), f.status = "fail", NEW n, n = f.check,
         NEW d, d = WithFix(c, f.fix)
  PROVE  Cures(n, c, d)
<1>1. ASSUME NEW s, TrunkPorts(c) \ On(c, s) # {}, f.fix = PortFix(TrunkPorts(c), {}, {s}),
             s # "switchport_mode_trunk"
      PROVE  TrunkPorts(d) \ On(d, s) = {}
  <2>1. TrunkPorts(d) = TrunkPorts(c)
    BY <1>1, StatementsAre DEF TrunkPorts
  <2> QED
    BY <1>1, <2>1, PortsOf, CoveredAre
<1>2. \/ n = "VTP-01" /\ Gains("vtp_transparent", c, d)
      \/ /\ n = "TRUNK-01" /\ TrunkPorts(c) \ On(c, "native_vlan") # {}
         /\ f.fix = PortFix(TrunkPorts(c), {}, {"native_vlan"})
      \/ /\ n = "TRUNK-02" /\ TrunkPorts(c) \ On(c, "allowed_vlan") # {}
         /\ f.fix = PortFix(TrunkPorts(c), {}, {"allowed_vlan"})
      \/ /\ n = "TRUNK-03" /\ TrunkPorts(c) \ On(c, "nonegotiate") # {}
         /\ f.fix = PortFix(TrunkPorts(c), {}, {"nonegotiate"})
  <2> DEFINE rows == {<<"TRUNK-01", "medium", "native_vlan">>, <<"TRUNK-02", "medium", "allowed_vlan">>,
                      <<"TRUNK-03", "low", "nonegotiate">>}
  <2>1. \/ f \in Required(c, {<<"VTP-01", "medium", "vtp_transparent">>})
        \/ \E r \in rows : f = Fixable(r[1], Unless(TrunkPorts(c) \ On(c, r[3]) # {}, TrunkPorts(c) # {}),
                                       r[2], PortFix(TrunkPorts(c), {}, {r[3]}))
    BY DEF TrunkChecks
  <2>2. ASSUME NEW r \in rows,
               f = Fixable(r[1], Unless(TrunkPorts(c) \ On(c, r[3]) # {}, TrunkPorts(c) # {}),
                           r[2], PortFix(TrunkPorts(c), {}, {r[3]}))
        PROVE  n = r[1] /\ TrunkPorts(c) \ On(c, r[3]) # {} /\ f.fix = PortFix(TrunkPorts(c), {}, {r[3]})
    BY <2>2 DEF Fixable, Unless
  <2> QED
    BY <2>1, <2>2, RequiredIs
<1>3. CASE n = "VTP-01"
  BY <1>2, <1>3, ZenonT(60) DEF Gains, Cures, Fails
<1>4. CASE n = "TRUNK-01"
  <2>1. TrunkPorts(c) \ On(c, "native_vlan") # {} /\ TrunkPorts(d) \ On(d, "native_vlan") = {}
    BY <1>1, <1>2, <1>4
  <2> QED
    BY <1>4, <2>1 DEF Cures, Fails, PortFails
<1>5. CASE n = "TRUNK-02"
  <2>1. TrunkPorts(c) \ On(c, "allowed_vlan") # {} /\ TrunkPorts(d) \ On(d, "allowed_vlan") = {}
    BY <1>1, <1>2, <1>5
  <2> QED
    BY <1>5, <2>1 DEF Cures, Fails, PortFails
<1>6. CASE n = "TRUNK-03"
  <2>1. TrunkPorts(c) \ On(c, "nonegotiate") # {} /\ TrunkPorts(d) \ On(d, "nonegotiate") = {}
    BY <1>1, <1>2, <1>6
  <2> QED
    BY <1>6, <2>1 DEF Cures, Fails, PortFails
<1> QED
  BY <1>2, <1>3, <1>4, <1>5, <1>6

LEMMA EtherChannelCured ==
  ASSUME NEW c, NEW f \in EtherChannelChecks(c), f.status = "fail", NEW n, n = f.check,
         NEW d, d = WithFix(c, f.fix)
  PROVE  Cures(n, c, d)
<1> DEFINE static == On(c, "channel-group_on")
<1>1. n = "ECHAN-01" /\ static # {} /\ f.fix = PortFix(static, {"channel-group_on"}, {})
  BY DEF EtherChannelChecks, Fixable, Verdict
<1>2. On(d, "channel-group_on") = static \ static
  BY <1>1, StatementsAre
<1> QED
  BY <1>1, <1>2 DEF Cures, Fails, PortFails

LEMMA UrpfCured ==
  ASSUME NEW c, NEW f \in UrpfChecks(c), f.status = "fail", NEW n, n = f.check,
         NEW d, d = WithFix(c, f.fix)
  PROVE  Heals(f.fix.on, n, c, d)
<1>1. n = "URPF-01" /\ On(c, "urpf_strict") = {} /\ f.fix = PortFix(RoutedPorts(c), {}, {"urpf_strict"})
  BY OnlyIs DEF UrpfChecks, Fixable, Judge, Verdict
<1>2. RoutedPorts(c) \ On(d, "urpf_strict") = {} /\ f.fix.on = RoutedPorts(c)
  BY <1>1, PortsOf, CoveredAre DEF PortFix
<1>3. f.fix.on = {} \/ On(d, "urpf_strict") # {}
  BY <1>2
<1> QED
  BY <1>1, <1>3 DEF Heals, Fails, PortFails

LEMMA RoutingCured ==
  ASSUME NEW c, NEW f \in RoutingChecks(c), f.status = "fail", NEW n, n = f.check,
         NEW d, d = WithFix(c, f.fix)
  PROVE  Heals(f.fix.on, n, c, d)
<1>1. \/ n = "RTAUTH-OSPF-01" /\ Gains("ospf_authentication", c, d)
      \/ n = "RTAUTH-OSPF-02" /\ Gains("passive-interface_default", c, d)
      \/ n = "RTAUTH-EIGRP-01" /\ Gains("eigrp_authentication", c, d)
      \/ n = "RTAUTH-RIP-01" /\ Gains("rip_authentication", c, d)
      \/ n = "RTAUTH-BGP-01" /\ Loses("bgp_peer_open", c, d)
      \/ n = "RTAUTH-BGP-02" /\ Gains("bgp_ttl-security", c, d)
      \/ n = "RTAUTH-BGP-03" /\ Gains("bgp_maximum-prefix", c, d)
      \/ n = "RTAUTH-ISIS-01"
  <2>1. \/ f \in Required(c, {<<"RTAUTH-OSPF-01", "high", "ospf_authentication">>,
                              <<"RTAUTH-OSPF-02", "low", "passive-interface_default">>})
        \/ /\ n = "RTAUTH-EIGRP-01" /\ "eigrp_authentication" \notin c.lines
           /\ f.fix = LineFix({}, {"eigrp_authentication"})
        \/ f \in Required(c, {<<"RTAUTH-RIP-01", "medium", "rip_authentication">>})
        \/ f \in Stanza(c, "RTAUTH-BGP-01", "high", "bgp_peer" \in c.lines, "bgp_peer_open", {})
        \/ f \in Required(c, {<<"RTAUTH-BGP-02", "medium", "bgp_ttl-security">>,
                              <<"RTAUTH-BGP-03", "medium", "bgp_maximum-prefix">>})
        \/ n = "RTAUTH-ISIS-01"
    BY OnlyIs DEF RoutingChecks, Fixable, Judge, Verdict, Has
  <2> QED
    BY <2>1, RequiredIs, StanzaIs, LinesAre
<1>2. Fails(n, c)
  BY <1>1, ZenonT(60) DEF Gains, Loses, Fails, PortFails
<1>3. n = "RTAUTH-ISIS-01" \/ ~ Fails(n, d)
  BY <1>1, ZenonT(60) DEF Gains, Loses, Fails
<1>4. n \in Unhelpful(d) \/ ~ Fails(n, d)
  BY <1>3 DEF Unhelpful
<1> QED
  BY <1>2, <1>4 DEF Heals

LEMMA FhrpCured ==
  ASSUME NEW c, NEW f \in FhrpChecks(c), f.status = "fail", NEW n, n = f.check,
         NEW d, d = WithFix(c, f.fix)
  PROVE  Cures(n, c, d)
<1> DEFINE hsrp == On(c, "hsrp")
           open == hsrp \ (On(c, "hsrp_text") \cup On(c, "hsrp_md5"))
           vrrp == On(c, "vrrp")
<1>1. \/ n = "FHRP-HSRP-01" /\ open # {} /\ f.fix = PortFix(open, {}, {"hsrp_md5"})
      \/ /\ n = "FHRP-HSRP-02" /\ hsrp \cap On(c, "hsrp_text") # {}
         /\ f.fix = PortFix(hsrp, {"hsrp_text"}, {"hsrp_md5"})
      \/ /\ n = "FHRP-VRRP-01" /\ vrrp \ On(c, "vrrp_authentication") # {}
         /\ f.fix = PortFix(vrrp, {}, {"vrrp_authentication"})
  <2>1. \/ f = Fixable("FHRP-HSRP-01", Verdict(open = {}), "high", PortFix(open, {}, {"hsrp_md5"}))
        \/ f = Fixable("FHRP-HSRP-02", Unless(hsrp \cap On(c, "hsrp_text") # {}, open = {}), "medium",
                       PortFix(hsrp, {"hsrp_text"}, {"hsrp_md5"}))
        \/ f = Fixable("FHRP-VRRP-01", Verdict(vrrp \subseteq On(c, "vrrp_authentication")), "medium",
                       PortFix(vrrp, {}, {"vrrp_authentication"}))
        \/ f = Judge("FHRP-00", "na", "info")
    BY DEF FhrpChecks, Only
  <2>2. f # Judge("FHRP-00", "na", "info")
    BY DEF Judge, Fixable
  <2>3. CASE f = Fixable("FHRP-HSRP-01", Verdict(open = {}), "high", PortFix(open, {}, {"hsrp_md5"}))
    BY <2>3 DEF Fixable, Verdict
  <2>4. CASE f = Fixable("FHRP-HSRP-02", Unless(hsrp \cap On(c, "hsrp_text") # {}, open = {}), "medium",
                         PortFix(hsrp, {"hsrp_text"}, {"hsrp_md5"}))
    BY <2>4 DEF Fixable, Unless
  <2>5. CASE f = Fixable("FHRP-VRRP-01", Verdict(vrrp \subseteq On(c, "vrrp_authentication")), "medium",
                         PortFix(vrrp, {}, {"vrrp_authentication"}))
    <3>1. n = "FHRP-VRRP-01" /\ f.fix = PortFix(vrrp, {}, {"vrrp_authentication"})
          /\ ~ (vrrp \subseteq On(c, "vrrp_authentication"))
      BY <2>5 DEF Fixable, Verdict
    <3> QED
      BY <3>1
  <2> QED
    BY <2>1, <2>2, <2>3, <2>4, <2>5
<1>2. CASE n = "FHRP-HSRP-01"
  <2>1. open # {} /\ f.fix = PortFix(open, {}, {"hsrp_md5"})
    BY <1>1, <1>2
  <2>2. /\ On(d, "hsrp") = hsrp /\ On(d, "hsrp_text") = On(c, "hsrp_text")
        /\ On(d, "hsrp_md5") = On(c, "hsrp_md5") \cup (open \cap DOMAIN c.ports)
    BY <2>1, StatementsAre
  <2>3. On(d, "hsrp") \ (On(d, "hsrp_text") \cup On(d, "hsrp_md5")) = {}
    BY <2>2, PortsOf
  <2> QED
    BY <1>2, <2>1, <2>3 DEF Cures, Fails, PortFails
<1>3. CASE n = "FHRP-HSRP-02"
  <2>1. hsrp \cap On(c, "hsrp_text") # {} /\ f.fix = PortFix(hsrp, {"hsrp_text"}, {"hsrp_md5"})
    BY <1>1, <1>3
  <2>2. On(d, "hsrp") = hsrp /\ On(d, "hsrp_text") = On(c, "hsrp_text") \ hsrp
    BY <2>1, StatementsAre
  <2> QED
    BY <1>3, <2>1, <2>2 DEF Cures, Fails, PortFails
<1>4. CASE n = "FHRP-VRRP-01"
  <2>1. vrrp \ On(c, "vrrp_authentication") # {} /\ f.fix = PortFix(vrrp, {}, {"vrrp_authentication"})
    BY <1>1, <1>4
  <2>2. On(d, "vrrp") = vrrp
    BY <2>1, StatementsAre
  <2>3. vrrp \ On(d, "vrrp_authentication") = {}
    BY <2>1, PortsOf, CoveredAre
  <2> QED
    BY <1>4, <2>1, <2>2, <2>3 DEF Cures, Fails, PortFails
<1> QED
  BY <1>1, <1>2, <1>3, <1>4

LEMMA IcmpCured ==
  ASSUME NEW c, NEW f \in IcmpChecks(c), f.status = "fail", NEW n, n = f.check,
         NEW d, d = WithFix(c, f.fix)
  PROVE  Cures(n, c, d)
<1>1. ASSUME NEW s, RoutedPorts(c) \ On(c, s) # {}, f.fix = PortFix(RoutedPorts(c), {}, {s}),
             s # "ip_address"
      PROVE  RoutedPorts(d) \ On(d, s) = {}
  <2>1. RoutedPorts(d) = RoutedPorts(c)
    BY <1>1, StatementsAre DEF RoutedPorts
  <2> QED
    BY <1>1, <2>1, PortsOf, CoveredAre
<1>2. \/ n = "ICMP-04" /\ Gains("no_source-route", c, d)
      \/ /\ n = "ICMP-01" /\ RoutedPorts(c) \ On(c, "no_redirects") # {}
         /\ f.fix = PortFix(RoutedPorts(c), {}, {"no_redirects"})
      \/ /\ n = "ICMP-02" /\ RoutedPorts(c) \ On(c, "no_proxy-arp") # {}
         /\ f.fix = PortFix(RoutedPorts(c), {}, {"no_proxy-arp"})
      \/ /\ n = "ICMP-03" /\ RoutedPorts(c) \ On(c, "no_unreachables") # {}
         /\ f.fix = PortFix(RoutedPorts(c), {}, {"no_unreachables"})
  <2> DEFINE rows == {<<"ICMP-01", "medium", "no_redirects">>, <<"ICMP-02", "medium", "no_proxy-arp">>,
                      <<"ICMP-03", "low", "no_unreachables">>}
  <2>1. \/ f \in Required(c, {<<"ICMP-04", "medium", "no_source-route">>})
        \/ \E r \in rows : f = Fixable(r[1], Unless(RoutedPorts(c) \ On(c, r[3]) # {}, RoutedPorts(c) # {}),
                                       r[2], PortFix(RoutedPorts(c), {}, {r[3]}))
    BY DEF IcmpChecks, Judge, Fixable
  <2>2. ASSUME NEW r \in rows,
               f = Fixable(r[1], Unless(RoutedPorts(c) \ On(c, r[3]) # {}, RoutedPorts(c) # {}),
                           r[2], PortFix(RoutedPorts(c), {}, {r[3]}))
        PROVE  n = r[1] /\ RoutedPorts(c) \ On(c, r[3]) # {} /\ f.fix = PortFix(RoutedPorts(c), {}, {r[3]})
    BY <2>2 DEF Fixable, Unless
  <2> QED
    BY <2>1, <2>2, RequiredIs
<1>3. CASE n = "ICMP-04"
  BY <1>2, <1>3, ZenonT(60) DEF Gains, Cures, Fails
<1>4. CASE n = "ICMP-01"
  <2>1. RoutedPorts(c) \ On(c, "no_redirects") # {} /\ RoutedPorts(d) \ On(d, "no_redirects") = {}
    BY <1>1, <1>2, <1>4
  <2> QED
    BY <1>4, <2>1 DEF Cures, Fails, PortFails
<1>5. CASE n = "ICMP-02"
  <2>1. RoutedPorts(c) \ On(c, "no_proxy-arp") # {} /\ RoutedPorts(d) \ On(d, "no_proxy-arp") = {}
    BY <1>1, <1>2, <1>5
  <2> QED
    BY <1>5, <2>1 DEF Cures, Fails, PortFails
<1>6. CASE n = "ICMP-03"
  <2>1. RoutedPorts(c) \ On(c, "no_unreachables") # {} /\ RoutedPorts(d) \ On(d, "no_unreachables") = {}
    BY <1>1, <1>2, <1>6
  <2> QED
    BY <1>6, <2>1 DEF Cures, Fails, PortFails
<1> QED
  BY <1>2, <1>3, <1>4, <1>5, <1>6

LEMMA CoppCured ==
  ASSUME NEW c, NEW f \in CoppChecks(c), f.status = "fail", NEW n, n = f.check,
         NEW d, d = WithFix(c, f.fix)
  PROVE  Heals(f.fix.on, n, c, d)
<1>1. \/ f \in Required(c, {<<"COPP-01", "critical", "copp">>})
      \/ \E r \in CoppClasses : f = CoppFinding(c, r)
  BY DEF CoppChecks, Judge, Fixable
<1>2. ASSUME NEW r \in CoppClasses, f = CoppFinding(c, r)
      PROVE  n = r[1] /\ r[3] \notin c.lines /\ (r[3] = "copp_l2ctrl" \/ Gains(r[3], c, d))
  <2> DEFINE add == {IF r[3] = "copp_l2ctrl" THEN "copp_dhcp" ELSE r[3]}
                      \cup (IF r[3] = "copp_arp" THEN {} ELSE {"acl"})
  <2>1. n = r[1] /\ r[3] \notin c.lines /\ f.fix = LineFix({}, add)
    BY <1>2 DEF CoppFinding, Fixable, Verdict
  <2>2. r[3] = "copp_l2ctrl" \/ r[3] \in add
    OBVIOUS
  <2> HIDE DEF add
  <2> QED
    BY <2>1, <2>2, LinesAre
<1>3. \/ n = "COPP-01" /\ Gains("copp", c, d)
      \/ n = "COPP-CLASS-ICMP" /\ Gains("copp_icmp", c, d)
      \/ n = "COPP-CLASS-ROUTING" /\ Gains("copp_routing", c, d)
      \/ n = "COPP-CLASS-ARP" /\ Gains("copp_arp", c, d)
      \/ n = "COPP-CLASS-L2CTRL" /\ "copp_l2ctrl" \notin c.lines
      \/ n = "COPP-CLASS-MGMT" /\ Gains("copp_mgmt", c, d)
      \/ n = "COPP-CLASS-DHCP" /\ Gains("copp_dhcp", c, d)
      \/ n = "COPP-CLASS-FHRP" /\ Gains("copp_fhrp", c, d)
      \/ n = "COPP-CLASS-MCAST" /\ Gains("copp_mcast", c, d)
  BY <1>1, <1>2, RequiredIs DEF CoppClasses
<1>4. Fails(n, c)
  BY <1>3, ZenonT(60) DEF Gains, Fails
<1>5. n = "COPP-CLASS-L2CTRL" \/ ~ Fails(n, d)
  BY <1>3, ZenonT(60) DEF Gains, Fails
<1>6. n \in Unhelpful(d) \/ ~ Fails(n, d)
  BY <1>5 DEF Unhelpful
<1> QED
  BY <1>4, <1>6 DEF Heals

LEMMA CpuRiskCured ==
  ASSUME NEW c, NEW f \in CpuRiskChecks(c), f.status = "fail", NEW n, n = f.check,
         NEW d, d = WithFix(c, f.fix)
  PROVE  Heals(f.fix.on, n, c, d)
<1>1. \/ n = "CPURISK-01" /\ f.fix.on = {}
      \/ n = "CPURISK-02" /\ Loses("many_applets", c, d)
      \/ n = "CPURISK-03" /\ Loses("destructive_applet", c, d)
      \/ n = "CPURISK-04" /\ Loses("ip_accounting", c, d)
      \/ n = "CPURISK-05" /\ Loses("large_acl", c, d)
      \/ n = "CPURISK-06" /\ Loses("debug", c, d)
  BY ForbiddenIs DEF CpuRiskChecks, Judge, Fixable, NoFix
<1>2. Fails(n, c)
  BY <1>1, ZenonT(60) DEF Loses, Fails, PortFails
<1>3. n = "CPURISK-01" \/ ~ Fails(n, d)
  BY <1>1, ZenonT(60) DEF Loses, Fails
<1> QED
  BY <1>1, <1>2, <1>3 DEF Heals

LEMMA BootCured ==
  ASSUME NEW c, NEW f \in BootChecks(c), f.status = "fail", NEW n, n = f.check,
         NEW d, d = WithFix(c, f.fix)
  PROVE  Heals(f.fix.on, n, c, d)
<1>1. \/ /\ n = "BOOT-01" /\ "boot_system" \notin c.lines /\ f.fix = LineFix({}, {"boot_system"})
      \/ /\ n = "BOOT-03" /\ "boot_usb" \in c.lines /\ f.fix = LineFix({"boot_usb"}, {"boot_system"})
      \/ n = "BOOT-04"
  BY OnlyIs DEF BootChecks, Fixable, Judge, Verdict, Has
<1>2. \/ n = "BOOT-01" /\ Gains("boot_system", c, d)
      \/ n = "BOOT-03" /\ Loses("boot_usb", c, d)
      \/ n = "BOOT-04"
  BY <1>1, LinesAre
<1>3. Fails(n, c)
  BY <1>2, ZenonT(60) DEF Gains, Loses, Fails, PortFails
<1>4. n = "BOOT-04" \/ ~ Fails(n, d)
  BY <1>2, ZenonT(60) DEF Gains, Loses, Fails
<1>5. n \in Unhelpful(d) \/ ~ Fails(n, d)
  BY <1>4 DEF Unhelpful
<1> QED
  BY <1>3, <1>5 DEF Heals

\* The checks of the management plane protection and of the version never fail.
LEMMA NeverFailing ==
  ASSUME NEW c, NEW f \in MppChecks(c) \cup VersionChecks(c)
  PROVE  f.status # "fail"
BY DEF MppChecks, VersionChecks, Judge, Fixable

-----------------------------------------------------------------------------
(* All the checks, and a repair *)

\* A finding of any check: its fix cures it, or is one of the unhelpful ones, or it has none.
LEMMA EveryFindingCured ==
  ASSUME NEW c, IsFiniteSet(DOMAIN c.ports), NEW f \in Failing(c), NEW n, n = f.check,
         NEW d, d = WithFix(c, f.fix)
  PROVE  Heals(f.fix.on, n, c, d)
<1>1. f \in AllDeviceChecks(c) /\ f.status = "fail"
  BY DEF Failing
<1>2. CASE f \in UNION {UserChecks(c), SshChecks(c), HttpChecks(c), SnmpChecks(c), NtpChecks(c),
              LoggingChecks(c), BannerChecks(c), DnsChecks(c), ExposureChecks(c),
              PortSecurityChecks(c), UdldChecks(c), StormChecks(c), DaiChecks(c),
              SourceGuardChecks(c), TrunkChecks(c), EtherChannelChecks(c), FhrpChecks(c),
              IcmpChecks(c), AclChecks(c), TrackChecks(c), VpnChecks(c), ZoneChecks(c),
              PkiChecks(c), PhysicalChecks(c), ServiceChecks(c), MiscChecks(c)}
  <2>1. Cures(n, c, d)
    BY <1>1, <1>2,
       UserCured, SshCured, HttpCured, SnmpCured, NtpCured, LoggingCured, BannerCured,
       DnsCured, ExposureCured, PortSecurityCured, UdldCured, StormCured, DaiCured,
       SourceGuardCured, TrunkCured, EtherChannelCured, FhrpCured, IcmpCured, AclCured, TrackCured,
       VpnCured, ZoneCured, PkiCured, PhysicalCured, ServiceCured, MiscCured
  <2> QED
    BY <2>1 DEF Cures, Heals
<1>3. CASE f \in UNION {StpChecks(c), DhcpChecks(c), UrpfChecks(c), RoutingChecks(c), CoppChecks(c), CpuRiskChecks(c), BootChecks(c)}
  BY <1>1, <1>3, StpCured, DhcpCured, UrpfCured, RoutingCured, CoppCured, CpuRiskCured, BootCured
<1>4. CASE f \in MppChecks(c) \cup VersionChecks(c)
  BY <1>1, <1>4, NeverFailing
<1>5. CASE f \in AaaChecks(c) \cup PasswordChecks(c)
  BY <1>1, <1>5, AaaTreated, PasswordTreated DEF Treats, Heals
<1> QED
  BY <1>1, <1>2, <1>3, <1>4, <1>5 DEF AllDeviceChecks

\* What the steps of a repair keep: the device has finitely many interfaces, the checks whose fixes
\* were applied are listed, and the last of them has cleared its finding.
FixesInv ==
  /\ IsFiniteSet(DOMAIN config.ports)
  /\ \E S : fixed \in Seq(S)
  /\ FixesClearTheirFinding

LEMMA FixClears ==
  ASSUME FixesInv, ApplyFix PROVE FixesInv'
<1>1. PICK f \in Failing(config) : /\ f.fix.on # {} /\ config' = WithFix(config, f.fix)
                                   /\ fixed' = Append(fixed, f.check)
  BY DEF ApplyFix
<1>2. DOMAIN config'.ports = DOMAIN config.ports
  BY <1>1 DEF WithFix
<1>3. IsFiniteSet(DOMAIN config'.ports)
  BY <1>2 DEF FixesInv
<1>4. PICK S : fixed \in Seq(S)
  BY DEF FixesInv
<1>5. fixed' \in Seq(S \cup {f.check}) /\ fixed'[Len(fixed')] = f.check
  <2>1. fixed \in Seq(S \cup {f.check})
    BY <1>4
  <2> QED
    BY <1>1, <2>1
<1>6. Heals(f.fix.on, f.check, config, config')
  BY <1>1, EveryFindingCured DEF FixesInv
<1>7. f.check \in Unhelpful(config') \/ ~ Fails(f.check, config')
  BY <1>1, <1>6 DEF Heals
<1>8. ASSUME NEW g \in Failing(config') PROVE Fails(g.check, config')
  <2>1. Heals(g.fix.on, g.check, config', WithFix(config', g.fix))
    BY <1>3, <1>8, EveryFindingCured
  <2> QED
    BY <2>1 DEF Heals
<1>9. FixesClearTheirFinding'
  BY <1>5, <1>7, <1>8 DEF FixesClearTheirFinding
<1> QED
  BY <1>3, <1>5, <1>9 DEF FixesInv

\* Whatever device an operator repairs, and in whatever order: the command a finding recommends
\* makes its check stop failing, but for the recommendations that do not do, or do half of, what
\* their check looks for (Unhelpful; security_center/checks).
THEOREM FixesAlwaysClear == SpecFixes => []FixesClearTheirFinding
<1>1. InitFixes => FixesInv
  <2> SUFFICES ASSUME InitFixes PROVE FixesInv
    OBVIOUS
  <2>1. IsFiniteSet(DOMAIN config.ports)
    BY ConfigurationAssumption DEF InitFixes
  <2>2. fixed = <<>> /\ fixed \in Seq({})
    BY DEF InitFixes
  <2> QED
    BY <2>1, <2>2 DEF FixesInv, FixesClearTheirFinding
<1>2. FixesInv /\ [ApplyFix]_fixVars => FixesInv'
  <2> SUFFICES ASSUME FixesInv, [ApplyFix]_fixVars PROVE FixesInv'
    OBVIOUS
  <2>1. CASE ApplyFix
    BY <2>1, FixClears
  <2>2. CASE UNCHANGED fixVars
    <3>1. config' = config /\ fixed' = fixed
      BY <2>2 DEF fixVars
    <3> QED
      BY <3>1 DEF FixesInv, FixesClearTheirFinding
  <2> QED
    BY <2>1, <2>2
<1>3. FixesInv => FixesClearTheirFinding
  BY DEF FixesInv
<1> QED
  BY <1>1, <1>2, <1>3, PTL DEF SpecFixes
=============================================================================
