----------------------- MODULE StarPUSampleSortProofs -----------------------
(***************************************************************************)
(* For every number of tasks and every input, the phases of the StarPU     *)
(* sample sort never overlap, and of distinct keys in blocks of one size   *)
(* no bucket gets two blocks' worth.                                       *)
(*                                                                         *)
(* PhasesApart alone is not inductive: that no task is left when a phase   *)
(* ends rests on how far the main thread has got in the loop that          *)
(* unregisters the handles.  BucketsBalanced needs what every phase has    *)
(* made of the keys when the next one starts, which PhasesApart allows to  *)
(* be said at all, and then an argument by counting.                       *)
(***************************************************************************)
EXTENDS StarPUSampleSort, FunctionTheorems, FiniteSetTheorems, SequenceTheorems,
        WellFoundedInduction, TLAPS

----------------------------------------------------------------------------
(***************************************************************************)
(* The phases.                                                             *)
(***************************************************************************)

\* where the main thread can be
Places == {"sort", "sorted", "split", "bucket", "bucketed", "place", "gather", "gathered", "done"}

\* The main thread is somewhere in its loops, and only tasks exist that it
\* submits.
PlacesOK ==
  /\ pc \in Places
  /\ i \in Cpus
  /\ running \subseteq {"I", "III", "IV"} \X Cpus

\* While handles are unregistered the tasks of those before are over.
UnregisteredEnded ==
  pc \in {"sorted", "bucketed"} => \A t \in running : t[2] >= i

\* the phases, inductively
PhaseInv == PlacesOK /\ PhasesApart /\ UnregisteredEnded

\* At the start nothing runs.
LEMMA InitPhases == Init => PhaseInv
  BY ParametersAssumption DEF Init, PhaseInv, PlacesOK, PhasesApart, UnregisteredEnded, Places, Cpus

\* A submission adds a task of the phase the main thread is in.
LEMMA SubmitPhases ==
  ASSUME NEW phase, NEW at, NEW next, PhaseInv, Submit(phase, at, next),
         \/ phase = "I" /\ at = "sort" /\ next = "sorted"
         \/ phase = "III" /\ at = "bucket" /\ next = "bucketed"
         \/ phase = "IV" /\ at = "gather" /\ next = "gathered"
  PROVE  PhaseInv'
<1>1. pc = at /\ running' = running \cup {<<phase, i>>} /\ i \in Cpus /\ NUM_CPU \in Nat \ {0}
  BY ParametersAssumption DEF Submit, PhaseInv, PlacesOK
<1>2. i' \in Cpus /\ pc' \in {at, next} /\ (pc' = next => i' = 0)
  BY <1>1 DEF Submit, Loop, Cpus
<1>3. PlacesOK'
  BY <1>1, <1>2 DEF PhaseInv, PlacesOK, Places
<1>4. PhasesApart'
  BY <1>1, <1>2 DEF PhaseInv, PhasesApart, PhaseOf
<1>5. UnregisteredEnded'
  <2>1. SUFFICES ASSUME pc' \in {"sorted", "bucketed"}, NEW t \in running' PROVE t[2] >= i'
    BY DEF UnregisteredEnded
  <2>2. i' = 0
    BY <1>2, <2>1
  <2>3. t[2] \in Cpus
    BY <1>3 DEF PlacesOK
  <2> QED BY <2>2, <2>3, <1>1 DEF Cpus
<1> QED BY <1>3, <1>4, <1>5 DEF PhaseInv

\* Unregistering waits for the one task the loop has come to, so that none is
\* left at its end.
LEMMA UnregisterPhases ==
  ASSUME NEW phase, NEW at, NEW next, PhaseInv, Unregister(phase, at, next),
         \/ phase = "I" /\ at = "sorted" /\ next = "split"
         \/ phase = "III" /\ at = "bucketed" /\ next = "place"
  PROVE  PhaseInv'
<1>1. pc = at /\ running' = running /\ i \in Cpus /\ NUM_CPU \in Nat \ {0} /\ <<phase, i>> \notin running
  BY ParametersAssumption DEF Unregister, PhaseInv, PlacesOK
<1>2. ASSUME NEW t \in running PROVE t[2] \in Cpus /\ t[2] > i
  <2>1. t[1] = phase /\ t[2] >= i /\ t = <<t[1], t[2]>> /\ t[2] \in Cpus
    BY <1>1, <1>2 DEF PhaseInv, PhasesApart, PhaseOf, UnregisteredEnded, PlacesOK
  <2>2. t[2] # i
    BY <2>1, <1>1
  <2> QED BY <2>1, <2>2, <1>1 DEF Cpus
<1>3. CASE i + 1 < NUM_CPU
  <2>1. pc' = pc /\ i' = i + 1
    BY <1>3 DEF Unregister, Loop
  <2>2. PlacesOK'
    BY <1>1, <1>3, <2>1 DEF PhaseInv, PlacesOK, Cpus
  <2>3. PhasesApart'
    BY <1>1, <2>1 DEF PhaseInv, PhasesApart
  <2>4. UnregisteredEnded'
    BY <1>1, <1>2, <2>1 DEF UnregisteredEnded, Cpus
  <2> QED BY <2>2, <2>3, <2>4 DEF PhaseInv
<1>4. CASE ~(i + 1 < NUM_CPU)
  <2>1. pc' = next /\ i' = 0
    BY <1>4 DEF Unregister, Loop
  <2>2. running = {}
    BY <1>1, <1>2, <1>4 DEF Cpus
  <2> QED BY <1>1, <2>1, <2>2 DEF PhaseInv, PlacesOK, PhasesApart, UnregisteredEnded, Places, Cpus
<1> QED BY <1>3, <1>4

\* A task that ends leaves the others as they were.
LEMMA EndsPhases ==
  ASSUME NEW phase, NEW c, PhaseInv, Ends(phase, c)
  PROVE  PhaseInv'
BY DEF Ends, PhaseInv, PlacesOK, PhasesApart, UnregisteredEnded

\* Each step keeps the phases apart.
LEMMA NextPhases == PhaseInv /\ [Next]_vars => PhaseInv'
<1> SUFFICES ASSUME PhaseInv, [Next]_vars PROVE PhaseInv'
  OBVIOUS
<1>1. CASE SubmitSort
  BY <1>1, SubmitPhases DEF SubmitSort
<1>2. CASE UnregisterSorted
  BY <1>2, UnregisterPhases DEF UnregisterSorted
<1>3. CASE ChooseSplitters
  BY <1>3 DEF ChooseSplitters, PhaseInv, PlacesOK, PhasesApart, UnregisteredEnded, PhaseOf, Places
<1>4. CASE SubmitBucket
  BY <1>4, SubmitPhases DEF SubmitBucket
<1>5. CASE UnregisterBucketed
  BY <1>5, UnregisterPhases DEF UnregisterBucketed
<1>6. CASE PlaceBuckets
  BY <1>6 DEF PlaceBuckets, PhaseInv, PlacesOK, PhasesApart, UnregisteredEnded, PhaseOf, Places
<1>7. CASE SubmitGather
  BY <1>7, SubmitPhases DEF SubmitGather
<1>8. CASE WaitForAll
  BY <1>8 DEF WaitForAll, PhaseInv, PlacesOK, PhasesApart, UnregisteredEnded, Places
<1>9. CASE Finished
  BY <1>9 DEF Finished, vars, PhaseInv, PlacesOK, PhasesApart, UnregisteredEnded
<1>10. ASSUME NEW c \in Cpus, Task(c) PROVE PhaseInv'
  BY <1>10, EndsPhases DEF Task, cpu_phaseI, cpu_phaseIII, cpu_phaseIV
<1>11. CASE UNCHANGED vars
  BY <1>11 DEF vars, PhaseInv, PlacesOK, PhasesApart, UnregisteredEnded
<1> QED BY <1>1, <1>2, <1>3, <1>4, <1>5, <1>6, <1>7, <1>8, <1>9, <1>10, <1>11 DEF Next, Main

\* However many blocks there are and in whatever order the workers run the
\* tasks, no task of a phase is left when the main thread uses its results.
THEOREM PhasesNeverOverlap == Spec => []PhasesApart
<1>1. PhaseInv => PhasesApart
  BY DEF PhaseInv
<1> QED BY InitPhases, NextPhases, <1>1, PTL DEF Spec

----------------------------------------------------------------------------
(***************************************************************************)
(* Least elements, initial parts, sums and sorting.                        *)
(***************************************************************************)

\* Numbers have a least one.
LEMMA LeastNatural ==
  ASSUME NEW T, T \subseteq Nat, T # {}
  PROVE  \E m \in T : \A j \in T : m <= j
<1>1. PICK m \in T : \A j \in T : ~ (<<j, m>> \in OpToRel(<, Nat))
  BY NatLessThanWellFounded, WFMin
<1>2. \A j \in T : ~ (j < m)
  BY <1>1 DEF OpToRel
<1> QED BY <1>2

\* Min picks the least of numbers.
LEMMA MinOf ==
  ASSUME NEW T, T \subseteq Nat, T # {}
  PROVE  Min(T) \in T /\ \A j \in T : Min(T) <= j
  BY LeastNatural DEF Min

\* A set of places that misses none before one it has is counted by its last.
LEMMA InitialPart ==
  ASSUME NEW M \in Nat, NEW T, T \subseteq 1..M, \A x \in T, y \in 1..M : y <= x => y \in T
  PROVE  /\ IsFiniteSet(T) /\ Cardinality(T) \in 0..M
         /\ T = 1..Cardinality(T)
<1> DEFINE Missed == {x \in 1..M+1 : x \notin T}
<1>1. PICK m \in Missed : \A x \in Missed : m <= x
  <2>1. Missed \subseteq Nat /\ M + 1 \in Missed
    OBVIOUS
  <2> HIDE DEF Missed
  <2> QED BY <2>1, LeastNatural
<1>2. m \in 1..M+1 /\ m \notin T /\ \A x \in 1..m-1 : x \in T
  BY <1>1
<1>3. T = 1..m-1
  <2>1. ASSUME NEW x \in T PROVE x \in 1..m-1
    <3>1. ~ (m <= x) /\ x \in 1..M
      BY <1>2
    <3> QED BY <1>2, <3>1
  <2> QED BY <1>2, <2>1
<1>4. IsFiniteSet(1..m-1) /\ Cardinality(1..m-1) = m - 1
  BY <1>2, FS_Interval
<1> QED BY <1>2, <1>3, <1>4

\* the sum of one more number
LEMMA SumGrows ==
  ASSUME NEW n \in Nat, NEW f \in [0..n-1 -> Nat], NEW m \in 0..n
  PROVE  /\ Together(f, 0..m-1) \in Nat
         /\ m = 0 => Together(f, 0..m-1) = 0
         /\ m < n => Together(f, 0..m) = Together(f, 0..m-1) + f[m]
<1> DEFINE Parts(l) == UNION {{x} \X (1..f[x]) : x \in 0..l-1}
           Bad == {l \in 0..n : ~ IsFiniteSet(Parts(l))}
<1>1. Parts(0) = {} /\ IsFiniteSet({}) /\ Cardinality({}) = 0
  BY FS_EmptySet
<1>2. ASSUME NEW l \in 0..n-1
      PROVE  Parts(l+1) = Parts(l) \cup ({l} \X (1..f[l])) /\ Parts(l) \cap ({l} \X (1..f[l])) = {}
  <2>1. 0..(l+1)-1 = (0..l-1) \cup {l} /\ l \notin 0..l-1
    OBVIOUS
  <2> QED BY <2>1
<1>3. ASSUME NEW l \in 0..n-1
      PROVE  IsFiniteSet({l} \X (1..f[l])) /\ Cardinality({l} \X (1..f[l])) = f[l]
  <2> DEFINE I == 1..f[l]
  <2>1. f[l] \in Nat
    OBVIOUS
  <2>2. IsFiniteSet(I) /\ Cardinality(I) = f[l]
    BY <2>1, FS_Interval
  <2>3. IsFiniteSet({l}) /\ Cardinality({l}) = 1
    BY FS_Singleton
  <2> HIDE DEF I
  <2>4. IsFiniteSet({l} \X I) /\ Cardinality({l} \X I) = 1 * Cardinality(I)
    BY <2>2, <2>3, FS_Product
  <2> QED BY <2>1, <2>2, <2>4 DEF I
<1> HIDE DEF Parts
<1>4. ASSUME NEW l \in 0..n PROVE IsFiniteSet(Parts(l))
  <2> SUFFICES ASSUME Bad # {} PROVE FALSE
    OBVIOUS
  <2>1. PICK b \in Bad : \A x \in Bad : b <= x
    <3>1. Bad \subseteq Nat
      OBVIOUS
    <3> HIDE DEF Bad
    <3> QED BY <3>1, LeastNatural
  <2>2. b \in 0..n /\ ~ IsFiniteSet(Parts(b)) /\ b # 0
    BY <1>1, <2>1
  <2>3. b - 1 \in 0..n-1 /\ ~ (b <= b - 1)
    BY <2>2
  <2>4. b - 1 \notin Bad /\ b - 1 \in 0..n
    BY <2>1, <2>3
  <2>5. IsFiniteSet(Parts(b-1))
    BY <2>4
  <2>6. Parts(b) = Parts(b-1) \cup ({b-1} \X (1..f[b-1])) /\ IsFiniteSet({b-1} \X (1..f[b-1]))
    <3> DEFINE a == b - 1
    <3>1. a \in 0..n-1 /\ a + 1 = b
      BY <2>3, <2>2
    <3> HIDE DEF a
    <3>2. Parts(a+1) = Parts(a) \cup ({a} \X (1..f[a])) /\ IsFiniteSet({a} \X (1..f[a]))
      BY <1>2, <1>3, <3>1
    <3> QED BY <3>1, <3>2 DEF a
  <2>7. IsFiniteSet(Parts(b-1) \cup ({b-1} \X (1..f[b-1])))
    BY <2>5, <2>6, FS_Union, Zenon
  <2> QED BY <2>2, <2>6, <2>7, Zenon
<1>5. \A l \in 0..n : Together(f, 0..l-1) = Cardinality(Parts(l)) /\ Cardinality(Parts(l)) \in Nat
  <2>1. \A l \in 0..n : Cardinality(Parts(l)) \in Nat
    BY <1>4, FS_CardinalityType
  <2> QED BY <2>1 DEF Together, Parts
<1>6. m = 0 => Together(f, 0..m-1) = 0
  BY <1>1, <1>5
<1>7. ASSUME m < n PROVE Together(f, 0..m) = Together(f, 0..m-1) + f[m]
  <2>1. m \in 0..n-1 /\ m + 1 \in 0..n /\ (m+1) - 1 = m
    BY <1>7
  <2> DEFINE A == Parts(m)  B == {m} \X (1..f[m])
  <2>2. IsFiniteSet(A) /\ Cardinality(A) \in Nat /\ IsFiniteSet(B) /\ Cardinality(B) = f[m] /\ f[m] \in Nat
        /\ A \cap B = {} /\ Parts(m+1) = A \cup B
    BY <1>2, <1>3, <1>4, <1>5, <2>1
  <2>3. Together(f, 0..m) = Cardinality(Parts(m+1))
    <3>1. Together(f, 0..(m+1)-1) = Cardinality(Parts(m+1))
      BY <1>5, <2>1
    <3> QED BY <2>1, <3>1
  <2> HIDE DEF A, B
  <2>4. Cardinality(A \cup B) = Cardinality(A) + Cardinality(B) - Cardinality(A \cap B)
    BY <2>2, FS_Union
  <2>5. Cardinality(A \cap B) = 0
    BY <1>1, <2>2
  <2>6. Together(f, 0..m-1) = Cardinality(A)
    BY <1>5 DEF A
  <2>7. Together(f, 0..m) = Cardinality(A \cup B)
    BY <2>2, <2>3, Zenon
  <2>8. Cardinality(A) \in Nat /\ Cardinality(B) = f[m] /\ f[m] \in Nat
    BY <2>2, Zenon
  <2> QED BY <2>4, <2>5, <2>6, <2>7, <2>8
<1> QED BY <1>5, <1>6, <1>7

\* Inequalities between the terms of three sums add up; one term may exceed by t.
LEMMA SumsCompare ==
  ASSUME NEW n \in Nat, NEW f \in [0..n-1 -> Nat], NEW g \in [0..n-1 -> Nat],
         NEW h \in [0..n-1 -> Nat], NEW a \in Nat, NEW b \in Nat, NEW d \in Nat, NEW t \in Nat, NEW e,
         \A c \in 0..n-1 : a * f[c] + b * g[c] <= b * h[c] + d + (IF c = e THEN t ELSE 0)
  PROVE  a * Together(f, 0..n-1) + b * Together(g, 0..n-1)
         <= b * Together(h, 0..n-1) + d * n + t
<1> DEFINE F(l) == Together(f, 0..l-1)  G(l) == Together(g, 0..l-1)  H(l) == Together(h, 0..l-1)
           Extra(l) == IF e \in 0..l-1 THEN t ELSE 0
           OK(l) == a * F(l) + b * G(l) <= b * H(l) + d * l + Extra(l)
           Bad == {l \in 0..n : ~ OK(l)}
<1>1. \A l \in 0..n : /\ F(l) \in Nat /\ (l = 0 => F(l) = 0)
                      /\ l < n => Together(f, 0..l) = F(l) + f[l]
  BY SumGrows
<1>2. \A l \in 0..n : /\ G(l) \in Nat /\ (l = 0 => G(l) = 0)
                      /\ l < n => Together(g, 0..l) = G(l) + g[l]
  BY SumGrows
<1>3. \A l \in 0..n : /\ H(l) \in Nat /\ (l = 0 => H(l) = 0)
                      /\ l < n => Together(h, 0..l) = H(l) + h[l]
  BY SumGrows
<1> HIDE DEF F, G, H
<1>4. ASSUME NEW l \in 0..n PROVE F(l) \in Nat /\ G(l) \in Nat /\ H(l) \in Nat
  BY <1>1, <1>2, <1>3, Zenon
<1>5. F(0) = 0 /\ G(0) = 0 /\ H(0) = 0
  <2>1. 0 \in 0..n
    OBVIOUS
  <2> QED BY <1>1, <1>2, <1>3, <2>1, Zenon
<1>6. ASSUME NEW l \in 0..n-1
      PROVE  F(l+1) = F(l) + f[l] /\ G(l+1) = G(l) + g[l] /\ H(l+1) = H(l) + h[l]
  <2>1. l \in 0..n /\ l < n /\ (l + 1) - 1 = l
    OBVIOUS
  <2>2. Together(f, 0..l) = F(l) + f[l] /\ Together(g, 0..l) = G(l) + g[l]
        /\ Together(h, 0..l) = H(l) + h[l]
    BY <1>1, <1>2, <1>3, <2>1, Zenon
  <2>3. F(l+1) = Together(f, 0..l) /\ G(l+1) = Together(g, 0..l) /\ H(l+1) = Together(h, 0..l)
    BY <2>1, Zenon DEF F, G, H
  <2> QED BY <2>2, <2>3, Zenon
<1>7. ASSUME NEW l \in 0..n-1 PROVE Extra(l+1) = Extra(l) + (IF l = e THEN t ELSE 0)
  <2>1. 0..(l+1)-1 = (0..l-1) \cup {l} /\ l \notin 0..l-1
    OBVIOUS
  <2>2. CASE l = e
    <3>1. Extra(l+1) = t /\ Extra(l) = 0
      BY <2>1, <2>2
    <3> QED BY <2>2, <3>1
  <2>3. CASE l # e
    <3>1. e \in 0..(l+1)-1 <=> e \in 0..l-1
      BY <2>1, <2>3
    <3>2. Extra(l+1) = Extra(l) /\ Extra(l) \in {0, t}
      BY <3>1, Zenon
    <3> QED BY <2>3, <3>2
  <2> QED BY <2>2, <2>3
<1>8. ASSUME NEW l \in Nat PROVE Extra(l) \in Nat /\ Extra(l) <= t
  <2>1. Extra(l) \in {0, t}
    BY Zenon
  <2> HIDE DEF Extra
  <2> QED BY <2>1
<1> HIDE DEF Extra
<1>9. OK(0)
  <2>1. Extra(0) = 0
    BY DEF Extra
  <2>2. a * 0 = 0 /\ b * 0 = 0 /\ d * 0 = 0
    OBVIOUS
  <2> QED BY <1>5, <2>1, <2>2
<1>10. ASSUME NEW l \in 0..n-1, OK(l) PROVE OK(l+1)
  <2> DEFINE u == IF l = e THEN t ELSE 0
  <2>1. a * f[l] + b * g[l] <= b * h[l] + d + u /\ u \in Nat
    OBVIOUS
  <2>2. Extra(l+1) = Extra(l) + u /\ Extra(l) \in Nat
    <3>1. l \in Nat
      OBVIOUS
    <3> QED BY <1>7, <1>8, <3>1, Zenon
  <2> HIDE DEF u
  <2>3. f[l] \in Nat /\ g[l] \in Nat /\ h[l] \in Nat /\ l \in 0..n /\ l \in Nat
    OBVIOUS
  <2>4. F(l) \in Nat /\ G(l) \in Nat /\ H(l) \in Nat
    BY <1>4, <2>3, Zenon
  <2> DEFINE aF == a * F(l)  af == a * f[l]  bG == b * G(l)  bg == b * g[l]
             bH == b * H(l)  bh == b * h[l]  dl == d * l
  <2>5. F(l+1) = F(l) + f[l] /\ G(l+1) = G(l) + g[l] /\ H(l+1) = H(l) + h[l]
    BY <1>6, Zenon
  <2>6. a * (F(l) + f[l]) = aF + af /\ aF \in Nat /\ af \in Nat
    BY <2>3, <2>4
  <2>7. b * (G(l) + g[l]) = bG + bg /\ bG \in Nat /\ bg \in Nat
    BY <2>3, <2>4
  <2>8. b * (H(l) + h[l]) = bH + bh /\ bH \in Nat /\ bh \in Nat
    BY <2>3, <2>4
  <2>9. d * (l + 1) = dl + d /\ dl \in Nat
    BY <2>3
  <2>10. aF + bG <= bH + dl + Extra(l)
    BY <1>10
  <2>11. af + bg <= bh + d + u
    BY <2>1
  <2>12. a * F(l+1) = aF + af /\ b * G(l+1) = bG + bg /\ b * H(l+1) = bH + bh
    BY <2>5, <2>6, <2>7, <2>8, Zenon
  <2> HIDE DEF aF, af, bG, bg, bH, bh, dl
  <2>13. aF + af + (bG + bg) <= bH + bh + (dl + d) + (Extra(l) + u)
    <3>1. /\ aF \in Nat /\ af \in Nat /\ bG \in Nat /\ bg \in Nat /\ bH \in Nat /\ bh \in Nat
          /\ dl \in Nat /\ u \in Nat /\ Extra(l) \in Nat
      BY <2>1, <2>2, <2>6, <2>7, <2>8, <2>9, Zenon
    <3> QED BY <2>10, <2>11, <3>1
  <2> QED BY <2>2, <2>9, <2>12, <2>13, Zenon
<1> HIDE DEF OK
<1>11. OK(n)
  <2> SUFFICES ASSUME Bad # {} PROVE FALSE
    <3>1. n \in 0..n
      OBVIOUS
    <3> QED BY <3>1, Zenon
  <2>1. PICK m \in Bad : \A x \in Bad : m <= x
    <3>1. Bad \subseteq Nat
      OBVIOUS
    <3> HIDE DEF Bad
    <3> QED BY <3>1, LeastNatural
  <2>2. m \in 0..n /\ ~ OK(m) /\ m # 0
    BY <1>9, <2>1
  <2>3. m - 1 \in 0..n-1 /\ m - 1 \in 0..n /\ ~ (m <= m - 1) /\ (m - 1) + 1 = m
    BY <2>2
  <2>4. OK(m-1)
    BY <2>1, <2>3
  <2>5. OK((m-1)+1)
    BY <1>10, <2>3, <2>4
  <2> QED BY <2>2, <2>3, <2>5
<1>12. Extra(n) <= t /\ Extra(n) \in Nat
  BY <1>8, Zenon
<1> QED
  <2>1. a * F(n) + b * G(n) <= b * H(n) + d * n + Extra(n)
    BY <1>11 DEF OK
  <2>2. a * F(n) \in Nat /\ b * G(n) \in Nat /\ b * H(n) \in Nat /\ d * n \in Nat
    BY <1>4
  <2>3. a * F(n) + b * G(n) <= b * H(n) + d * n + t
    BY <1>12, <2>1, <2>2
  <2> QED BY <2>3 DEF F, G, H

\* no element of s is above a later one
Rising(s, len) == \A x, y \in 1..len : x <= y => s[x] <= s[y]

\* at says where the elements of the sorted s come from.
Sorts(s, len, at) ==
  /\ at \in [1..len -> 1..len]
  /\ \A x, y \in 1..len : at[x] = at[y] => x = y
  /\ \A l \in 1..len : \E x \in 1..len : at[x] = l
  /\ qsort(s) = [x \in 1..len |-> s[at[x]]]
  /\ Rising(qsort(s), len)

\* qsort returns the elements it is given, in order: the places of the elements
\* are all different, and so they are all places.
LEMMA QsortIs ==
  ASSUME NEW len \in Nat, NEW s, DOMAIN s = 1..len, \A l \in 1..len : s[l] \in Int
  PROVE  \E at : Sorts(s, len, at)
<1> DEFINE NotAbove(l) == {j \in 1..len : s[j] < s[l] \/ (s[j] = s[l] /\ j <= l)}
           r == [l \in 1..len |-> Rank(s, l)]
<1>1. \A l \in 1..len : Rank(s, l) = Cardinality(NotAbove(l))
  BY DEF Rank
<1>2. IsFiniteSet(1..len) /\ Cardinality(1..len) = len
  BY FS_Interval
<1>3. ASSUME NEW l \in 1..len
      PROVE  /\ IsFiniteSet(NotAbove(l)) /\ Rank(s, l) \in 1..len
  <2>1. NotAbove(l) \in SUBSET (1..len) /\ l \in NotAbove(l)
    OBVIOUS
  <2> HIDE DEF NotAbove
  <2>2. IsFiniteSet(NotAbove(l)) /\ Cardinality(NotAbove(l)) <= len
    BY <1>2, <2>1, FS_Subset
  <2>3. Cardinality(NotAbove(l)) \in Nat /\ Cardinality(NotAbove(l)) # 0
    BY <2>1, <2>2, FS_CardinalityType, FS_EmptySet
  <2> QED BY <1>1, <2>2, <2>3
<1>4. ASSUME NEW l \in 1..len, NEW h \in 1..len, l # h,
             s[l] < s[h] \/ (s[l] = s[h] /\ l <= h)
      PROVE  Rank(s, l) < Rank(s, h)
  <2>1. NotAbove(l) \in SUBSET NotAbove(h)
    BY <1>4
  <2>2. h \in NotAbove(h) /\ h \notin NotAbove(l)
    BY <1>4
  <2> HIDE DEF NotAbove
  <2>3. Cardinality(NotAbove(l)) <= Cardinality(NotAbove(h))
        /\ Cardinality(NotAbove(l)) # Cardinality(NotAbove(h))
    BY <1>3, <2>1, <2>2, FS_Subset
  <2> QED BY <1>1, <1>3, <2>3
<1>5. \A x \in 1..len : \E l \in 1..len : Rank(s, l) = x
  <2>1. r \in [1..len -> 1..len]
    BY <1>3
  <2>2. ASSUME NEW l \in 1..len, NEW h \in 1..len, l # h PROVE Rank(s, l) # Rank(s, h)
    <3>1. \/ s[l] < s[h] \/ (s[l] = s[h] /\ l <= h)
          \/ s[h] < s[l] \/ (s[h] = s[l] /\ h <= l)
      OBVIOUS
    <3>2. Rank(s, l) \in 1..len /\ Rank(s, h) \in 1..len
      BY <1>3, Zenon
    <3> QED BY <1>4, <2>2, <3>1, <3>2
  <2>3. r \in Injection(1..len, 1..len)
    BY <2>1, <2>2 DEF Injection, IsInjective
  <2>4. r \in Surjection(1..len, 1..len)
    <3> HIDE DEF r
    <3> QED BY <1>2, <2>3, FS_Injection
  <2> QED BY <2>4 DEF Surjection
<1> DEFINE At(x) == CHOOSE l \in 1..len : Rank(s, l) = x
<1>6. \A x \in 1..len : At(x) \in 1..len /\ Rank(s, At(x)) = x
  BY <1>5
<1>7. qsort(s) = [x \in 1..len |-> s[At(x)]]
  BY DEF qsort
<1> HIDE DEF At
<1>8. Rising(qsort(s), len)
  <2> SUFFICES ASSUME NEW x \in 1..len, NEW y \in 1..len, x <= y
               PROVE  s[At(x)] <= s[At(y)]
    BY <1>7 DEF Rising
  <2>1. ~ s[At(y)] < s[At(x)]
    <3> SUFFICES ASSUME s[At(y)] < s[At(x)] PROVE FALSE
      OBVIOUS
    <3>1. At(x) # At(y)
      BY <1>6
    <3>2. Rank(s, At(y)) < Rank(s, At(x))
      BY <1>4, <1>6, <3>1
    <3> QED BY <1>6, <3>2
  <2> QED BY <1>6, <2>1
<1>9. \A l \in 1..len : \E x \in 1..len : At(x) = l
  <2> DEFINE at == [x \in 1..len |-> At(x)]
  <2>1. at \in [1..len -> 1..len] /\ \A x, y \in 1..len : at[x] = at[y] => x = y
    BY <1>6
  <2>2. at \in Injection(1..len, 1..len)
    <3> HIDE DEF at
    <3> QED BY <2>1 DEF Injection, IsInjective
  <2>3. at \in Surjection(1..len, 1..len)
    <3> HIDE DEF at
    <3> QED BY <1>2, <2>2, FS_Injection
  <2> QED BY <2>3 DEF Surjection
<1> DEFINE at == [x \in 1..len |-> At(x)]
<1>10. /\ at \in [1..len -> 1..len] /\ \A x \in 1..len : at[x] = At(x)
       /\ \A x, y \in 1..len : at[x] = at[y] => x = y
       /\ \A l \in 1..len : \E x \in 1..len : at[x] = l
  BY <1>6, <1>9
<1>11. qsort(s) = [x \in 1..len |-> s[at[x]]]
  BY <1>7, <1>10
<1> HIDE DEF at
<1> QED BY <1>8, <1>10, <1>11 DEF Sorts

\* The x-th of the sorted elements: x - 1 at most are below it, and x at least
\* not above it.
LEMMA SplitCounts ==
  ASSUME NEW len \in Nat, NEW s, DOMAIN s = 1..len, \A l \in 1..len : s[l] \in Int, NEW x \in 1..len
  PROVE  /\ Cardinality({q \in 1..len : s[q] < qsort(s)[x]}) <= x - 1
         /\ x <= Cardinality({q \in 1..len : s[q] <= qsort(s)[x]})
<1>1. PICK at : Sorts(s, len, at)
  BY QsortIs
<1> DEFINE v == qsort(s)[x]
           B == {q \in 1..len : s[q] < v}  U == {q \in 1..len : s[q] <= v}
<1>2. v = s[at[x]] /\ v \in Int /\ \A y \in 1..len : at[y] \in 1..len /\ qsort(s)[y] = s[at[y]]
  BY <1>1 DEF Sorts
<1>3. \A y \in 1..len : /\ y <= x => s[at[y]] <= v
                        /\ x <= y => v <= s[at[y]]
  BY <1>1, <1>2 DEF Sorts, Rising
<1> HIDE DEF v
<1>4. Cardinality(B) <= x - 1
  <2> DEFINE f == [y \in 1..x-1 |-> at[y]]
             T == {at[y] : y \in 1..x-1}
  <2>1. f \in Surjection(1..x-1, T)
    BY DEF Surjection
  <2>2. IsFiniteSet(1..x-1) /\ Cardinality(1..x-1) = x - 1
    BY FS_Interval
  <2>3. B \in SUBSET T
    <3> SUFFICES ASSUME NEW q \in B PROVE q \in T
      OBVIOUS
    <3>1. PICK y \in 1..len : at[y] = q
      BY <1>1 DEF Sorts
    <3>2. s[q] \in Int /\ s[q] < v
      OBVIOUS
    <3>3. ~ (x <= y)
      BY <1>2, <1>3, <3>1, <3>2
    <3>4. y \in 1..x-1
      BY <3>3
    <3> QED BY <3>1, <3>4
  <2> HIDE DEF f, T, B
  <2>4. IsFiniteSet(T) /\ Cardinality(T) <= x - 1
    BY <2>1, <2>2, FS_Surjection
  <2>5. IsFiniteSet(B) /\ Cardinality(B) <= Cardinality(T)
    BY <2>3, <2>4, FS_Subset
  <2>6. Cardinality(B) \in Nat /\ Cardinality(T) \in Nat
    BY <2>4, <2>5, FS_CardinalityType
  <2> QED BY <2>4, <2>5, <2>6
<1>5. x <= Cardinality(U)
  <2> DEFINE f == [y \in 1..x |-> at[y]]
  <2>1. \A y \in 1..x : y \in 1..len /\ y <= x
    OBVIOUS
  <2>2. f \in [1..x -> U]
    BY <1>2, <1>3, <2>1
  <2>3. \A y, z \in 1..x : f[y] = f[z] => y = z
    BY <1>1, <2>1 DEF Sorts
  <2>4. IsFiniteSet(1..len) /\ U \in SUBSET (1..len)
    BY FS_Interval
  <2>5. IsFiniteSet(1..x) /\ Cardinality(1..x) = x
    BY FS_Interval
  <2> HIDE DEF f, U
  <2>6. f \in Injection(1..x, U)
    BY <2>2, <2>3 DEF Injection, IsInjective
  <2>7. IsFiniteSet(U)
    BY <2>4, FS_Subset
  <2> QED BY <2>5, <2>6, <2>7, FS_Injection
<1> QED BY <1>4, <1>5 DEF v

----------------------------------------------------------------------------
(***************************************************************************)
(* The balance of the buckets.  Of an array of distinct keys that NUM_CPU  *)
(* divides, the invariant follows the phases: the blocks whose task has    *)
(* ended are sorted and sampled, the bounds cut the samples into parts of  *)
(* NUM_CPU-1, and the buckets hold what the bounds say.                    *)
(***************************************************************************)
p == NUM_CPU
w == reg_blk_size

\* the arrays BucketsBalanced speaks of
Regular == w > 0 /\ Len0 % p = 0 /\ IsInjective(input)

\* the tasks of phases I and III that have ended
SortEnded(c) ==
  \/ pc \notin {"sort", "sorted"}
  \/ (pc = "sort" => c < i) /\ <<"I", c>> \notin running
DealEnded(c) ==
  \/ pc \notin {"sort", "sorted", "split", "bucket", "bucketed"}
  \/ pc \in {"bucket", "bucketed"} /\ (pc = "bucket" => c < i) /\ <<"III", c>> \notin running

\* the x-th key of block c, and its k-th sample
KeyAt(c, x) == arr[Base(c) + x]
SampleAt(c, k) == KeyAt(c, SampleIndex(w, k) + 1)

\* the samples below v
Below(v) == UNION {{c} \X {k \in 1..p-1 : SampleAt(c, k) < v} : c \in Cpus}

\* the parts of the invariant, in the order in which the phases make them true
KeysDistinct ==
  /\ arr \in [1..Len0 -> Nat]
  /\ \A k, l \in 1..Len0 : arr[k] = arr[l] => k = l
BlocksSorted ==
  \A c \in Cpus : SortEnded(c) => \A x, y \in 1..w : x <= y => KeyAt(c, x) <= KeyAt(c, y)
BlocksSampled ==
  pc \in {"sort", "sorted", "split"} =>
    /\ DOMAIN splitters = 1..p*(p-1)
    /\ \A c \in Cpus : SortEnded(c) =>
         \A k \in 1..p-1 : splitters[c*(p-1) + k] = SampleAt(c, k)
BoundsHold ==
  \A s \in 1..p-1 : /\ g_splitters[s] \in Nat
                    /\ Cardinality(Below(g_splitters[s])) <= s*(p-1)
                    /\ s*(p-1) + 1 <= Cardinality(Below(g_splitters[s] + 1))
BoundsSpread == pc \notin {"sort", "sorted", "split"} => BoundsHold
BucketsDealt ==
  /\ DOMAIN buckets = Cpus
  /\ \A c \in Cpus : \/ ~ DealEnded(c) /\ buckets[c] = [s \in Cpus |-> <<>>]
                     \/ DealEnded(c) /\ \A s \in Cpus :
                          Len(buckets[c][s]) = Cardinality(Dealt(Block(c), s))
SizesAdded ==
  bucket_sizes = [s \in Cpus |-> IF pc \in {"gather", "gathered", "done"}
                                 THEN BucketSize(s) ELSE 0]

\* Only tasks exist that the loop has submitted, and each loop starts anew.
LoopsOK == /\ pc \in {"sort", "bucket", "gather"} => \A t \in running : t[2] < i
           /\ pc = "split" => i = 0

\* the inductive invariant
RegularInv == /\ KeysDistinct /\ BlocksSorted /\ BlocksSampled
              /\ BoundsSpread /\ BucketsDealt /\ SizesAdded
BalanceInv == PhaseInv /\ LoopsOK /\ input \in Seq(Nat) /\ (Regular => RegularInv)

----------------------------------------------------------------------------
(***************************************************************************)
(* Blocks and samples.                                                     *)
(***************************************************************************)

\* Blocks of one size, one behind the other, and nothing after them.
Cut == /\ p \in Nat \ {0} /\ w \in Nat \ {0} /\ Len0 \in Nat /\ Cpus = 0..p-1
       /\ \A c \in Cpus : /\ BlockSize(c) = w /\ Base(c) \in Nat
                          /\ Base(c) + w <= Len0
       /\ \A c, e \in Cpus : c < e => Base(c) + w <= Base(e)

\* The arrays BucketsBalanced speaks of are cut so.
LEMMA CutIs == ASSUME Regular, input \in Seq(Nat) PROVE Cut
<1>1. p \in Nat \ {0} /\ Len0 \in Nat /\ Cpus = 0..p-1
  BY ParametersAssumption DEF p, Len0, Cpus
<1>2. w \in Nat \ {0} /\ Len0 = p * w
  <2> DEFINE L == Len0
  <2>1. L \in Nat /\ w = L \div p /\ L % p = 0 /\ w > 0
    BY <1>1 DEF w, reg_blk_size, p, Regular
  <2> HIDE DEF L
  <2>2. L \div p \in Nat /\ L = p * (L \div p) + (L % p)
    BY <1>1, <2>1, SMT
  <2> QED BY <1>1, <2>1, <2>2 DEF L
<1>3. ASSUME NEW c \in Cpus PROVE BlockSize(c) = w /\ Base(c) = w * c
  BY <1>1 DEF BlockSize, last_blk_size, Base, w, Regular, p
<1>4. ASSUME NEW c \in Cpus PROVE Base(c) \in Nat /\ Base(c) + w <= Len0
  <2>1. c \in Nat /\ c + 1 <= p
    BY <1>1
  <2>2. w * c \in Nat /\ w * (c + 1) = w * c + w /\ w * (c + 1) <= w * p /\ w * p = p * w
    BY <1>1, <1>2, <2>1, SMT
  <2> QED BY <1>1, <1>2, <1>3, <2>2
<1>5. ASSUME NEW c \in Cpus, NEW e \in Cpus, c < e PROVE Base(c) + w <= Base(e)
  <2>1. c \in Nat /\ e \in Nat /\ c + 1 <= e
    BY <1>1, <1>5
  <2>2. w * c \in Nat /\ w * e \in Nat /\ w * (c + 1) = w * c + w /\ w * (c + 1) <= w * e
    BY <1>1, <1>2, <2>1, SMT
  <2> QED BY <1>2, <1>3, <2>2
<1> QED BY <1>1, <1>2, <1>3, <1>4, <1>5 DEF Cut

\* the keys of a block
LEMMA BlockIs ==
  ASSUME Cut, NEW c \in Cpus, arr \in [1..Len0 -> Nat]
  PROVE  /\ Block(c) \in Seq(Nat) /\ Len(Block(c)) = w /\ DOMAIN Block(c) = 1..w
         /\ \A x \in 1..w : Block(c)[x] = KeyAt(c, x) /\ KeyAt(c, x) \in Nat
<1> DEFINE b == Base(c)  z == w  L == Len0  s == arr
<1>1. b \in Nat /\ z \in Nat /\ L \in Nat /\ b + z <= L /\ BlockSize(c) = z
  BY DEF Cut
<1>2. s \in Seq(Nat) /\ Len(s) = L /\ \A l \in 1..L : s[l] \in Nat
  <2> HIDE DEF s, L
  <2>1. s \in [1..L -> Nat]
    BY DEF s, L
  <2> QED BY <1>1, <2>1
<1>3. Block(c) = SubSeq(s, b + 1, b + z)
  BY <1>1 DEF Block
<1> HIDE DEF b, z, L, s
<1>4. /\ SubSeq(s, b + 1, b + z) \in Seq(Nat) /\ Len(SubSeq(s, b + 1, b + z)) = z
      /\ DOMAIN SubSeq(s, b + 1, b + z) = 1..z
      /\ \A x \in 1..z : SubSeq(s, b + 1, b + z)[x] = s[b + x] /\ b + x \in 1..L
  BY <1>1, <1>2
<1> QED BY <1>2, <1>3, <1>4 DEF b, z, L, s, KeyAt

\* A sample is taken from its share of the block, or from just before it.
LEMMA IndexIs ==
  ASSUME Cut, NEW k \in 1..p-1
  PROVE  /\ SampleIndex(w, k) \in 0..w-1
         /\ p * SampleIndex(w, k) <= w * k /\ w * k <= p * (SampleIndex(w, k) + 1)
<1> DEFINE z == w
<1>1. z \in Nat \ {0} /\ p \in Nat \ {0} /\ p = NUM_CPU /\ k \in Nat \ {0} /\ k < p
  BY DEF Cut, p
<1> HIDE DEF z
<1> DEFINE P == z * k  q == P \div p  d == IF <<z, k>> \in RoundedDown THEN 1 ELSE 0
<1>2. P \in Nat \ {0} /\ P < z * p
  BY <1>1, SMT
<1>3. <<z, k>> \in RoundedDown => P % p = 0
  BY <1>1, ParametersAssumption
<1> HIDE DEF P
<1>4. q \in Nat /\ p * q + (P % p) = P /\ P % p \in 0..p-1
  BY <1>1, <1>2, SMT
<1> HIDE DEF q
<1>5. d \in {0, 1} /\ (d = 1 => P % p = 0)
  BY <1>3
<1>6. SampleIndex(z, k) = q - d
  BY <1>1 DEF SampleIndex, q, P
<1> HIDE DEF d
<1>7. p * q \in Nat /\ p * (q + 1) = p * q + p /\ p * (q - 1) = p * q - p
  BY <1>1, <1>4, SMT
<1>8. q < z
  <2> SUFFICES ASSUME z <= q PROVE FALSE
    BY <1>1, <1>4
  <2>1. z * p <= p * q
    BY <1>1, <1>4, SMT
  <2>2. z * p \in Nat
    BY <1>1, SMT
  <2> QED BY <1>2, <1>4, <1>7, <2>1, <2>2
<1>9. CASE d = 0
  <2>1. SampleIndex(z, k) = q
    BY <1>4, <1>6, <1>9
  <2>2. p * q <= P /\ P <= p * (q + 1)
    BY <1>1, <1>2, <1>4, <1>7
  <2> QED BY <1>1, <1>4, <1>8, <2>1, <2>2 DEF z, P
<1>10. CASE d = 1
  <2>1. P = p * q /\ q # 0
    <3>1. P = p * q
      BY <1>2, <1>4, <1>5, <1>7, <1>10
    <3>2. p * 0 = 0
      BY <1>1
    <3> QED BY <1>2, <3>1, <3>2
  <2>2. SampleIndex(z, k) = q - 1 /\ (q - 1) + 1 = q /\ q - 1 \in 0..z-1
    BY <1>4, <1>6, <1>8, <1>10, <2>1, <1>1
  <2>3. p * (q - 1) <= P
    BY <1>1, <1>7, <2>1
  <2> QED BY <2>1, <2>2, <2>3, <1>7 DEF z, P
<1> QED BY <1>5, <1>9, <1>10

\* the samples among the first m keys of a block, by their numbers
First(m) == {k \in 1..p-1 : SampleIndex(w, k) < m}

\* Samples are regular: there are as many of them as keys, up to scale.
LEMMA FirstIs ==
  ASSUME Cut, NEW m \in 0..w
  PROVE  /\ Cardinality(First(m)) \in 0..p-1 /\ First(m) = 1..Cardinality(First(m))
         /\ w * Cardinality(First(m)) <= p * m
         /\ p * m <= w * Cardinality(First(m)) + w
<1> DEFINE z == w  T == First(m)  t == Cardinality(T)
<1>1. z \in Nat \ {0} /\ p \in Nat \ {0} /\ m \in Nat /\ m <= z
  BY DEF Cut
<1>2. ASSUME NEW k \in 1..p-1
      PROVE  /\ SampleIndex(z, k) \in 0..z-1
             /\ p * SampleIndex(z, k) <= z * k /\ z * k <= p * (SampleIndex(z, k) + 1)
  BY IndexIs
<1>3. T = {k \in 1..p-1 : SampleIndex(z, k) < m}
  BY DEF First
<1> HIDE DEF z, T
<1>4. ASSUME NEW x \in T, NEW y \in 1..p-1, y <= x PROVE y \in T
  <2> DEFINE a == SampleIndex(z, y)  b == SampleIndex(z, x)
  <2>1. x \in 1..p-1 /\ b < m
    BY <1>3
  <2>2. a \in 0..z-1 /\ b \in 0..z-1 /\ p * a <= z * y /\ z * x <= p * (b + 1)
    BY <1>2, <2>1
  <2> HIDE DEF a, b
  <2>3. a < m
    <3> SUFFICES ASSUME m <= a PROVE FALSE
      BY <1>1, <2>2
    <3>1. y # x
      BY <1>1, <2>1, <2>2 DEF a, b
    <3>2. y + 1 <= x /\ b + 1 <= a
      BY <1>1, <1>4, <2>1, <2>2, <3>1
    <3>3. p * (b + 1) <= p * a
      BY <1>1, <2>2, <3>2, SMT
    <3>4. z * (y + 1) <= z * x /\ z * (y + 1) = z * y + z /\ z * y \in Nat /\ z * x \in Nat
      BY <1>1, <2>1, <3>2, SMT
    <3>5. p * a \in Nat /\ p * (b + 1) \in Nat
      BY <1>1, <2>2, SMT
    <3> QED BY <1>1, <2>2, <3>3, <3>4, <3>5
  <2> QED BY <1>3, <2>3 DEF a
<1>5. t \in 0..p-1 /\ T = 1..t
  <2>1. T \subseteq 1..p-1 /\ p - 1 \in Nat
    BY <1>1, <1>3
  <2> QED BY <1>4, <2>1, InitialPart
<1> HIDE DEF t
<1>6. z * t <= p * m
  <2>1. CASE t = 0
    <3>1. z * 0 = 0 /\ p * m \in Nat
      BY <1>1, SMT
    <3> QED BY <2>1, <3>1
  <2>2. CASE t # 0
    <3> DEFINE a == SampleIndex(z, t)
    <3>1. t \in 1..p-1 /\ t \in T
      BY <1>1, <1>5, <2>2
    <3>2. a \in 0..z-1 /\ a < m /\ z * t <= p * (a + 1)
      BY <1>2, <1>3, <3>1
    <3> HIDE DEF a
    <3>3. p * (a + 1) <= p * m /\ p * (a + 1) \in Nat /\ p * m \in Nat /\ z * t \in Nat
      BY <1>1, <3>1, <3>2, SMT
    <3> QED BY <3>2, <3>3
  <2> QED BY <2>1, <2>2
<1>7. p * m <= z * t + z
  <2>1. z * (t + 1) = z * t + z /\ z * t \in Nat /\ p * m \in Nat
    BY <1>1, <1>5, SMT
  <2>2. CASE t = p - 1
    <3>1. z * (t + 1) = p * z /\ p * m <= p * z
      BY <1>1, <2>2, SMT
    <3> QED BY <2>1, <3>1
  <2>3. CASE t # p - 1
    <3> DEFINE y == t + 1  a == SampleIndex(z, y)
    <3>1. y \in 1..p-1 /\ y \notin T
      BY <1>1, <1>5, <2>3
    <3>2. a \in 0..z-1 /\ ~ (a < m) /\ p * a <= z * y
      BY <1>2, <1>3, <3>1
    <3> HIDE DEF a
    <3>3. p * m <= p * a /\ p * a \in Nat
      BY <1>1, <3>2, SMT
    <3> QED BY <1>1, <2>1, <3>2, <3>3
  <2> QED BY <2>2, <2>3
<1> QED BY <1>3, <1>5, <1>6, <1>7 DEF z, T, t

\* how many keys of block c are below v
CountBelow(c, v) == Cardinality({x \in 1..w : KeyAt(c, x) < v})

\* In a sorted block the keys below a value are the first ones, and so are the
\* samples.
LEMMA KeysBelow ==
  ASSUME Cut, KeysDistinct, BlocksSorted, NEW c \in Cpus, SortEnded(c), NEW v \in Int
  PROVE  /\ CountBelow(c, v) \in 0..w
         /\ {x \in 1..w : KeyAt(c, x) < v} = 1..CountBelow(c, v)
         /\ {k \in 1..p-1 : SampleAt(c, k) < v} = First(CountBelow(c, v))
<1> DEFINE z == w  T == {x \in 1..w : KeyAt(c, x) < v}
<1>1. z \in Nat /\ \A x \in 1..z : KeyAt(c, x) \in Nat
  <2>1. z \in Nat
    BY DEF Cut
  <2> QED BY <2>1, BlockIs DEF KeysDistinct
<1>2. \A x, y \in 1..z : x <= y => KeyAt(c, x) <= KeyAt(c, y)
  BY DEF BlocksSorted
<1>3. T = {x \in 1..z : KeyAt(c, x) < v} /\ CountBelow(c, v) = Cardinality(T)
  BY DEF CountBelow
<1> HIDE DEF z, T
<1>4. T \subseteq 1..z
  BY <1>3
<1>5. ASSUME NEW x \in T, NEW y \in 1..z, y <= x PROVE y \in T
  <2>1. x \in 1..z /\ KeyAt(c, x) < v /\ KeyAt(c, y) <= KeyAt(c, x)
    BY <1>2, <1>3, <1>5
  <2> QED BY <1>1, <1>3, <2>1
<1>6. Cardinality(T) \in 0..z /\ T = 1..Cardinality(T)
  BY <1>1, <1>4, <1>5, InitialPart
<1>7. {k \in 1..p-1 : SampleAt(c, k) < v} = First(Cardinality(T))
  <2> DEFINE m == Cardinality(T)
  <2>1. ASSUME NEW k \in 1..p-1 PROVE SampleAt(c, k) < v <=> SampleIndex(z, k) < m
    <3> DEFINE a == SampleIndex(z, k)
    <3>1. a \in 0..z-1
      BY IndexIs DEF z
    <3>2. SampleAt(c, k) = KeyAt(c, a + 1)
      BY DEF SampleAt, z
    <3> HIDE DEF a
    <3>3. a + 1 \in 1..z
      BY <1>1, <3>1
    <3>4. KeyAt(c, a + 1) < v <=> a + 1 \in T
      BY <1>3, <3>3
    <3>5. a + 1 \in T <=> a < m
      BY <1>6, <3>1, <1>1
    <3> QED BY <3>2, <3>4, <3>5 DEF a
  <2> HIDE DEF m
  <2>2. {k \in 1..p-1 : SampleAt(c, k) < v} = First(m)
    BY <2>1 DEF First, z
  <2> QED BY <2>2 DEF m
<1> QED BY <1>3, <1>6, <1>7 DEF z, T

\* the numbers of the samples below v
LEMMA BelowIs ==
  ASSUME Cut, KeysDistinct, BlocksSorted, \A c \in Cpus : SortEnded(c), NEW v \in Int
  PROVE  Cardinality(Below(v))
         = Together([c \in Cpus |-> Cardinality(First(CountBelow(c, v)))], 0..p-1)
<1> DEFINE f == [c \in Cpus |-> Cardinality(First(CountBelow(c, v)))]
<1>1. ASSUME NEW c \in Cpus PROVE {k \in 1..p-1 : SampleAt(c, k) < v} = 1..f[c]
  <2> DEFINE m == CountBelow(c, v)
  <2>1. {k \in 1..p-1 : SampleAt(c, k) < v} = First(m) /\ m \in 0..w
    BY KeysBelow
  <2> HIDE DEF m
  <2>2. First(m) = 1..Cardinality(First(m))
    BY <2>1, FirstIs
  <2> QED BY <2>1, <2>2 DEF m
<1> HIDE DEF f
<1>2. Below(v) = UNION {{c} \X (1..f[c]) : c \in Cpus}
  BY <1>1 DEF Below
<1>3. Cpus = 0..p-1
  BY DEF Cut
<1> QED BY <1>2, <1>3 DEF Together, f

\* bucket s begins at this value, and ends before that one
Reaches(c, s, x) == s = 0 \/ g_splitters[s] <= KeyAt(c, x)
EndsAfter(c, s, x) == s = p-1 \/ KeyAt(c, x) < g_splitters[s+1]

\* A task puts a key only into the bucket it belongs to.
LEMMA DealtBetween ==
  ASSUME Cut, KeysDistinct, BlocksSorted, NEW c \in Cpus, SortEnded(c), NEW s \in Cpus,
         \A z \in 1..p-1 : g_splitters[z] \in Nat
  PROVE  /\ Dealt(Block(c), s) \subseteq {x \in 1..w : Reaches(c, s, x) /\ EndsAfter(c, s, x)}
         /\ IsFiniteSet(Dealt(Block(c), s)) /\ Cardinality(Dealt(Block(c), s)) \in Nat
<1> DEFINE b == Block(c)
<1>1. /\ DOMAIN b = 1..w /\ w \in Nat
      /\ \A x \in 1..w : b[x] = KeyAt(c, x) /\ KeyAt(c, x) \in Nat
  BY BlockIs DEF Cut, KeysDistinct
<1>2. \A x, y \in 1..w : x <= y => KeyAt(c, x) <= KeyAt(c, y)
  BY DEF BlocksSorted
<1>3. p \in Nat \ {0} /\ Cpus = 0..p-1 /\ NUM_CPU = p
  BY DEF Cut, p
<1> HIDE DEF b
<1>4. ASSUME NEW x \in Dealt(b, s) PROVE x \in 1..w /\ Reaches(c, s, x) /\ EndsAfter(c, s, x)
  <2> DEFINE Fits(z) == z = NUM_CPU-1 \/ \A l \in 1..x : b[l] < g_splitters[z+1]
             S == {z \in Cpus : Fits(z)}
  <2>1. x \in 1..w /\ Min(S) = s
    BY <1>1, <1>4 DEF Dealt, BucketAt
  <2>2. S \subseteq Nat /\ S # {}
    <3>1. NUM_CPU-1 \in Cpus
      BY <1>3
    <3> QED BY <1>3, <3>1
  <2>3. s \in S /\ \A z \in S : s <= z
    <3> HIDE DEF S
    <3> QED BY <2>1, <2>2, MinOf
  <2>4. EndsAfter(c, s, x)
    BY <1>1, <1>3, <2>1, <2>3 DEF EndsAfter
  <2>5. Reaches(c, s, x)
    <3> SUFFICES ASSUME s # 0 PROVE g_splitters[s] <= KeyAt(c, x)
      BY DEF Reaches
    <3>1. s - 1 \in Cpus /\ ~ (s <= s - 1) /\ (s - 1) + 1 = s /\ s - 1 # NUM_CPU - 1 /\ s \in 1..p-1
      BY <1>3
    <3>2. s - 1 \notin S
      BY <2>3, <3>1
    <3>3. ~ \A l \in 1..x : b[l] < g_splitters[s]
      BY <3>1, <3>2
    <3>4. PICK l \in 1..x : ~ (b[l] < g_splitters[s])
      BY <3>3
    <3>5. l \in 1..w /\ b[l] <= KeyAt(c, x) /\ b[l] \in Nat /\ KeyAt(c, x) \in Nat
      BY <1>1, <1>2, <2>1
    <3>6. g_splitters[s] \in Nat
      BY <3>1
    <3> QED BY <3>4, <3>5, <3>6
  <2> QED BY <2>1, <2>4, <2>5
<1>5. Dealt(b, s) \subseteq {x \in 1..w : Reaches(c, s, x) /\ EndsAfter(c, s, x)}
  BY <1>4
<1>6. IsFiniteSet(Dealt(b, s)) /\ Cardinality(Dealt(b, s)) \in Nat
  <2>1. IsFiniteSet(1..w)
    BY <1>1, FS_Interval
  <2>2. Dealt(b, s) \in SUBSET (1..w)
    BY <1>5
  <2>3. IsFiniteSet(Dealt(b, s))
    BY <2>1, <2>2, FS_Subset
  <2> QED BY <2>3, FS_CardinalityType
<1> QED BY <1>5, <1>6 DEF b

\* what a block adds to a bucket, compared with its samples, in two ways
LEMMA TermBound ==
  ASSUME NEW P \in Nat, NEW W \in Nat, NEW lo \in Nat, NEW hi \in Nat, NEW G \in Nat, NEW H \in Nat,
         NEW f \in Nat, NEW u \in {0, 1}, lo <= hi, f <= (hi - lo) + u,
         W * G <= P * lo, P * hi <= W * H + W, lo = hi => G = H
  PROVE  /\ P * f + W * G <= W * H + W + (IF u = 1 THEN P ELSE 0)
         /\ W <= P => (P - W) * f + W * G <= W * H + 0 + (IF u = 1 THEN P - W ELSE 0)
<1> DEFINE l == hi - lo
<1>1. l \in Nat /\ hi = lo + l /\ f <= l + u /\ u \in Nat
  OBVIOUS
<1> HIDE DEF l
<1>2. P * (l + u) = P * l + P * u /\ P * hi = P * lo + P * l
  BY <1>1, SMT
<1>3. P * f <= P * (l + u)
  BY <1>1, SMT
<1>4. P * u = IF u = 1 THEN P ELSE 0
  BY SMT
<1>5. /\ P * f \in Nat /\ P * l \in Nat /\ P * u \in Nat /\ P * lo \in Nat /\ P * hi \in Nat
      /\ W * G \in Nat /\ W * H \in Nat
  BY <1>1, SMT
<1>6. P * f + W * G <= W * H + W + P * u
  BY <1>2, <1>3, <1>5
<1>7. ASSUME W <= P PROVE (P - W) * f + W * G <= W * H + 0 + (IF u = 1 THEN P - W ELSE 0)
  <2> DEFINE Q == P - W
  <2>1. Q \in Nat /\ P = Q + W
    BY <1>7
  <2> HIDE DEF Q
  <2>2. Q * f <= Q * (l + u) /\ Q * (l + u) = Q * l + Q * u /\ Q * f \in Nat /\ Q * l \in Nat /\ Q * u \in Nat
    BY <1>1, <2>1, SMT
  <2>3. Q * u = IF u = 1 THEN Q ELSE 0
    BY <2>1, SMT
  <2>4. Q * l + W * G <= W * H
    <3>1. CASE l = 0
      <4>1. Q * l = 0 /\ G = H
        BY <1>1, <2>1, <3>1
      <4> QED BY <4>1, <1>5
    <3>2. CASE l # 0
      <4>1. P * l = Q * l + W * l /\ W <= W * l /\ W * l \in Nat
        BY <1>1, <2>1, <3>2, SMT
      <4> QED BY <1>2, <1>5, <2>2, <4>1
    <3> QED BY <3>1, <3>2
  <2>5. Q * f + W * G <= W * H + 0 + Q * u
    BY <1>5, <2>2, <2>4
  <2> QED BY <2>3, <2>5 DEF Q
<1> QED BY <1>4, <1>6, <1>7

\* so many samples lie between two bounds that a bucket stays below two blocks
LEMMA BucketBound ==
  ASSUME NEW P \in Nat \ {0}, NEW W \in Nat \ {0}, NEW C \in Nat, NEW SG \in Nat, NEW SH \in Nat,
         NEW s \in 0..P-1, SH <= (s + 1) * (P - 1), s # 0 => s * (P - 1) + 1 <= SG,
         P * C + W * SG <= W * SH + W * P + (IF s = 0 THEN 0 ELSE P),
         W <= P => (P - W) * C + W * SG <= W * SH + 0 * P + (IF s = 0 THEN 0 ELSE P - W)
  PROVE  C < 2 * W
<1> SUFFICES ASSUME 2 * W <= C PROVE FALSE
  OBVIOUS
<1> DEFINE PW == P * W
<1>1. PW \in Nat /\ W * P = PW /\ P * C \in Nat /\ W * SG \in Nat /\ W * SH \in Nat
  BY SMT
<1>2. 2 * PW <= P * C
  <2>1. P * (2 * W) <= P * C /\ P * (2 * W) = 2 * PW
    BY SMT
  <2> QED BY <2>1
<1>3. CASE s = 0
  <2>1. SH <= P - 1
    BY <1>3
  <2>2. W * SH <= W * (P - 1) /\ W * (P - 1) = PW - W
    BY <2>1, SMT
  <2> HIDE DEF PW
  <2> QED BY <1>1, <1>2, <1>3, <2>2
<1>4. CASE s # 0
  <2> DEFINE S == s * (P - 1)
  <2>1. S \in Nat /\ (s + 1) * (P - 1) = S + (P - 1)
    BY SMT
  <2> HIDE DEF S
  <2>2. SH <= SG + (P - 2) /\ P - 2 \in Nat
    BY <1>4, <2>1 DEF S
  <2>3. W * SH <= W * (SG + (P - 2)) /\ W * (SG + (P - 2)) = W * SG + W * (P - 2) /\ W * (P - 2) = PW - 2 * W
    BY <2>2, SMT
  <2>4. 2 * W <= P
    <3> HIDE DEF PW
    <3> QED BY <1>1, <1>2, <1>4, <2>3
  <2> DEFINE Q == P - W
  <2>5. Q \in Nat /\ W <= Q /\ P = Q + W
    BY <2>4
  <2>6. Q * C + W * SG <= W * SH + Q
    BY <1>4, <1>1, <2>4
  <2> HIDE DEF Q
  <2>7. Q * (2 * W) <= Q * C /\ Q * (2 * W) = 2 * (Q * W) /\ Q * W \in Nat /\ Q * C \in Nat
    BY <2>5, SMT
  <2>8. PW = Q * W + W * W /\ W * W \in Nat /\ W <= W * W
    BY <2>5, SMT
  <2>9. 2 * (Q * W) <= (Q * W + W * W) - 2 * W + Q
    <3> HIDE DEF PW
    <3> QED BY <1>1, <2>3, <2>5, <2>6, <2>7, <2>8
  <2>10. Q * W + 2 * W <= W * W + Q
    BY <2>5, <2>7, <2>8, <2>9
  <2>11. W * (W - 1) <= Q * (W - 1) /\ W * (W - 1) = W * W - W /\ Q * (W - 1) = Q * W - Q
    BY <2>5, SMT
  <2> QED BY <2>5, <2>7, <2>8, <2>10, <2>11
<1> QED BY <1>3, <1>4

\* the block of a key that equals bound s, if there is one
AtBound(c, s, x) == s # 0 /\ KeyAt(c, x) = g_splitters[s]

\* At most one key equals a bound.
LEMMA OneAtBound ==
  ASSUME Cut, KeysDistinct, NEW c \in Cpus, NEW e \in Cpus, NEW x \in 1..w, NEW y \in 1..w,
         KeyAt(c, x) = KeyAt(e, y)
  PROVE  c = e /\ x = y
<1>1. /\ c \in Int /\ e \in Int /\ w \in Nat /\ Len0 \in Nat
      /\ Base(c) \in Nat /\ Base(e) \in Nat /\ Base(c) + w <= Len0 /\ Base(e) + w <= Len0
      /\ (c < e => Base(c) + w <= Base(e)) /\ (e < c => Base(e) + w <= Base(c))
  BY DEF Cut
<1>2. Base(c) + x \in 1..Len0 /\ Base(e) + y \in 1..Len0
  BY <1>1
<1>3. Base(c) + x = Base(e) + y
  BY <1>2 DEF KeysDistinct, KeyAt
<1>4. ~ (c < e) /\ ~ (e < c)
  BY <1>1, <1>3
<1> QED BY <1>1, <1>3, <1>4

\* the keys of block c before the end of bucket s, and before its beginning or at it
UpTo(c, s) == IF s = p-1 THEN w ELSE CountBelow(c, g_splitters[s+1])
Before(c, s) == IF s = 0 THEN 0 ELSE CountBelow(c, g_splitters[s] + 1)

\* Both are counts of keys of a block.
LEMMA CountsIn ==
  ASSUME Cut, KeysDistinct, BlocksSorted, BoundsHold, NEW c \in Cpus, SortEnded(c), NEW s \in Cpus
  PROVE  /\ UpTo(c, s) \in 0..w /\ Before(c, s) \in 0..w
         /\ \A x \in 1..w : EndsAfter(c, s, x) => x <= UpTo(c, s)
         /\ \A x \in 1..w : Reaches(c, s, x) => AtBound(c, s, x) \/ Before(c, s) < x
<1>1. w \in Nat /\ p \in Nat \ {0} /\ s \in 0..p-1 /\ \A x \in 1..w : KeyAt(c, x) \in Nat
  BY BlockIs DEF Cut, KeysDistinct
<1>2. UpTo(c, s) \in 0..w /\ \A x \in 1..w : EndsAfter(c, s, x) => x <= UpTo(c, s)
  <2>1. CASE s = p-1
    BY <1>1, <2>1 DEF UpTo
  <2>2. CASE s # p-1
    <3> DEFINE v == g_splitters[s+1]  m == CountBelow(c, v)
    <3>1. v \in Int
      <4>1. s + 1 \in 1..p-1
        BY <1>1, <2>2
      <4> QED BY <4>1 DEF BoundsHold
    <3>2. UpTo(c, s) = m
      BY <2>2 DEF UpTo
    <3> HIDE DEF v
    <3>3. m \in 0..w /\ {x \in 1..w : KeyAt(c, x) < v} = 1..m
      BY <3>1, KeysBelow
    <3>4. ASSUME NEW x \in 1..w, EndsAfter(c, s, x) PROVE x <= UpTo(c, s)
      <4>1. KeyAt(c, x) < v
        BY <2>2, <3>4 DEF EndsAfter, v
      <4> HIDE DEF m
      <4>2. x \in 1..m
        BY <3>3, <4>1
      <4> QED BY <3>2, <3>3, <4>2
    <3> QED BY <3>2, <3>3, <3>4
  <2> QED BY <2>1, <2>2
<1>3. /\ Before(c, s) \in 0..w
      /\ \A x \in 1..w : Reaches(c, s, x) => AtBound(c, s, x) \/ Before(c, s) < x
  <2>1. CASE s = 0
    BY <1>1, <2>1 DEF Before
  <2>2. CASE s # 0
    <3> DEFINE g == g_splitters[s]  v == g + 1  m == CountBelow(c, v)
    <3>1. g \in Nat
      <4>1. s \in 1..p-1
        BY <1>1, <2>2
      <4> QED BY <4>1 DEF BoundsHold
    <3>2. Before(c, s) = m
      BY <2>2 DEF Before
    <3> HIDE DEF g
    <3>3. v \in Int
      BY <3>1
    <3>4. v = g + 1
      OBVIOUS
    <3> HIDE DEF v
    <3>5. m \in 0..w /\ {x \in 1..w : KeyAt(c, x) < v} = 1..m
      BY <3>3, KeysBelow
    <3> HIDE DEF m
    <3>6. ASSUME NEW x \in 1..w, Reaches(c, s, x), ~ AtBound(c, s, x) PROVE Before(c, s) < x
      <4>1. g <= KeyAt(c, x) /\ KeyAt(c, x) # g /\ KeyAt(c, x) \in Nat
        BY <1>1, <2>2, <3>6 DEF Reaches, AtBound, g
      <4>2. ~ (KeyAt(c, x) < v)
        BY <3>1, <3>4, <4>1
      <4>3. x \notin 1..m
        BY <3>5, <4>2
      <4> QED BY <1>1, <3>2, <3>5, <4>3
    <3> QED BY <3>2, <3>5, <3>6
  <2> QED BY <2>1, <2>2
<1> QED BY <1>2, <1>3

\* How many keys of a block go into a bucket whose bounds differ: one more than
\* between the bounds if the lower one is a key of the block.
LEMMA DealtCount ==
  ASSUME Cut, KeysDistinct, BlocksSorted, BoundsHold, NEW c \in Cpus, SortEnded(c), NEW s \in Cpus,
         NEW u \in {0, 1}, \A x \in 1..w : AtBound(c, s, x) => u = 1, Before(c, s) <= UpTo(c, s)
  PROVE  Cardinality(Dealt(Block(c), s)) <= (UpTo(c, s) - Before(c, s)) + u
<1> DEFINE D == Dealt(Block(c), s)  lo == Before(c, s)  hi == UpTo(c, s)
           E == {x \in 1..w : AtBound(c, s, x)}
<1>1. /\ D \subseteq {x \in 1..w : Reaches(c, s, x) /\ EndsAfter(c, s, x)}
      /\ IsFiniteSet(D) /\ Cardinality(D) \in Nat
  <2>1. \A z \in 1..p-1 : g_splitters[z] \in Nat
    BY DEF BoundsHold
  <2> QED BY <2>1, DealtBetween
<1>2. /\ hi \in Nat /\ lo \in Nat /\ lo <= hi
      /\ \A x \in 1..w : EndsAfter(c, s, x) => x <= hi
      /\ \A x \in 1..w : Reaches(c, s, x) => AtBound(c, s, x) \/ lo < x
  BY CountsIn
<1>3. \A x \in 1..w : x \in Int
  OBVIOUS
<1>4. D \subseteq (lo+1..hi) \cup E
  <2> HIDE DEF D, lo, hi
  <2> SUFFICES ASSUME NEW x \in D, x \notin E PROVE x \in lo+1..hi
    OBVIOUS
  <2>1. x \in 1..w /\ x <= hi /\ lo < x
    BY <1>1, <1>2
  <2> QED BY <1>2, <1>3, <2>1
<1>5. IsFiniteSet(lo+1..hi) /\ Cardinality(lo+1..hi) = hi - lo
  <2> HIDE DEF lo, hi
  <2>1. lo + 1 \in Int /\ hi \in Int
    BY <1>2
  <2>2. IsFiniteSet(lo+1..hi) /\ Cardinality(lo+1..hi) = IF lo+1 > hi THEN 0 ELSE (hi - (lo+1)) + 1
    BY <2>1, FS_Interval
  <2> QED BY <1>2, <2>2
<1>6. CASE E = {}
  <2> HIDE DEF D, lo, hi, E
  <2>1. D \in SUBSET (lo+1..hi)
    BY <1>4, <1>6
  <2>2. Cardinality(D) <= hi - lo
    BY <1>5, <2>1, FS_Subset
  <2>3. Cardinality(D) <= (hi - lo) + u
    BY <1>1, <1>2, <2>2
  <2> QED BY <2>3 DEF D, lo, hi
<1>7. CASE E # {}
  <2>1. PICK y \in 1..w : AtBound(c, s, y)
    BY <1>7
  <2>2. u = 1
    BY <2>1
  <2>3. E \subseteq {y}
    BY <2>1, OneAtBound DEF AtBound
  <2> HIDE DEF D, lo, hi, E
  <2>4. IsFiniteSet((lo+1..hi) \cup {y})
        /\ Cardinality((lo+1..hi) \cup {y}) = IF y \in lo+1..hi THEN Cardinality(lo+1..hi) ELSE Cardinality(lo+1..hi) + 1
    BY <1>5, FS_AddElement
  <2>5. D \in SUBSET ((lo+1..hi) \cup {y})
    BY <1>4, <2>3
  <2>6. Cardinality(D) <= Cardinality((lo+1..hi) \cup {y})
    BY <2>4, <2>5, FS_Subset
  <2>7. Cardinality(D) <= (hi - lo) + u
    BY <1>1, <1>2, <1>5, <2>2, <2>4, <2>6
  <2> QED BY <2>7 DEF D, lo, hi
<1> QED BY <1>6, <1>7

\* Regular sampling: each bucket of sorted and dealt blocks gets fewer keys than
\* two blocks have.
LEMMA Balanced ==
  ASSUME Cut, KeysDistinct, BlocksSorted, BoundsHold, \A c \in Cpus : SortEnded(c), NEW s \in Cpus
  PROVE  Together([c \in Cpus |-> Cardinality(Dealt(Block(c), s))], Cpus) < 2 * w
<1> DEFINE f == [c \in Cpus |-> Cardinality(Dealt(Block(c), s))]
           H == [c \in Cpus |-> Cardinality(First(UpTo(c, s)))]
           G == [c \in Cpus |-> Cardinality(First(Before(c, s)))]
           SF == Together(f, 0..p-1)  SG == Together(G, 0..p-1)  SH == Together(H, 0..p-1)
           W == w
<1>1. p \in Nat \ {0} /\ W \in Nat \ {0} /\ Cpus = 0..p-1 /\ s \in 0..p-1 /\ p - 1 \in Nat
  BY DEF Cut
<1>2. ASSUME NEW c \in Cpus
      PROVE  UpTo(c, s) \in 0..w /\ Before(c, s) \in 0..w
  BY CountsIn
<1>3. ASSUME NEW c \in Cpus
      PROVE  f[c] \in Nat /\ G[c] \in Nat /\ H[c] \in 0..p-1
             /\ W * G[c] <= p * Before(c, s) /\ p * UpTo(c, s) <= W * H[c] + W
             /\ (Before(c, s) = UpTo(c, s) => G[c] = H[c])
  <2>1. Cardinality(Dealt(Block(c), s)) \in Nat
    <3>1. \A z \in 1..p-1 : g_splitters[z] \in Nat
      BY DEF BoundsHold
    <3> QED BY <3>1, DealtBetween
  <2>2. /\ Cardinality(First(UpTo(c, s))) \in 0..p-1
        /\ p * UpTo(c, s) <= w * Cardinality(First(UpTo(c, s))) + w
    BY <1>2, FirstIs
  <2>3. /\ Cardinality(First(Before(c, s))) \in 0..p-1
        /\ w * Cardinality(First(Before(c, s))) <= p * Before(c, s)
    BY <1>2, FirstIs
  <2>4. Cardinality(First(Before(c, s))) \in Nat
    BY <2>3
  <2> QED BY <2>1, <2>2, <2>3, <2>4, Zenon
<1>4. f \in [0..p-1 -> Nat] /\ G \in [0..p-1 -> Nat] /\ H \in [0..p-1 -> Nat]
  <2>1. \A c \in Cpus : f[c] \in Nat /\ G[c] \in Nat /\ H[c] \in Nat
    <3>1. \A z \in 0..p-1 : z \in Nat
      OBVIOUS
    <3> QED BY <1>3, <3>1, Zenon
  <2> QED BY <1>1, <2>1
<1>5. Together([c \in Cpus |-> Cardinality(Dealt(Block(c), s))], Cpus) = SF
  BY <1>1
<1>6. SF \in Nat /\ SG \in Nat /\ SH \in Nat
  <2>1. p \in Nat /\ p \in 0..p
    BY <1>1
  <2> HIDE DEF f, G, H
  <2>2. SF \in Nat
    BY <1>4, <2>1, SumGrows
  <2>3. SG \in Nat
    BY <1>4, <2>1, SumGrows
  <2>4. SH \in Nat
    BY <1>4, <2>1, SumGrows
  <2> QED BY <2>2, <2>3, <2>4
<1>7. SH <= (s + 1) * (p - 1)
  <2>1. CASE s = p - 1
    <3>1. \A c \in 0..p-1 : 1 * H[c] + 0 * H[c] <= 0 * H[c] + (p - 1) + (IF c = -1 THEN 0 ELSE 0)
      <4> SUFFICES ASSUME NEW c \in 0..p-1 PROVE 1 * H[c] + 0 * H[c] <= 0 * H[c] + (p - 1) + (IF c = -1 THEN 0 ELSE 0)
        OBVIOUS
      <4> DEFINE h == H[c]
      <4>1. h \in 0..p-1
        BY <1>1, <1>3
      <4> HIDE DEF h
      <4>2. 1 * h + 0 * h <= 0 * h + (p - 1) + 0
        BY <1>1, <4>1
      <4> QED BY <4>2 DEF h
    <3> HIDE DEF H
    <3>2. 1 * SH + 0 * SH <= 0 * SH + (p - 1) * p + 0
      BY <1>1, <1>4, <3>1, SumsCompare
    <3>3. (s + 1) * (p - 1) = (p - 1) * p /\ 1 * SH = SH /\ 0 * SH = 0 /\ (p - 1) * p \in Nat
      <4> HIDE DEF SH
      <4> QED BY <1>1, <1>6, <2>1, SMT
    <3> QED BY <1>6, <3>2, <3>3
  <2>2. CASE s # p - 1
    <3> DEFINE z == s + 1  v == g_splitters[z]
    <3>1. z \in 1..p-1
      BY <1>1, <2>2
    <3>2. v \in Nat /\ Cardinality(Below(v)) <= z * (p - 1)
      BY <3>1 DEF BoundsHold
    <3>3. \A c \in Cpus : UpTo(c, s) = CountBelow(c, v)
      BY <2>2 DEF UpTo
    <3>4. H = [c \in Cpus |-> Cardinality(First(CountBelow(c, v)))]
      BY <3>3
    <3> HIDE DEF v, H
    <3>5. v \in Int
      BY <3>2
    <3>6. Cardinality(Below(v)) = SH
      BY <3>4, <3>5, BelowIs
    <3> QED BY <3>2, <3>6
  <2> QED BY <2>1, <2>2
<1>8. s # 0 => s * (p - 1) + 1 <= SG
  <2> SUFFICES ASSUME s # 0 PROVE s * (p - 1) + 1 <= SG
    OBVIOUS
  <2> DEFINE g == g_splitters[s]  v == g + 1
  <2>1. s \in 1..p-1
    BY <1>1
  <2>2. g \in Nat /\ s * (p - 1) + 1 <= Cardinality(Below(v))
    BY <2>1 DEF BoundsHold
  <2>3. v \in Int
    BY <2>2
  <2>4. \A c \in Cpus : Before(c, s) = CountBelow(c, v)
    BY DEF Before
  <2>5. G = [c \in Cpus |-> Cardinality(First(CountBelow(c, v)))]
    BY <2>4
  <2> HIDE DEF v, G
  <2>6. Cardinality(Below(v)) = SG
    BY <2>3, <2>5, BelowIs
  <2> QED BY <2>2, <2>6
<1>9. CASE s # 0 /\ s # p - 1 /\ g_splitters[s+1] <= g_splitters[s]
  <2>1. ASSUME NEW c \in 0..p-1 PROVE f[c] = 0
    <3>1. /\ \A z \in 1..p-1 : g_splitters[z] \in Nat
          /\ \A x \in 1..w : KeyAt(c, x) \in Nat
      BY <1>1, BlockIs DEF BoundsHold, KeysDistinct
    <3>2. Dealt(Block(c), s) \subseteq {x \in 1..w : Reaches(c, s, x) /\ EndsAfter(c, s, x)}
      BY <1>1, <3>1, DealtBetween
    <3>3. s \in 1..p-1 /\ s + 1 \in 1..p-1
      BY <1>1, <1>9
    <3>4. ASSUME NEW x \in 1..w, Reaches(c, s, x), EndsAfter(c, s, x) PROVE FALSE
      BY <1>9, <3>1, <3>3, <3>4 DEF Reaches, EndsAfter
    <3>5. Dealt(Block(c), s) = {}
      BY <3>2, <3>4
    <3> QED BY <1>1, <3>5, FS_EmptySet
  <2>2. \A c \in 0..p-1 : 1 * f[c] + 0 * f[c] <= 0 * f[c] + 0 + (IF c = -1 THEN 0 ELSE 0)
    <3> HIDE DEF f
    <3> QED BY <2>1
  <2> HIDE DEF f
  <2>3. 1 * SF + 0 * SF <= 0 * SF + 0 * p + 0
    BY <1>1, <1>4, <2>2, SumsCompare
  <2> HIDE DEF SF
  <2>4. SF <= 0
    BY <1>1, <1>6, <2>3
  <2>5. SF < 2 * W
    BY <1>1, <1>6, <2>4
  <2> QED BY <1>5, <2>5 DEF SF, f
<1>10. CASE ~ (s # 0 /\ s # p - 1 /\ g_splitters[s+1] <= g_splitters[s])
  <2>1. ASSUME NEW c \in Cpus PROVE Before(c, s) <= UpTo(c, s)
    <3>1. CASE s = 0
      BY <1>2, <3>1 DEF Before
    <3>2. CASE s = p - 1
      BY <1>2, <3>2 DEF UpTo
    <3>3. CASE s # 0 /\ s # p - 1
      <4> DEFINE g == g_splitters[s]  h == g_splitters[s+1]
                 m == CountBelow(c, g + 1)  l == CountBelow(c, h)
      <4>1. g \in Nat /\ h \in Nat /\ g < h
        <5>1. s \in 1..p-1 /\ s + 1 \in 1..p-1
          BY <1>1, <3>3
        <5>2. g \in Nat /\ h \in Nat
          BY <5>1 DEF BoundsHold
        <5> QED BY <1>10, <3>3, <5>2
      <4>2. Before(c, s) = m /\ UpTo(c, s) = l
        BY <3>3 DEF Before, UpTo
      <4> HIDE DEF g, h
      <4>3. g + 1 \in Int /\ h \in Int
        BY <4>1
      <4>4. m \in 0..w /\ {x \in 1..w : KeyAt(c, x) < g + 1} = 1..m
        BY <4>3, KeysBelow
      <4>5. l \in 0..w /\ {x \in 1..w : KeyAt(c, x) < h} = 1..l
        BY <4>3, KeysBelow
      <4>6. \A x \in 1..w : KeyAt(c, x) \in Nat
        BY BlockIs DEF KeysDistinct
      <4> HIDE DEF m, l
      <4>7. ASSUME m # 0 PROVE m <= l
        <5>1. m \in 1..w /\ m \in 1..m
          BY <4>4, <4>7
        <5>2. KeyAt(c, m) < g + 1 /\ KeyAt(c, m) \in Nat
          BY <4>4, <4>6, <5>1
        <5>3. KeyAt(c, m) < h
          BY <4>1, <5>2
        <5>4. m \in 1..l
          BY <4>5, <5>1, <5>3
        <5> QED BY <4>5, <5>4
      <4> QED BY <4>2, <4>4, <4>5, <4>7
    <3> QED BY <3>1, <3>2, <3>3
  <2>2. \E e : \A c \in Cpus, x \in 1..w : AtBound(c, s, x) => c = e
    BY OneAtBound DEF AtBound
  <2>3. PICK e : \A c \in Cpus, x \in 1..w : AtBound(c, s, x) => c = e
    BY <2>2
  <2> DEFINE t == IF s = 0 THEN 0 ELSE p  q == IF s = 0 THEN 0 ELSE p - W
  <2>4. ASSUME NEW c \in 0..p-1
        PROVE  /\ p * f[c] + W * G[c] <= W * H[c] + W + (IF c = e THEN t ELSE 0)
               /\ W <= p => (p - W) * f[c] + W * G[c] <= W * H[c] + 0 + (IF c = e THEN q ELSE 0)
    <3> DEFINE u == IF c = e /\ s # 0 THEN 1 ELSE 0  lo == Before(c, s)  hi == UpTo(c, s)
               ff == f[c]  gg == G[c]  hh == H[c]
    <3>1. c \in Cpus /\ u \in {0, 1}
      BY <1>1
    <3>2. \A x \in 1..w : AtBound(c, s, x) => u = 1
      BY <2>3, <3>1 DEF AtBound
    <3>3. lo \in Nat /\ hi \in Nat /\ lo <= hi
      BY <1>1, <1>2, <2>1, <3>1
    <3>4. ff <= (hi - lo) + u
      <4> HIDE DEF u
      <4> QED BY <2>1, <3>1, <3>2, DealtCount
    <3>5. /\ ff \in Nat /\ gg \in Nat /\ hh \in 0..p-1
          /\ W * gg <= p * lo /\ p * hi <= W * hh + W /\ (lo = hi => gg = hh)
      BY <1>3, <3>1
    <3>6. u = 1 <=> c = e /\ s # 0
      OBVIOUS
    <3> HIDE DEF u, lo, hi, ff, gg, hh, W
    <3>7. hh \in Nat /\ p \in Nat /\ W \in Nat
      BY <1>1, <3>5
    <3>8. /\ p * ff + W * gg <= W * hh + W + (IF u = 1 THEN p ELSE 0)
          /\ W <= p => (p - W) * ff + W * gg <= W * hh + 0 + (IF u = 1 THEN p - W ELSE 0)
      BY <3>1, <3>3, <3>4, <3>5, <3>7, TermBound
    <3>9. (IF u = 1 THEN p ELSE 0) = (IF c = e THEN t ELSE 0)
          /\ (IF u = 1 THEN p - W ELSE 0) = (IF c = e THEN q ELSE 0)
      BY <3>6, Zenon
    <3>10. /\ p * ff + W * gg <= W * hh + W + (IF c = e THEN t ELSE 0)
           /\ W <= p => (p - W) * ff + W * gg <= W * hh + 0 + (IF c = e THEN q ELSE 0)
      BY <3>8, <3>9, Zenon
    <3> QED BY <3>10 DEF ff, gg, hh
  <2> HIDE DEF f, G, H, W
  <2>5. p * SF + W * SG <= W * SH + W * p + t
    <3>1. t \in Nat /\ p \in Nat /\ W \in Nat
      BY <1>1
    <3> HIDE DEF t
    <3>2. \A c \in 0..p-1 : p * f[c] + W * G[c] <= W * H[c] + W + (IF c = e THEN t ELSE 0)
      BY <2>4
    <3> QED BY <1>4, <3>1, <3>2, SumsCompare
  <2>6. ASSUME W <= p PROVE (p - W) * SF + W * SG <= W * SH + 0 * p + q
    <3> DEFINE a == p - W
    <3>1. q \in Nat /\ p \in Nat /\ W \in Nat /\ 0 \in Nat /\ a \in Nat
      BY <1>1, <2>6
    <3>2. \A c \in 0..p-1 : a * f[c] + W * G[c] <= W * H[c] + 0 + (IF c = e THEN q ELSE 0)
      BY <2>4, <2>6
    <3> HIDE DEF q, a
    <3>3. a * SF + W * SG <= W * SH + 0 * p + q
      BY <1>4, <3>1, <3>2, SumsCompare
    <3> QED BY <3>3 DEF a
  <2> HIDE DEF SF, SG, SH
  <2>7. SF < 2 * W
    BY <1>1, <1>6, <1>7, <1>8, <2>5, <2>6, BucketBound
  <2> QED BY <1>5, <2>7 DEF W, SF, f
<1> QED BY <1>9, <1>10

----------------------------------------------------------------------------
(***************************************************************************)
(* The steps.                                                              *)
(***************************************************************************)
\* where the main thread is before the bounds are chosen, and after the buckets
\* are placed
Searching == {"sort", "sorted", "split"}
Placed == {"gather", "gathered", "done"}

\* What is derived from the input does not change.
LEMMA SameCut ==
  ASSUME UNCHANGED input
  PROVE  /\ w' = w /\ Len0' = Len0 /\ Regular' = Regular
         /\ \A c : Base(c)' = Base(c) /\ BlockSize(c)' = BlockSize(c)
  BY DEF w, reg_blk_size, Len0, Regular, Base, BlockSize, last_blk_size

\* What is derived from the array does not change.
LEMMA SameKeys ==
  ASSUME UNCHANGED <<input, arr>>
  PROVE  /\ KeysDistinct' = KeysDistinct
         /\ \A c, x : KeyAt(c, x)' = KeyAt(c, x)
         /\ \A c, k : SampleAt(c, k)' = SampleAt(c, k)
         /\ \A v : Below(v)' = Below(v)
         /\ \A c : Block(c)' = Block(c)
<1>1. w' = w /\ Len0' = Len0 /\ \A c : Base(c)' = Base(c) /\ BlockSize(c)' = BlockSize(c)
  BY SameCut
<1>2. \A c, x : KeyAt(c, x)' = KeyAt(c, x)
  BY <1>1 DEF KeyAt
<1>3. \A c, k : SampleAt(c, k)' = SampleAt(c, k)
  BY <1>1, <1>2 DEF SampleAt
<1>4. \A v : Below(v)' = Below(v)
  BY <1>3 DEF Below
<1>5. \A c : Block(c)' = Block(c)
  BY <1>1 DEF Block
<1>6. KeysDistinct' = KeysDistinct
  BY <1>1 DEF KeysDistinct
<1> QED BY <1>2, <1>3, <1>4, <1>5, <1>6

\* where the keys of a block go depends on the bounds alone
LEMMA SameDealt ==
  ASSUME UNCHANGED g_splitters
  PROVE  \A b, s : Dealt(b, s)' = Dealt(b, s)
  BY DEF Dealt, BucketAt

\* A step that only moves the main thread or submits a task.
LEMMA QuietStep ==
  ASSUME BalanceInv, PhaseInv', LoopsOK',
         UNCHANGED <<input, arr, splitters, g_splitters, buckets, bucket_sizes>>,
         \A c \in Cpus : (SortEnded(c)' => SortEnded(c)) /\ (DealEnded(c)' <=> DealEnded(c)),
         (pc' \in Searching <=> pc \in Searching), (pc' \in Placed <=> pc \in Placed)
  PROVE  BalanceInv'
<1>1. /\ KeysDistinct' = KeysDistinct
      /\ \A c, x : KeyAt(c, x)' = KeyAt(c, x)
      /\ \A c, k : SampleAt(c, k)' = SampleAt(c, k)
      /\ \A v : Below(v)' = Below(v)
      /\ \A c : Block(c)' = Block(c)
  BY SameKeys
<1>2. w' = w /\ Regular' = Regular
  BY SameCut
<1>3. \A b, s : Dealt(b, s)' = Dealt(b, s)
  BY SameDealt
<1>4. ASSUME RegularInv PROVE RegularInv'
  <2>1. KeysDistinct'
    BY <1>1, <1>4 DEF RegularInv
  <2>2. BlocksSorted'
    BY <1>1, <1>2, <1>4 DEF RegularInv, BlocksSorted
  <2>3. BlocksSampled'
    BY <1>1, <1>4 DEF RegularInv, BlocksSampled, Searching
  <2>4. BoundsHold => BoundsHold'
    BY <1>1 DEF BoundsHold
  <2>5. BoundsSpread'
    BY <1>4, <2>4 DEF RegularInv, BoundsSpread, Searching
  <2>6. BucketsDealt'
    <3>1. DOMAIN buckets' = Cpus
      BY <1>4 DEF RegularInv, BucketsDealt
    <3>2. ASSUME NEW c \in Cpus
          PROVE  \/ ~ DealEnded(c)' /\ buckets'[c] = [s \in Cpus |-> <<>>]
                 \/ DealEnded(c)' /\ \A s \in Cpus :
                      Len(buckets'[c][s]) = Cardinality(Dealt(Block(c), s)')
      <4>1. \/ ~ DealEnded(c) /\ buckets[c] = [s \in Cpus |-> <<>>]
            \/ DealEnded(c) /\ \A s \in Cpus :
                 Len(buckets[c][s]) = Cardinality(Dealt(Block(c), s))
        BY <1>4 DEF RegularInv, BucketsDealt
      <4>2. \A s : Dealt(Block(c), s)' = Dealt(Block(c), s)
        BY <1>1, <1>3 DEF Dealt, BucketAt
      <4> QED BY <4>1, <4>2
    <3> QED BY <3>1, <3>2 DEF BucketsDealt
  <2>7. SizesAdded'
    <3>1. \A s : BucketSize(s)' = BucketSize(s)
      BY DEF BucketSize
    <3>2. bucket_sizes = [s \in Cpus |-> IF pc \in Placed THEN BucketSize(s) ELSE 0]
      BY <1>4 DEF RegularInv, SizesAdded, Placed
    <3> QED BY <3>1, <3>2 DEF SizesAdded, Placed
  <2> QED BY <2>1, <2>2, <2>3, <2>5, <2>6, <2>7 DEF RegularInv
<1> QED BY <1>2, <1>4 DEF BalanceInv

\* Init satisfies the invariant.
LEMMA InitBalance == Init => BalanceInv
<1> SUFFICES ASSUME Init PROVE BalanceInv
  OBVIOUS
<1>1. input \in Seq(Nat) /\ arr = input /\ Len0 \in Nat
  BY ParametersAssumption DEF Init, Len0
<1>2. PhaseInv /\ LoopsOK
  BY InitPhases DEF Init, LoopsOK
<1>3. ASSUME Regular PROVE KeysDistinct
  <2>1. arr \in [1..Len0 -> Nat] /\ DOMAIN input = 1..Len0
    BY <1>1 DEF Len0
  <2> QED BY <1>1, <1>3, <2>1 DEF KeysDistinct, Regular, IsInjective
<1>4. \A c \in Cpus : ~ SortEnded(c) /\ ~ DealEnded(c)
  BY ParametersAssumption DEF Init, SortEnded, DealEnded, Cpus
<1>5. BlocksSorted /\ BlocksSampled
  BY <1>4 DEF Init, BlocksSorted, BlocksSampled, p
<1>6. BoundsSpread /\ BucketsDealt /\ SizesAdded
  BY <1>4 DEF Init, BoundsSpread, BucketsDealt, SizesAdded
<1> QED BY <1>1, <1>2, <1>3, <1>5, <1>6 DEF BalanceInv, RegularInv

\* submitting a task
LEMMA SubmitBalance ==
  ASSUME NEW phase, NEW at, NEW next, BalanceInv, Submit(phase, at, next),
         \/ phase = "I" /\ at = "sort" /\ next = "sorted"
         \/ phase = "III" /\ at = "bucket" /\ next = "bucketed"
         \/ phase = "IV" /\ at = "gather" /\ next = "gathered"
  PROVE  BalanceInv'
<1>1. PhaseInv'
  BY SubmitPhases DEF BalanceInv
<1>2. /\ pc = at /\ running' = running \cup {<<phase, i>>}
      /\ UNCHANGED <<input, arr, splitters, g_splitters, buckets, bucket_sizes>>
  BY DEF Submit, data
<1>3. \/ i + 1 < NUM_CPU /\ i' = i + 1 /\ pc' = pc
      \/ i + 1 = NUM_CPU /\ i' = 0 /\ pc' = next
  BY ParametersAssumption DEF Submit, Loop, BalanceInv, PhaseInv, PlacesOK, Cpus
<1>4. i \in 0..NUM_CPU-1 /\ NUM_CPU \in Nat \ {0} /\ Cpus = 0..NUM_CPU-1
  BY ParametersAssumption DEF BalanceInv, PhaseInv, PlacesOK, Cpus
<1>5. LoopsOK'
  <2>1. \A t \in running : t[2] \in Int /\ (pc \in {"sort", "bucket", "gather"} => t[2] < i)
    BY <1>4 DEF BalanceInv, PhaseInv, PlacesOK, LoopsOK
  <2>2. CASE pc' = pc /\ i' = i + 1
    <3>1. \A t \in running' : t[2] < i'
      BY <1>2, <1>4, <2>1, <2>2
    <3>2. pc' # "split"
      BY <1>2, <2>2
    <3> QED BY <3>1, <3>2 DEF LoopsOK
  <2>3. CASE pc' = next
    BY <2>3 DEF LoopsOK
  <2> QED BY <1>3, <2>2, <2>3
<1>6. ASSUME NEW c \in Cpus
      PROVE  (SortEnded(c)' => SortEnded(c)) /\ (DealEnded(c)' <=> DealEnded(c))
  <2>1. c \in Int /\ c < NUM_CPU
    BY <1>4
  <2>2. \A ph : <<ph, c>> \in running' <=> <<ph, c>> \in running \/ (ph = phase /\ c = i)
    BY <1>2
  <2>3. CASE phase = "I" /\ at = "sort" /\ next = "sorted"
    <3>1. <<"I", c>> \in running' <=> <<"I", c>> \in running \/ c = i
      BY <2>2, <2>3
    <3>2. SortEnded(c)' => SortEnded(c)
      BY <1>2, <1>3, <1>4, <2>1, <2>3, <3>1 DEF SortEnded
    <3>3. ~ DealEnded(c)' /\ ~ DealEnded(c)
      BY <1>2, <1>3, <2>3 DEF DealEnded
    <3> QED BY <3>2, <3>3
  <2>4. CASE phase = "III" /\ at = "bucket" /\ next = "bucketed"
    <3>1. <<"III", c>> \in running' <=> <<"III", c>> \in running \/ c = i
      BY <2>2, <2>4
    <3>2. SortEnded(c)
      BY <1>2, <2>4 DEF SortEnded
    <3>3. DealEnded(c)' <=> (pc' = "bucket" => c < i') /\ <<"III", c>> \notin running'
      BY <1>2, <1>3, <2>4 DEF DealEnded
    <3>4. DealEnded(c) <=> c < i /\ <<"III", c>> \notin running
      BY <1>2, <2>4 DEF DealEnded
    <3>5. <<"III", c>> \in running => c < i
      <4>1. \A t \in running : t[2] < i
        BY <1>2, <2>4 DEF BalanceInv, LoopsOK
      <4> QED BY <4>1
    <3>6. DealEnded(c)' <=> DealEnded(c)
      BY <1>2, <1>3, <1>4, <2>1, <2>4, <3>1, <3>3, <3>4, <3>5
    <3> QED BY <3>2, <3>6
  <2>5. CASE phase = "IV" /\ at = "gather" /\ next = "gathered"
    BY <1>2, <1>3, <2>5 DEF SortEnded, DealEnded
  <2> QED BY <2>3, <2>4, <2>5
<1>7. (pc' \in Searching <=> pc \in Searching) /\ (pc' \in Placed <=> pc \in Placed)
  BY <1>2, <1>3 DEF Searching, Placed
<1> QED BY <1>1, <1>2, <1>5, <1>6, <1>7, QuietStep

\* unregistering a handle
LEMMA UnregisterBalance ==
  ASSUME NEW phase, NEW at, NEW next, BalanceInv, Unregister(phase, at, next),
         \/ phase = "I" /\ at = "sorted" /\ next = "split"
         \/ phase = "III" /\ at = "bucketed" /\ next = "place"
  PROVE  BalanceInv'
<1>1. PhaseInv'
  BY UnregisterPhases DEF BalanceInv
<1>2. /\ pc = at /\ running' = running
      /\ UNCHANGED <<input, arr, splitters, g_splitters, buckets, bucket_sizes>>
  BY DEF Unregister, data
<1>3. \/ pc' = pc
      \/ i' = 0 /\ pc' = next
  BY DEF Unregister, Loop
<1>4. pc' = next => running' = {}
  BY <1>1 DEF PhaseInv, PhasesApart, PhaseOf
<1>5. LoopsOK'
  BY <1>2, <1>3 DEF LoopsOK
<1>6. ASSUME NEW c \in Cpus
      PROVE  (SortEnded(c)' => SortEnded(c)) /\ (DealEnded(c)' <=> DealEnded(c))
  BY <1>2, <1>3, <1>4 DEF SortEnded, DealEnded
<1>7. (pc' \in Searching <=> pc \in Searching) /\ (pc' \in Placed <=> pc \in Placed)
  BY <1>2, <1>3 DEF Searching, Placed
<1> QED BY <1>1, <1>2, <1>5, <1>6, <1>7, QuietStep

\* The main thread has waited for the tasks whose results it uses.
LEMMA PlaceBalance == ASSUME BalanceInv, PlaceBuckets PROVE BalanceInv'
<1>1. PhaseInv'
  BY NextPhases DEF BalanceInv, Next, Main
<1>2. /\ pc = "place" /\ pc' = "gather" /\ running = {} /\ running' = {}
      /\ bucket_sizes' = [s \in Cpus |-> BucketSize(s)]
      /\ UNCHANGED <<input, arr, splitters, g_splitters, buckets, i>>
  BY DEF PlaceBuckets, BalanceInv, PhaseInv, PhasesApart, PhaseOf
<1>3. LoopsOK'
  BY <1>2 DEF LoopsOK
<1>4. /\ \A c : Block(c)' = Block(c)
      /\ \A c, x : KeyAt(c, x)' = KeyAt(c, x)
      /\ \A v : Below(v)' = Below(v) /\ KeysDistinct' = KeysDistinct
  BY <1>2, SameKeys
<1>5. w' = w /\ Regular' = Regular
  BY <1>2, SameCut
<1>6. ASSUME RegularInv PROVE RegularInv'
  <2>1. \A c : SortEnded(c) /\ DealEnded(c) /\ SortEnded(c)' /\ DealEnded(c)'
    BY <1>2 DEF SortEnded, DealEnded
  <2>2. KeysDistinct' /\ BlocksSorted'
    BY <1>4, <1>5, <1>6, <2>1 DEF RegularInv, BlocksSorted
  <2>3. BlocksSampled'
    BY <1>2 DEF BlocksSampled
  <2>4. BoundsSpread'
    BY <1>2, <1>4, <1>6 DEF RegularInv, BoundsSpread, BoundsHold
  <2>5. BucketsDealt'
    <3>1. \A c, s : Dealt(Block(c), s)' = Dealt(Block(c), s)
      BY <1>2, <1>4 DEF Dealt, BucketAt
    <3>2. DOMAIN buckets = Cpus /\ \A c \in Cpus : \A s \in Cpus :
            Len(buckets[c][s]) = Cardinality(Dealt(Block(c), s))
      BY <1>6, <2>1 DEF RegularInv, BucketsDealt
    <3> QED BY <1>2, <2>1, <3>1, <3>2 DEF BucketsDealt
  <2>6. SizesAdded'
    <3>1. \A s : BucketSize(s)' = BucketSize(s)
      BY <1>2 DEF BucketSize
    <3> QED BY <1>2, <3>1 DEF SizesAdded
  <2> QED BY <2>2, <2>3, <2>4, <2>5, <2>6 DEF RegularInv
<1> QED BY <1>1, <1>2, <1>3, <1>5, <1>6 DEF BalanceInv

\* the steps after the buckets are placed, and stuttering
LEMMA OtherBalance ==
  ASSUME BalanceInv, \/ WaitForAll
                     \/ \E s \in Cpus : cpu_phaseIV(s)
                     \/ UNCHANGED vars
  PROVE  BalanceInv'
<1>1. PhaseInv'
  BY NextPhases DEF BalanceInv, Next, Main, Task
<1>2. UNCHANGED <<input, arr, splitters, g_splitters, buckets, bucket_sizes, i>>
  BY DEF WaitForAll, cpu_phaseIV, Ends, vars, data
<1>3. \/ pc' \in Placed /\ pc \in Placed /\ running' \subseteq running
      \/ pc' = pc /\ running' = running
  <2>1. CASE WaitForAll
    BY <2>1 DEF WaitForAll, Placed
  <2>2. ASSUME NEW s \in Cpus, cpu_phaseIV(s) PROVE pc' \in Placed /\ pc \in Placed /\ running' \subseteq running
    <3>1. <<"IV", s>> \in running /\ running' \subseteq running /\ pc' = pc
      BY <2>2 DEF cpu_phaseIV, Ends
    <3>2. pc \in DOMAIN PhaseOf /\ PhaseOf[pc] = "IV"
      BY <3>1 DEF BalanceInv, PhaseInv, PhasesApart
    <3>3. pc \in {"gather", "gathered"}
      BY <3>2 DEF PhaseOf
    <3> QED BY <3>1, <3>3 DEF Placed
  <2>3. CASE UNCHANGED vars
    BY <2>3 DEF vars
  <2> QED BY <2>1, <2>2, <2>3
<1>4. LoopsOK'
  <2>1. CASE pc' = pc /\ running' = running
    BY <1>2, <2>1 DEF BalanceInv, LoopsOK
  <2>2. CASE pc' \in Placed /\ pc \in Placed /\ running' \subseteq running
    <3>1. CASE WaitForAll
      BY <3>1 DEF LoopsOK, WaitForAll
    <3>2. CASE ~ WaitForAll
      <4>1. pc' = pc
        BY <3>2 DEF cpu_phaseIV, Ends, vars
      <4> QED BY <1>2, <2>2, <4>1 DEF BalanceInv, LoopsOK, Placed
    <3> QED BY <3>1, <3>2
  <2> QED BY <1>3, <2>1, <2>2
<1>5. ASSUME NEW c \in Cpus
      PROVE  (SortEnded(c)' => SortEnded(c)) /\ (DealEnded(c)' <=> DealEnded(c))
  BY <1>2, <1>3 DEF SortEnded, DealEnded, Placed
<1>6. (pc' \in Searching <=> pc \in Searching) /\ (pc' \in Placed <=> pc \in Placed)
  BY <1>3 DEF Searching, Placed
<1> QED BY <1>1, <1>2, <1>4, <1>5, <1>6, QuietStep

\* The samples of the blocks fill splitters.
LEMMA SamplesFill ==
  ASSUME Cut, arr \in [1..Len0 -> Nat], NEW q \in 1..p*(p-1)
  PROVE  \E c \in Cpus, k \in 1..p-1 : q = c*(p-1) + k
<1> DEFINE n == p - 1  c == (q - 1) \div n  k == ((q - 1) % n) + 1
<1>1. p \in Nat \ {0} /\ Cpus = 0..p-1 /\ q \in Nat \ {0} /\ q <= p * n
  <2>1. p \in Nat \ {0} /\ Cpus = 0..p-1
    BY DEF Cut
  <2>2. p * n \in Nat
    BY <2>1, SMT
  <2> QED BY <2>1, <2>2
<1>2. n \in Nat \ {0}
  <2>1. p * 0 = 0
    BY <1>1
  <2> QED BY <1>1, <2>1
<1> HIDE DEF n
<1>3. c \in Nat /\ k \in 1..n /\ q - 1 = n * c + (k - 1)
  <2> DEFINE r == q - 1
  <2>1. r \in Nat
    BY <1>1
  <2> HIDE DEF r
  <2>2. r \div n \in Nat /\ r % n \in 0..n-1 /\ r = n * (r \div n) + (r % n)
    BY <1>2, <2>1, SMT
  <2> QED BY <1>2, <2>2 DEF r
<1> HIDE DEF c, k
<1>4. c < p
  <2> SUFFICES ASSUME p <= c PROVE FALSE
    BY <1>1, <1>3
  <2>1. p * n <= n * c /\ n * c \in Nat /\ p * n \in Nat
    BY <1>1, <1>2, <1>3, SMT
  <2> QED BY <1>1, <1>3, <2>1
<1>5. n * c = c * n
  BY <1>2, <1>3, SMT
<1>6. q = c * n + k
  <2>1. c * n \in Nat
    BY <1>2, <1>3, SMT
  <2> QED BY <1>1, <1>3, <1>5, <2>1
<1>7. c \in Cpus /\ k \in 1..p-1 /\ q = c * (p-1) + k
  BY <1>1, <1>3, <1>4, <1>6 DEF n
<1> QED BY <1>7, Zenon

\* no two of them at one place
LEMMA SamplesApart ==
  ASSUME Cut, NEW c \in Cpus, NEW e \in Cpus, NEW k \in 1..p-1, NEW l \in 1..p-1
  PROVE  /\ c*(p-1) + k \in 1..p*(p-1)
         /\ c*(p-1) + k = e*(p-1) + l => c = e /\ k = l
<1> DEFINE n == p - 1  C == c * n  E == e * n
<1>1. p \in Nat \ {0} /\ n \in Nat /\ c \in Nat /\ e \in Nat /\ c + 1 <= p /\ e + 1 <= p /\ k \in 1..n /\ l \in 1..n
  BY DEF Cut
<1> HIDE DEF n
<1>2. C \in Nat /\ E \in Nat /\ C + n <= p * n /\ p * n \in Nat
  <2>1. (c + 1) * n = c * n + n /\ (c + 1) * n <= p * n
    BY <1>1, SMT
  <2> QED BY <1>1, <2>1, SMT
<1>3. c < e => C + n <= E
  <2> SUFFICES ASSUME c < e PROVE C + n <= E
    OBVIOUS
  <2>1. (c + 1) * n = c * n + n /\ (c + 1) * n <= e * n
    BY <1>1, SMT
  <2> QED BY <2>1
<1>4. e < c => E + n <= C
  <2> SUFFICES ASSUME e < c PROVE E + n <= C
    OBVIOUS
  <2>1. (e + 1) * n = e * n + n /\ (e + 1) * n <= c * n
    BY <1>1, SMT
  <2> QED BY <2>1
<1>5. c = e => C = E
  OBVIOUS
<1> HIDE DEF C, E
<1>6. C + k \in 1..p*n /\ (C + k = E + l => c = e /\ k = l)
  <2> DEFINE pn == p * n
  <2>1. pn \in Nat /\ C + n <= pn
    BY <1>2
  <2> HIDE DEF pn
  <2>2. C + k \in 1..pn /\ (C + k = E + l => c = e /\ k = l)
    BY <1>1, <1>2, <1>3, <1>4, <1>5, <2>1
  <2> QED BY <2>2 DEF pn
<1> QED BY <1>6 DEF n, C, E

\* as many samples below v as places of splitters
LEMMA SamplesCount ==
  ASSUME Cut, arr \in [1..Len0 -> Nat], NEW v,
         \A c \in Cpus : \A k \in 1..p-1 : splitters[c*(p-1) + k] = SampleAt(c, k)
  PROVE  Cardinality(Below(v)) = Cardinality({q \in 1..p*(p-1) : splitters[q] < v})
<1> DEFINE T == {q \in 1..p*(p-1) : splitters[q] < v}
           f == [b \in Below(v) |-> b[1] * (p-1) + b[2]]
<1>1. \A b \in Below(v) : /\ b[1] \in Cpus /\ b[2] \in 1..p-1 /\ SampleAt(b[1], b[2]) < v
                          /\ b = <<b[1], b[2]>>
  BY DEF Below
<1>2. ASSUME NEW b \in Below(v) PROVE f[b] \in T
  <2>1. f[b] = b[1] * (p-1) + b[2] /\ b[1] \in Cpus /\ b[2] \in 1..p-1 /\ SampleAt(b[1], b[2]) < v
    BY <1>1
  <2>2. f[b] \in 1..p*(p-1) /\ splitters[f[b]] = SampleAt(b[1], b[2])
    BY <2>1, SamplesApart
  <2> QED BY <2>1, <2>2
<1>3. ASSUME NEW b \in Below(v), NEW d \in Below(v), f[b] = f[d] PROVE b = d
  <2>1. b[1] \in Cpus /\ b[2] \in 1..p-1 /\ d[1] \in Cpus /\ d[2] \in 1..p-1
        /\ b[1] * (p-1) + b[2] = d[1] * (p-1) + d[2]
    BY <1>1, <1>3
  <2>2. b[1] = d[1] /\ b[2] = d[2]
    BY <2>1, SamplesApart
  <2> QED BY <1>1, <2>2
<1>4. ASSUME NEW q \in T PROVE \E b \in Below(v) : f[b] = q
  <2>1. PICK c \in Cpus, k \in 1..p-1 : q = c*(p-1) + k
    BY SamplesFill
  <2>2. SampleAt(c, k) < v
    BY <2>1
  <2>3. <<c, k>> \in Below(v)
    BY <2>2 DEF Below
  <2> QED BY <2>1, <2>3
<1>5. IsFiniteSet(T)
  <2> DEFINE N == p*(p-1)
  <2>1. N \in Int
    BY DEF Cut
  <2> HIDE DEF N
  <2>2. IsFiniteSet(1..N)
    BY <2>1, FS_Interval
  <2>3. T \in SUBSET (1..N)
    BY DEF N
  <2> HIDE DEF T
  <2> QED BY <2>2, <2>3, FS_Subset
<1>6. f \in [Below(v) -> T]
  BY <1>2
<1> HIDE DEF f, T
<1>7. f \in Injection(Below(v), T)
  BY <1>3, <1>6 DEF Injection, IsInjective
<1>8. f \in Surjection(Below(v), T)
  BY <1>4, <1>6 DEF Surjection
<1>9. Cardinality(Below(v)) = Cardinality(T)
  BY <1>5, <1>7, <1>8, FS_Injection
<1> QED BY <1>9 DEF T

\* The bounds are samples, with parts of NUM_CPU-1 samples between them.
LEMMA ChooseBalance == ASSUME BalanceInv, ChooseSplitters PROVE BalanceInv'
<1>1. PhaseInv'
  BY NextPhases DEF BalanceInv, Next, Main
<1>2. /\ pc = "split" /\ pc' = "bucket" /\ i = 0 /\ running = {} /\ running' = {} /\ i' = 0
      /\ UNCHANGED <<input, arr, buckets, bucket_sizes>>
  BY DEF ChooseSplitters, BalanceInv, PhaseInv, PhasesApart, PhaseOf, LoopsOK
<1>3. LoopsOK'
  BY <1>2 DEF LoopsOK
<1>4. /\ \A c, k : SampleAt(c, k)' = SampleAt(c, k)
      /\ \A c, x : KeyAt(c, x)' = KeyAt(c, x)
      /\ \A v : Below(v)' = Below(v)
      /\ KeysDistinct' = KeysDistinct
  BY <1>2, SameKeys
<1>5. w' = w /\ Regular' = Regular
  BY <1>2, SameCut
<1>6. ASSUME Regular, RegularInv PROVE RegularInv'
  <2>1. Cut /\ arr \in [1..Len0 -> Nat]
    BY <1>6, CutIs DEF BalanceInv, RegularInv, KeysDistinct
  <2>2. \A c \in Cpus : SortEnded(c) /\ SortEnded(c)'
    BY <1>2 DEF SortEnded
  <2>3. \A c \in Cpus : ~ DealEnded(c) /\ ~ DealEnded(c)'
    BY <1>2, <2>1 DEF DealEnded, Cut
  <2>4. KeysDistinct' /\ BlocksSorted'
    BY <1>4, <1>5, <1>6, <2>2 DEF RegularInv, BlocksSorted
  <2>5. BlocksSampled'
    BY <1>2 DEF BlocksSampled
  <2>6. BoundsHold'
    <3> DEFINE len == p*(p-1)
    <3>1. p \in Nat \ {0} /\ p = NUM_CPU /\ len \in Nat
      <4>1. p \in Nat \ {0} /\ p = NUM_CPU
        BY <2>1 DEF Cut, p
      <4> QED BY <4>1, SMT
    <3>2. DOMAIN splitters = 1..len
          /\ \A c \in Cpus : \A k \in 1..p-1 : splitters[c*(p-1) + k] = SampleAt(c, k)
      BY <1>2, <1>6, <2>2 DEF RegularInv, BlocksSampled
    <3>3. ASSUME NEW c \in Cpus, NEW k \in 1..p-1 PROVE SampleAt(c, k) \in Nat
      <4>1. SampleIndex(w, k) \in 0..w-1 /\ w \in Nat
        BY <2>1, IndexIs DEF Cut
      <4>2. SampleIndex(w, k) + 1 \in 1..w
        BY <4>1
      <4> QED BY <2>1, <4>2, BlockIs DEF SampleAt
    <3>4. ASSUME NEW q \in 1..len PROVE splitters[q] \in Nat
      <4>1. PICK c \in Cpus, k \in 1..p-1 : q = c*(p-1) + k
        BY <2>1, SamplesFill
      <4> QED BY <3>2, <3>3, <4>1
    <3>5. ASSUME NEW s \in 1..p-1
          PROVE  /\ g_splitters'[s] \in Nat
                 /\ Cardinality(Below(g_splitters'[s])) <= s*(p-1)
                 /\ s*(p-1) + 1 <= Cardinality(Below(g_splitters'[s] + 1))
      <4> DEFINE x == s*(p-1) + 1  v == qsort(splitters)[x]
      <4>1. x \in 1..len /\ x - 1 = s*(p-1)
        <5>1. s \in Nat /\ s + 1 <= p /\ p - 1 \in Nat \ {0}
          BY <3>1
        <5>2. (s + 1) * (p - 1) = s * (p - 1) + (p - 1) /\ (s + 1) * (p - 1) <= p * (p - 1)
              /\ s * (p - 1) \in Nat
          BY <3>1, <5>1, SMT
        <5> DEFINE y == s * (p - 1)
        <5>3. y \in Nat /\ y + (p - 1) <= len
          BY <5>2
        <5> HIDE DEF y, len
        <5>4. y + 1 \in 1..len /\ (y + 1) - 1 = y
          BY <3>1, <5>1, <5>3
        <5> QED BY <5>4 DEF y
      <4>2. g_splitters'[s] = v
        BY <3>1 DEF ChooseSplitters
      <4> HIDE DEF len
      <4>3. \A q \in 1..len : splitters[q] \in Int
        BY <3>4
      <4>4. PICK at : Sorts(splitters, len, at)
        BY <3>1, <3>2, <4>3, QsortIs
      <4>5. v \in Nat
        BY <3>4, <4>1, <4>4 DEF Sorts
      <4>6. /\ Cardinality({q \in 1..len : splitters[q] < v}) <= x - 1
            /\ x <= Cardinality({q \in 1..len : splitters[q] <= v})
        BY <3>1, <3>2, <4>1, <4>3, SplitCounts
      <4> HIDE DEF v, x
      <4>7. {q \in 1..len : splitters[q] <= v} = {q \in 1..len : splitters[q] < v + 1}
        BY <4>3, <4>5
      <4>8. \A u : Cardinality(Below(u)) = Cardinality({q \in 1..len : splitters[q] < u})
        BY <2>1, <3>2, SamplesCount DEF len
      <4>9. Cardinality(Below(v)) <= x - 1 /\ x <= Cardinality(Below(v + 1))
        BY <4>6, <4>7, <4>8
      <4>10. x = s*(p-1) + 1
        BY DEF x
      <4> QED BY <4>1, <4>2, <4>5, <4>9, <4>10
    <3>6. \A v : Below(v)' = Below(v)
      BY <1>4
    <3> QED BY <3>5, <3>6 DEF BoundsHold
  <2>7. BoundsSpread'
    BY <2>6 DEF BoundsSpread
  <2>8. BucketsDealt'
    BY <1>2, <1>6, <2>3 DEF RegularInv, BucketsDealt
  <2>9. SizesAdded'
    <3>1. bucket_sizes = [s \in Cpus |-> 0]
      BY <1>2, <1>6 DEF RegularInv, SizesAdded
    <3> QED BY <1>2, <3>1 DEF SizesAdded
  <2> QED BY <2>4, <2>5, <2>7, <2>8, <2>9 DEF RegularInv
<1> QED BY <1>1, <1>2, <1>3, <1>5, <1>6 DEF BalanceInv

\* A task deals its block out.
LEMMA DealBalance ==
  ASSUME BalanceInv, NEW c \in Cpus, cpu_phaseIII(c)
  PROVE  BalanceInv'
<1>1. PhaseInv'
  BY NextPhases DEF BalanceInv, Next, Task
<1>2. /\ <<"III", c>> \in running /\ running' = running \ {<<"III", c>>} /\ pc' = pc /\ i' = i
      /\ UNCHANGED <<input, arr, splitters, g_splitters, bucket_sizes>>
  BY DEF cpu_phaseIII, Ends
<1>3. pc \in {"bucket", "bucketed"} /\ (pc = "bucket" => c < i)
  <2>1. pc \in DOMAIN PhaseOf /\ PhaseOf[pc] = "III"
    BY <1>2 DEF BalanceInv, PhaseInv, PhasesApart
  <2>2. pc \in {"bucket", "bucketed"}
    BY <2>1 DEF PhaseOf
  <2> QED BY <1>2, <2>2 DEF BalanceInv, LoopsOK
<1>4. LoopsOK'
  BY <1>2 DEF BalanceInv, LoopsOK
<1>5. /\ \A e, k : SampleAt(e, k)' = SampleAt(e, k)
      /\ \A e, x : KeyAt(e, x)' = KeyAt(e, x)
      /\ \A v : Below(v)' = Below(v)
      /\ \A e : Block(e)' = Block(e)
      /\ KeysDistinct' = KeysDistinct
  BY <1>2, SameKeys
<1>6. w' = w /\ Regular' = Regular
  BY <1>2, SameCut
<1>7. \A b, s : Dealt(b, s)' = Dealt(b, s)
  BY <1>2, SameDealt
<1>8. ASSUME Regular, RegularInv PROVE RegularInv'
  <2>1. Cut /\ arr \in [1..Len0 -> Nat]
    BY <1>8, CutIs DEF BalanceInv, RegularInv, KeysDistinct
  <2>2. \A e \in Cpus : SortEnded(e) /\ SortEnded(e)'
    BY <1>2, <1>3 DEF SortEnded
  <2>3. ~ DealEnded(c) /\ DealEnded(c)'
    BY <1>2, <1>3 DEF DealEnded
  <2>4. \A e \in Cpus : e # c => (DealEnded(e)' <=> DealEnded(e))
    BY <1>2, <1>3 DEF DealEnded
  <2>5. KeysDistinct' /\ BlocksSorted'
    BY <1>5, <1>6, <1>8, <2>2 DEF RegularInv, BlocksSorted
  <2>6. BlocksSampled'
    BY <1>2, <1>3 DEF BlocksSampled
  <2>7. BoundsSpread'
    BY <1>2, <1>3, <1>5, <1>8 DEF RegularInv, BoundsSpread, BoundsHold
  <2>8. BucketsDealt'
    <3>1. /\ buckets' = [buckets EXCEPT ![c] = buckets'[c]] /\ DOMAIN buckets = Cpus
          /\ DOMAIN buckets' = Cpus
      BY <1>8 DEF RegularInv, BucketsDealt, cpu_phaseIII
    <3>2. ASSUME NEW s \in Cpus PROVE Len(buckets'[c][s]) = Cardinality(Dealt(Block(c), s))
      <4> DEFINE n == Cardinality(Dealt(Block(c), s))
                 keys == [x \in 1..n |-> Block(c)[Min(Dealt(Block(c), s)) + x - 1]]
      <4>1. buckets[c] = [t \in Cpus |-> <<>>]
        BY <1>8, <2>3 DEF RegularInv, BucketsDealt
      <4>2. buckets'[c][s] = buckets[c][s] \o keys
        BY <3>1 DEF cpu_phaseIII
      <4>3. n \in Nat
        <5> DEFINE D == Dealt(Block(c), s)  z == w
        <5>1. z \in Nat /\ DOMAIN Block(c) = 1..z
          BY <2>1, BlockIs DEF Cut
        <5> HIDE DEF z
        <5>2. IsFiniteSet(1..z)
          BY <5>1, FS_Interval
        <5>3. D \in SUBSET (1..z)
          BY <5>1 DEF Dealt
        <5> HIDE DEF D
        <5>4. Cardinality(D) \in Nat
          BY <5>2, <5>3, FS_Subset, FS_CardinalityType
        <5> QED BY <5>4 DEF D
      <4> HIDE DEF n
      <4>4. \E S : keys \in Seq(S)
        <5> DEFINE S == {Block(c)[Min(Dealt(Block(c), s)) + x - 1] : x \in 1..n}
        <5>1. keys \in Seq(S)
          BY <4>3
        <5> QED BY <5>1
      <4>5. Len(keys) = n
        BY <4>3
      <4> HIDE DEF keys
      <4>6. Len(<<>> \o keys) = Len(keys)
        BY <4>4
      <4>7. buckets[c][s] = <<>>
        BY <4>1
      <4> QED BY <4>2, <4>5, <4>6, <4>7 DEF n
    <3>3. \A s : Dealt(Block(c), s)' = Dealt(Block(c), s)
      BY <1>5, <1>2 DEF Dealt, BucketAt
    <3>4. ASSUME NEW e \in Cpus, e # c
          PROVE  \/ ~ DealEnded(e)' /\ buckets'[e] = [s \in Cpus |-> <<>>]
                 \/ DealEnded(e)' /\ \A s \in Cpus :
                      Len(buckets'[e][s]) = Cardinality(Dealt(Block(e), s)')
      <4>1. buckets'[e] = buckets[e]
        BY <3>1, <3>4
      <4>2. \A s : Dealt(Block(e), s)' = Dealt(Block(e), s)
        BY <1>2, <1>5 DEF Dealt, BucketAt
      <4>3. \/ ~ DealEnded(e) /\ buckets[e] = [s \in Cpus |-> <<>>]
            \/ DealEnded(e) /\ \A s \in Cpus :
                 Len(buckets[e][s]) = Cardinality(Dealt(Block(e), s))
        BY <1>8 DEF RegularInv, BucketsDealt
      <4> QED BY <2>4, <3>4, <4>1, <4>2, <4>3
    <3> QED BY <2>3, <3>1, <3>2, <3>3, <3>4 DEF BucketsDealt
  <2>9. SizesAdded'
    BY <1>2, <1>3, <1>8 DEF RegularInv, SizesAdded
  <2> QED BY <2>5, <2>6, <2>7, <2>8, <2>9 DEF RegularInv
<1> QED BY <1>1, <1>2, <1>4, <1>6, <1>8 DEF BalanceInv

\* The keys of a block that is sorted change places within it.
LEMMA SortMoves ==
  ASSUME Cut, KeysDistinct, NEW c \in Cpus, UNCHANGED input,
         arr' = Overwrite(arr, Base(c), qsort(Block(c)))
  PROVE  /\ KeysDistinct'
         /\ \A x, y \in 1..w : x <= y => KeyAt(c, x)' <= KeyAt(c, y)'
         /\ \A e \in Cpus \ {c} : \A x \in 1..w : KeyAt(e, x)' = KeyAt(e, x)
         /\ DOMAIN qsort(Block(c)) = 1..w
         /\ \A x \in 1..w : qsort(Block(c))[x] = KeyAt(c, x)'
<1> DEFINE b == Base(c)  z == w  L == Len0  qs == qsort(Block(c))  s == arr
<1>1. /\ b \in Nat /\ z \in Nat \ {0} /\ L \in Nat /\ b + z <= L
      /\ \A e \in Cpus : e # c => Base(e) \in Nat /\ Base(e) + z <= L
                                  /\ (Base(e) + z <= b \/ b + z <= Base(e))
  <2>1. /\ p \in Nat /\ w \in Nat \ {0} /\ Len0 \in Nat /\ Cpus = 0..p-1
        /\ \A e \in Cpus : Base(e) \in Nat /\ Base(e) + w <= Len0
        /\ \A d, e \in Cpus : d < e => Base(d) + w <= Base(e)
    BY DEF Cut
  <2>2. ASSUME NEW e \in Cpus, e # c PROVE Base(e) + w <= Base(c) \/ Base(c) + w <= Base(e)
    <3>1. e < c \/ c < e
      BY <2>1, <2>2
    <3> QED BY <2>1, <3>1
  <2> QED BY <2>1, <2>2
<1>2. /\ w' = w /\ Len0' = Len0 /\ \A e : Base(e)' = Base(e)
  BY SameCut
<1>3. s \in [1..L -> Nat] /\ \A k, l \in 1..L : s[k] = s[l] => k = l
  BY DEF KeysDistinct
<1>4. /\ DOMAIN Block(c) = 1..z
      /\ \A x \in 1..z : Block(c)[x] = s[b + x] /\ Block(c)[x] \in Nat
  BY <1>3, BlockIs DEF KeyAt
<1>5. PICK at : Sorts(Block(c), z, at)
  <2>1. z \in Nat /\ \A l \in 1..z : Block(c)[l] \in Int
    BY <1>1, <1>4
  <2> HIDE DEF z
  <2> QED BY <1>4, <2>1, QsortIs
<1>6. /\ at \in [1..z -> 1..z] /\ \A x, y \in 1..z : at[x] = at[y] => x = y
      /\ DOMAIN qs = 1..z /\ \A x \in 1..z : qs[x] = Block(c)[at[x]]
      /\ \A x, y \in 1..z : x <= y => qs[x] <= qs[y]
  BY <1>5 DEF Sorts, Rising
<1>7. arr' = [k \in 1..L |-> IF k - b \in 1..z THEN qs[k - b] ELSE s[k]]
  BY <1>3, <1>6 DEF Overwrite
<1> DEFINE o == [k \in 1..L |-> IF k - b \in 1..z THEN b + at[k - b] ELSE k]
<1> HIDE DEF b, z, L, qs, s
<1>8. ASSUME NEW k \in 1..L PROVE o[k] \in 1..L /\ arr'[k] = s[o[k]]
  <2>1. CASE k - b \in 1..z
    <3>1. at[k - b] \in 1..z
      BY <1>6, <2>1
    <3>2. b + at[k - b] \in 1..L
      BY <1>1, <3>1
    <3>3. arr'[k] = qs[k - b] /\ qs[k - b] = Block(c)[at[k - b]]
      BY <1>6, <1>7, <2>1
    <3> QED BY <1>4, <2>1, <3>1, <3>2, <3>3
  <2>2. CASE k - b \notin 1..z
    BY <1>7, <2>2
  <2> QED BY <2>1, <2>2
<1>9. ASSUME NEW k \in 1..L, NEW l \in 1..L, o[k] = o[l] PROVE k = l
  <2>1. CASE k - b \in 1..z /\ l - b \in 1..z
    <3>1. at[k - b] \in 1..z /\ at[l - b] \in 1..z
      BY <1>6, <2>1
    <3>2. at[k - b] = at[l - b]
      BY <1>1, <1>9, <2>1, <3>1
    <3>3. k - b = l - b
      BY <1>6, <2>1, <3>2
    <3> QED BY <1>1, <3>3
  <2>2. CASE k - b \in 1..z /\ l - b \notin 1..z
    <3>1. o[k] = b + at[k - b] /\ at[k - b] \in 1..z /\ o[l] = l
      BY <1>6, <2>2
    <3>2. l - b = at[k - b]
      BY <1>1, <1>9, <3>1
    <3> QED BY <2>2, <3>1, <3>2
  <2>3. CASE k - b \notin 1..z /\ l - b \in 1..z
    <3>1. o[l] = b + at[l - b] /\ at[l - b] \in 1..z /\ o[k] = k
      BY <1>6, <2>3
    <3>2. k - b = at[l - b]
      BY <1>1, <1>9, <3>1
    <3> QED BY <2>3, <3>1, <3>2
  <2>4. CASE k - b \notin 1..z /\ l - b \notin 1..z
    BY <1>9, <2>4
  <2> QED BY <2>1, <2>2, <2>3, <2>4
<1> HIDE DEF o
<1>10. arr' \in [1..L -> Nat] /\ \A k, l \in 1..L : arr'[k] = arr'[l] => k = l
  <2>1. ASSUME NEW k \in 1..L PROVE arr'[k] \in Nat
    BY <1>3, <1>8
  <2>2. arr' \in [1..L -> Nat]
    BY <1>7, <2>1
  <2>3. ASSUME NEW k \in 1..L, NEW l \in 1..L, arr'[k] = arr'[l] PROVE k = l
    <3>1. o[k] = o[l]
      BY <1>3, <1>8, <2>3
    <3> QED BY <1>9, <3>1
  <2> QED BY <2>2, <2>3
<1>11. KeysDistinct'
  BY <1>2, <1>10 DEF KeysDistinct, L
<1>12. ASSUME NEW x \in 1..z PROVE KeyAt(c, x)' = qs[x]
  <2>1. b + x \in 1..L /\ (b + x) - b = x
    BY <1>1
  <2>2. arr'[b + x] = qs[x]
    BY <1>7, <2>1
  <2> QED BY <1>2, <2>2 DEF KeyAt, b
<1>13. ASSUME NEW e \in Cpus \ {c}, NEW x \in 1..z PROVE KeyAt(e, x)' = KeyAt(e, x)
  <2>1. Base(e) + x \in 1..L /\ ~ ((Base(e) + x) - b \in 1..z)
    BY <1>1
  <2>2. arr'[Base(e) + x] = s[Base(e) + x]
    BY <1>7, <2>1
  <2> QED BY <1>2, <2>2 DEF KeyAt, s
<1> QED BY <1>6, <1>11, <1>12, <1>13 DEF z, qs

\* The task keeps the samples of its block.
LEMMA SortSamples ==
  ASSUME Cut, KeysDistinct, NEW c \in Cpus, UNCHANGED input, cpu_phaseI(c),
         DOMAIN splitters = 1..p*(p-1)
  PROVE  /\ DOMAIN splitters' = 1..p*(p-1)
         /\ \A k \in 1..p-1 : splitters'[c*(p-1) + k] = SampleAt(c, k)'
         /\ \A e \in Cpus \ {c} : \A k \in 1..p-1 :
              splitters'[e*(p-1) + k] = splitters[e*(p-1) + k]
<1>1. /\ w' = w /\ Len0' = Len0 /\ \A e : Base(e)' = Base(e) /\ BlockSize(e)' = BlockSize(e)
  BY SameCut
<1> DEFINE sorted == qsort(Block(c))
<1>2. /\ arr' = Overwrite(arr, Base(c), sorted)
      /\ \E sample : /\ DOMAIN sample = 1..p-1
                     /\ \A k \in DOMAIN sample : sample[k] \in Sampled(sorted, k)
                     /\ splitters' = Overwrite(splitters, c * (p-1), sample)
  BY DEF cpu_phaseI, p
<1>3. /\ sorted # <<>> /\ Len(sorted) = w /\ \A x \in 1..w : sorted[x] = KeyAt(c, x)'
      /\ w \in Nat \ {0} /\ p = NUM_CPU /\ p \in Nat \ {0}
  <2>1. w \in Nat \ {0} /\ p = NUM_CPU /\ p \in Nat \ {0}
    BY DEF Cut, p
  <2>2. DOMAIN sorted = 1..w /\ \A x \in 1..w : sorted[x] = KeyAt(c, x)'
    BY <1>2, SortMoves
  <2> HIDE DEF sorted
  <2>3. Len(sorted) = w
    BY <2>1, <2>2
  <2>4. DOMAIN <<>> = {} /\ 1 \in 1..w
    BY <2>1
  <2> QED BY <2>1, <2>2, <2>3, <2>4
<1> HIDE DEF sorted
<1>4. PICK sample :
        /\ DOMAIN sample = 1..p-1
        /\ \A k \in DOMAIN sample : sample[k] \in Sampled(sorted, k)
        /\ splitters' = Overwrite(splitters, c * (p-1), sample)
  BY <1>2
<1>5. DOMAIN sample = 1..p-1
  BY <1>4
<1>6. ASSUME NEW k \in 1..p-1 PROVE sample[k] = SampleAt(c, k)'
  <2>1. sample[k] = sorted[SampleIndex(w, k) + 1]
    BY <1>3, <1>4, <1>5 DEF Sampled
  <2>2. SampleIndex(w, k) + 1 \in 1..w
    <3>1. SampleIndex(w, k) \in 0..w-1
      BY IndexIs
    <3> QED BY <1>3, <3>1
  <2>3. PICK x \in 1..w : x = SampleIndex(w, k) + 1
    BY <2>2
  <2>4. SampleAt(c, k)' = KeyAt(c, x)'
    BY <1>1, <2>3 DEF SampleAt
  <2> QED BY <1>3, <2>1, <2>3, <2>4
<1>7. splitters' = [q \in 1..p*(p-1) |-> IF q - c*(p-1) \in 1..p-1 THEN sample[q - c*(p-1)]
                                         ELSE splitters[q]]
  BY <1>4, <1>5 DEF Overwrite
<1>8. ASSUME NEW k \in 1..p-1 PROVE splitters'[c*(p-1) + k] = sample[k]
  <2> DEFINE C == c*(p-1)  q == C + k
  <2>1. C \in Int
    <3>1. c \in Int /\ p \in Int
      BY DEF Cut
    <3> QED BY <3>1
  <2>2. q \in 1..p*(p-1)
    BY SamplesApart
  <2>3. q - C = k
    <3> HIDE DEF C
    <3> QED BY <2>1
  <2>4. splitters'[q] = IF q - C \in 1..p-1 THEN sample[q - C] ELSE splitters[q]
    BY <1>7, <2>2
  <2> QED BY <2>3, <2>4
<1>9. ASSUME NEW e \in Cpus \ {c}, NEW k \in 1..p-1
      PROVE  splitters'[e*(p-1) + k] = splitters[e*(p-1) + k]
  <2> DEFINE C == c*(p-1)  q == e*(p-1) + k
  <2>1. C \in Int /\ q \in Int
    <3>1. c \in Int /\ e \in Int /\ p \in Int /\ k \in Int
      BY DEF Cut
    <3> QED BY <3>1
  <2>2. q \in 1..p*(p-1)
    BY SamplesApart
  <2>3. q - C \notin 1..p-1
    <3> SUFFICES ASSUME q - C \in 1..p-1 PROVE FALSE
      OBVIOUS
    <3> DEFINE l == q - C
    <3>1. C + l = q
      <4> HIDE DEF C, q
      <4> QED BY <2>1
    <3>2. l \in 1..p-1
      OBVIOUS
    <3> HIDE DEF l
    <3>3. e = c
      BY <3>1, <3>2, SamplesApart
    <3> QED BY <3>3
  <2>4. splitters'[q] = IF q - C \in 1..p-1 THEN sample[q - C] ELSE splitters[q]
    BY <1>7, <2>2
  <2> QED BY <2>3, <2>4
<1>10. DOMAIN splitters' = 1..p*(p-1)
  BY <1>7
<1> QED BY <1>6, <1>8, <1>9, <1>10

\* A task sorts and samples its block.
LEMMA SortBalance ==
  ASSUME BalanceInv, NEW c \in Cpus, cpu_phaseI(c)
  PROVE  BalanceInv'
<1>1. PhaseInv'
  BY NextPhases DEF BalanceInv, Next, Task
<1>2. /\ <<"I", c>> \in running /\ running' = running \ {<<"I", c>>} /\ pc' = pc /\ i' = i
      /\ UNCHANGED <<input, buckets, g_splitters, bucket_sizes>>
  BY DEF cpu_phaseI, Ends
<1>3. pc \in {"sort", "sorted"} /\ (pc = "sort" => c < i)
  <2>1. pc \in DOMAIN PhaseOf /\ PhaseOf[pc] = "I"
    BY <1>2 DEF BalanceInv, PhaseInv, PhasesApart
  <2>2. pc \in {"sort", "sorted"}
    BY <2>1 DEF PhaseOf
  <2> QED BY <1>2, <2>2 DEF BalanceInv, LoopsOK
<1>4. LoopsOK'
  BY <1>2 DEF BalanceInv, LoopsOK
<1>5. w' = w /\ Regular' = Regular
  BY <1>2, SameCut
<1>6. ASSUME Regular, RegularInv PROVE RegularInv'
  <2>1. Cut
    BY <1>6, CutIs DEF BalanceInv
  <2>2. ~ SortEnded(c) /\ SortEnded(c)'
    BY <1>2, <1>3 DEF SortEnded
  <2>3. \A e \in Cpus : e # c => (SortEnded(e)' <=> SortEnded(e))
    BY <1>2, <1>3 DEF SortEnded
  <2>4. \A e : ~ DealEnded(e) /\ ~ DealEnded(e)'
    BY <1>2, <1>3 DEF DealEnded
  <2>5. /\ KeysDistinct'
        /\ \A x, y \in 1..w : x <= y => KeyAt(c, x)' <= KeyAt(c, y)'
        /\ \A e \in Cpus \ {c} : \A x \in 1..w : KeyAt(e, x)' = KeyAt(e, x)
    BY <1>2, <1>6, <2>1, SortMoves DEF cpu_phaseI, RegularInv
  <2>6. BlocksSorted'
    <3>1. ASSUME NEW e \in Cpus, SortEnded(e)', NEW x \in 1..w, NEW y \in 1..w, x <= y
          PROVE  KeyAt(e, x)' <= KeyAt(e, y)'
      <4>1. CASE e = c
        BY <2>5, <3>1, <4>1
      <4>2. CASE e # c
        BY <1>6, <2>3, <2>5, <3>1, <4>2 DEF RegularInv, BlocksSorted
      <4> QED BY <4>1, <4>2
    <3> QED BY <1>5, <3>1 DEF BlocksSorted
  <2>7. BlocksSampled'
    <3>1. /\ DOMAIN splitters = 1..p*(p-1)
          /\ \A e \in Cpus : SortEnded(e) =>
               \A k \in 1..p-1 : splitters[e*(p-1) + k] = SampleAt(e, k)
      BY <1>3, <1>6 DEF RegularInv, BlocksSampled
    <3>2. /\ DOMAIN splitters' = 1..p*(p-1)
          /\ \A k \in 1..p-1 : splitters'[c*(p-1) + k] = SampleAt(c, k)'
          /\ \A e \in Cpus \ {c} : \A k \in 1..p-1 :
               splitters'[e*(p-1) + k] = splitters[e*(p-1) + k]
      BY <1>2, <1>6, <2>1, <3>1, SortSamples DEF RegularInv
    <3>3. ASSUME NEW e \in Cpus, SortEnded(e)', NEW k \in 1..p-1
          PROVE  splitters'[e*(p-1) + k] = SampleAt(e, k)'
      <4>1. CASE e = c
        BY <3>2, <4>1
      <4>2. CASE e # c
        <5>1. splitters'[e*(p-1) + k] = SampleAt(e, k)
          BY <2>3, <3>1, <3>2, <3>3, <4>2
        <5>2. SampleIndex(w, k) + 1 \in 1..w
          <6>1. SampleIndex(w, k) \in 0..w-1 /\ w \in Nat
            BY <2>1, IndexIs DEF Cut
          <6> QED BY <6>1
        <5>3. PICK x \in 1..w : x = SampleIndex(w, k) + 1
          BY <5>2
        <5>4. SampleAt(e, k)' = SampleAt(e, k)
          BY <1>5, <2>5, <4>2, <5>3 DEF SampleAt
        <5> QED BY <5>1, <5>4
      <4> QED BY <4>1, <4>2
    <3> QED BY <3>2, <3>3 DEF BlocksSampled
  <2>8. BoundsSpread'
    BY <1>2, <1>3 DEF BoundsSpread
  <2>9. BucketsDealt'
    BY <1>2, <1>6, <2>4 DEF RegularInv, BucketsDealt
  <2>10. SizesAdded'
    BY <1>2, <1>3, <1>6 DEF RegularInv, SizesAdded
  <2> QED BY <2>5, <2>6, <2>7, <2>8, <2>9, <2>10 DEF RegularInv
<1> QED BY <1>1, <1>2, <1>4, <1>5, <1>6 DEF BalanceInv

\* Every step keeps the invariant.
LEMMA NextBalance == BalanceInv /\ [Next]_vars => BalanceInv'
<1> SUFFICES ASSUME BalanceInv, [Next]_vars PROVE BalanceInv'
  OBVIOUS
<1>1. CASE SubmitSort
  BY <1>1, SubmitBalance DEF SubmitSort
<1>2. CASE UnregisterSorted
  BY <1>2, UnregisterBalance DEF UnregisterSorted
<1>3. CASE ChooseSplitters
  BY <1>3, ChooseBalance
<1>4. CASE SubmitBucket
  BY <1>4, SubmitBalance DEF SubmitBucket
<1>5. CASE UnregisterBucketed
  BY <1>5, UnregisterBalance DEF UnregisterBucketed
<1>6. CASE PlaceBuckets
  BY <1>6, PlaceBalance
<1>7. CASE SubmitGather
  BY <1>7, SubmitBalance DEF SubmitGather
<1>8. CASE WaitForAll
  BY <1>8, OtherBalance
<1>9. CASE UNCHANGED vars
  BY <1>9, OtherBalance
<1>10. ASSUME NEW c \in Cpus, Task(c) PROVE BalanceInv'
  <2>1. CASE cpu_phaseI(c)
    BY <2>1, SortBalance
  <2>2. CASE cpu_phaseIII(c)
    BY <2>2, DealBalance
  <2>3. CASE cpu_phaseIV(c)
    BY <2>3, OtherBalance
  <2> QED BY <1>10, <2>1, <2>2, <2>3 DEF Task
<1> QED
  BY <1>1, <1>2, <1>3, <1>4, <1>5, <1>6, <1>7, <1>8, <1>9, <1>10 DEF Next, Main, Finished

\* What the invariant says of the sizes of the buckets.
LEMMA BalanceIs == BalanceInv => BucketsBalanced
<1> SUFFICES ASSUME BalanceInv, Regular, NEW s \in Cpus PROVE bucket_sizes[s] < 2 * w
  BY DEF BucketsBalanced, Regular, w, p
<1>1. RegularInv /\ Cut
  BY CutIs DEF BalanceInv
<1>2. w \in Nat \ {0}
  BY <1>1 DEF Cut
<1>3. CASE pc \notin {"gather", "gathered", "done"}
  <2>1. bucket_sizes[s] = 0
    BY <1>1, <1>3 DEF RegularInv, SizesAdded
  <2> QED BY <1>2, <2>1
<1>4. CASE pc \in {"gather", "gathered", "done"}
  <2>1. \A c \in Cpus : SortEnded(c) /\ DealEnded(c)
    BY <1>4 DEF SortEnded, DealEnded
  <2>2. \A c \in Cpus : Len(buckets[c][s]) = Cardinality(Dealt(Block(c), s))
    BY <1>1, <2>1 DEF RegularInv, BucketsDealt
  <2>3. BucketSize(s) = Together([c \in Cpus |-> Cardinality(Dealt(Block(c), s))], Cpus)
    BY <2>2, Zenon DEF BucketSize
  <2>4. BoundsHold
    BY <1>1, <1>4 DEF RegularInv, BoundsSpread
  <2>5. Together([c \in Cpus |-> Cardinality(Dealt(Block(c), s))], Cpus) < 2 * w
    BY <1>1, <2>1, <2>4, Balanced DEF RegularInv
  <2>6. bucket_sizes[s] = BucketSize(s)
    BY <1>1, <1>4 DEF RegularInv, SizesAdded
  <2> QED BY <2>3, <2>5, <2>6
<1> QED BY <1>3, <1>4

\* Of distinct keys in blocks of equal size, no bucket gets two blocks' worth:
\* regular sampling balances the tasks of phase IV, for every number of tasks,
\* every array and every rounding of the sample indexes.
THEOREM BucketsAlwaysBalanced == Spec => []BucketsBalanced
<1>1. Init => BalanceInv
  BY InitBalance
<1>2. BalanceInv /\ [Next]_vars => BalanceInv'
  BY NextBalance
<1>3. BalanceInv => BucketsBalanced
  BY BalanceIs
<1> QED BY <1>1, <1>2, <1>3, PTL DEF Spec
=============================================================================
