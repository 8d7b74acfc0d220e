------------------------ MODULE HyperQuickSortProofs ------------------------
(***************************************************************************)
(* For every number of processes, every input and every interleaving of    *)
(* HyperQuickSort: the members of a communicator agree on what it is, every *)
(* receive gets the message it waits for, the keys of the halves stay      *)
(* apart, and no key is lost or doubled.                                   *)
(*                                                                         *)
(* The first three are proved from one invariant.  Groups: a communicator  *)
(* is a run of neighbours, in which the process of rank k is the k-th.     *)
(* Traffic: how far the two ends of a channel have got in their round says *)
(* which messages are on it, and what it has announced.  Keys: in a round, *)
(* what is received, merged or under way lies on its receiver's side of    *)
(* the split key, and outside it the communicators' keys do not mix.       *)
(*                                                                         *)
(* The last needs a second one, Balance, which counts keys: those held by  *)
(* the members of a communicator and those between them.  It says what     *)
(* totSize and the split key's position count at every step of a round.    *)
(***************************************************************************)
EXTENDS HyperQuickSort, WellFoundedInduction, FiniteSetTheorems, SequenceTheorems, TLAPS

----------------------------------------------------------------------------
(* The invariant *)

\* the first process of the communicator of r
First(r) == r - myrank[r]

\* Processes are numbered from 0.
Numbered == \E p \in Nat : Procs = 0..p-1

\* Communicators are runs of neighbours, and their members know it.
Groups ==
  /\ comm \in [Procs -> SUBSET Procs]
  /\ npes \in [Procs -> Nat \ {0}] /\ myrank \in [Procs -> Nat]
  /\ \A r \in Procs :
       /\ myrank[r] < npes[r]
       /\ comm[r] = First(r)..First(r) + npes[r] - 1
       /\ \A s \in comm[r] : comm[s] = comm[r] /\ npes[s] = npes[r] /\ First(s) = First(r)

\* the labels of a round, from the choice of the split key on
Round == {"exchange", "size", "extraSize", "data", "extraData", "merge", "split"}
Labels == {"allreduce", "sort", "sample", "partition", "done"} \cup Round

\* A round needs two processes; only one without a partner of its own has an
\* extra one.
Places ==
  /\ pc \in [Procs -> Labels]
  /\ \A r \in Procs :
       /\ pc[r] \in Round \cup {"sample"} => npes[r] > 1
       /\ pc[r] \in {"extraSize", "extraData"} => extra_partner(r)

Keys == Int
Messages == [comm : SUBSET Procs, kind : {"size", "data"}, body : Seq(Keys)]

Values ==
  /\ arr \in [Procs -> Seq(Keys)]
  /\ DOMAIN split = Procs /\ \A r \in Procs : split[r].key \in Keys
  /\ rbuff \in [Procs -> Seq(Keys)] /\ rbuff_ext \in [Procs -> Seq(Keys)]
  /\ DOMAIN rsize = Procs /\ DOMAIN ext_rsize = Procs
  /\ net \in [Procs -> [Procs -> Seq(Messages)]]

\* At a label, how many messages a process has sent to its partner in this
\* round, and to its extra partner,
MainSent(l) == IF l \in {"size", "extraSize"} THEN 1
               ELSE IF l \in {"data", "extraData", "merge", "split"} THEN 2 ELSE 0
ExtraSent(l) == IF l \in {"extraSize", "data"} THEN 1
                ELSE IF l \in {"extraData", "merge", "split"} THEN 2 ELSE 0
\* and has taken from the one and from the other.
MainTaken(l) == ExtraSent(l)
ExtraTaken(l) == IF l \in {"data", "extraData"} THEN 1
                 ELSE IF l \in {"merge", "split"} THEN 2 ELSE 0

\* how many messages s has sent to d in this round
SentBy(s, d) == IF d = Partner(s) THEN MainSent(pc[s])
                ELSE IF extra_partner(s) /\ d = ExtraPartner(s) THEN ExtraSent(pc[s]) ELSE 0

\* how many messages from s process d has taken in this round
TakenBy(d, s) == IF s = Partner(d) THEN MainTaken(pc[d])
                 ELSE IF extra_partner(d) /\ s = ExtraPartner(d) THEN ExtraTaken(pc[d]) ELSE 0

\* the length of the block s sends to d: one it is to send, or has sent
Owed(s, d) == IF d = Partner(s) THEN Len(sbuff(s)) ELSE 0
BlockLength(s, d) ==
  IF SentBy(s, d) = 2 THEN Len(net[s][d][Len(net[s][d])].body) ELSE Owed(s, d)

\* the size d has been told of that block
Told(d, s) == IF s = Partner(d) THEN rsize[d] ELSE ext_rsize[d]

\* What is on a channel is what one end has sent and the other not taken; a
\* size comes before a block, and is its length.
Channel(s, d) ==
  /\ Len(net[s][d]) = SentBy(s, d) - TakenBy(d, s)
  /\ \A i \in 1..Len(net[s][d]) :
       /\ net[s][d][i].comm = comm[s]
       /\ net[s][d][i].kind = IF TakenBy(d, s) + i = 1 THEN "size" ELSE "data"
  /\ SentBy(s, d) >= 1 /\ TakenBy(d, s) = 0 => net[s][d][1].body = <<BlockLength(s, d)>>
  /\ TakenBy(d, s) = 1 => Told(d, s) = BlockLength(s, d)

Traffic == \A s, d \in Procs : Channel(s, d)

----------------------------------------------------------------------------
Ascending(a) == \A i, j \in 1..Len(a) : i <= j => a[i] <= a[j]

\* Blocks are sorted from the first round on, and while the members exchange
\* they have the same split key.
Sorted ==
  /\ \A r \in Procs : pc[r] \notin {"allreduce", "sort"} => Ascending(arr[r])
  /\ \A r \in Procs : pc[r] \in Round => \A s \in comm[r] : split[s] = split[r]

\* v belongs to the half of process r
Side(r, v) == IF Upper(r) THEN v >= split[r].key ELSE v < split[r].key

\* What r receives or has merged is on its side of the split key.
Sides ==
  \A r \in Procs :
    /\ pc[r] \in Round \ {"exchange"} =>
         \A v \in Range(rbuff[r]) \cup Range(rbuff_ext[r]) : Side(r, v)
    /\ pc[r] = "split" => \A v \in Range(arr[r]) : Side(r, v)
    /\ \A s \in Procs : \A i \in 1..Len(net[s][r]) :
         net[s][r][i].kind = "data" => \A v \in Range(net[s][r][i].body) : Side(r, v)

\* v is among the keys at r or on their way to it, stale copies included
At(r, v) ==
  \/ v \in Range(arr[r]) \cup Range(rbuff[r]) \cup Range(rbuff_ext[r])
  \/ \E s \in Procs : \E i \in 1..Len(net[s][r]) :
       net[s][r][i].kind = "data" /\ v \in Range(net[s][r][i].body)

\* No key of a communicator is among those of another.
Separated ==
  \A r, s \in Procs : r < s /\ comm[r] # comm[s] =>
    \A x, y \in Keys : At(r, x) /\ At(s, y) => x < y

IInv == Numbered /\ Groups /\ Places /\ Values /\ Traffic /\ Sorted /\ Sides /\ Separated

----------------------------------------------------------------------------
(* Sorted blocks *)

LEMMA LeastNatural ==
  ASSUME NEW T, T \subseteq Nat, T # {}
  PROVE  \E m \in T : \A k \in T : m <= k
<1>1. PICK m \in T : \A k \in T : ~ (<<k, m>> \in OpToRel(<, Nat))
  BY NatLessThanWellFounded, WFMin
<1>2. \A k \in T : ~ (k < m)
  BY <1>1 DEF OpToRel
<1> QED BY <1>2

\* Neighbours in order are enough.
LEMMA NeighboursAscend ==
  ASSUME NEW a \in Seq(Int), \A i \in 1..Len(a) - 1 : a[i] <= a[i+1]
  PROVE  Ascending(a)
<1> SUFFICES ASSUME NEW i \in 1..Len(a), NEW j \in 1..Len(a), i <= j, ~(a[i] <= a[j]) PROVE FALSE
  BY DEF Ascending
<1> DEFINE T == {k \in i..Len(a) : ~(a[i] <= a[k])}
<1>1. PICK m \in T : \A k \in T : m <= k
  <2>1. j \in T /\ T \subseteq Nat
    OBVIOUS
  <2> HIDE DEF T
  <2> QED BY <2>1, LeastNatural
<1>2. m # i /\ m \in i..Len(a)
  OBVIOUS
<1>3. m - 1 \in i..Len(a) /\ m - 1 \in 1..Len(a) - 1 /\ m - 1 \notin T
  BY <1>1, <1>2
<1>4. a[i] <= a[m-1] /\ a[m-1] <= a[m]
  BY <1>3
<1> QED BY <1>4

\* std::lower_bound cuts a sorted block at v.
LEMMA LowerBoundCuts ==
  ASSUME NEW a \in Seq(Int), Ascending(a), NEW v \in Int
  PROVE  /\ LowerBound(a, v) \in 0..Len(a)
         /\ \A i \in 1..LowerBound(a, v) : a[i] < v
         /\ \A i \in LowerBound(a, v) + 1..Len(a) : a[i] >= v
<1> DEFINE T == {k \in 0..Len(a) : \A i \in k+1..Len(a) : a[i] >= v}
           S == {i \in 1..Len(a) : a[i] < v}
<1>1. PICK m \in T : \A k \in T : m <= k
  <2>1. Len(a) \in T /\ T \subseteq Nat
    OBVIOUS
  <2> HIDE DEF T
  <2> QED BY <2>1, LeastNatural
<1>2. m \in 0..Len(a) /\ \A i \in m+1..Len(a) : a[i] >= v
  OBVIOUS
<1>3. ASSUME NEW i \in 1..m PROVE a[i] < v
  <2>1. m - 1 \in 0..Len(a) /\ m - 1 \notin T
    <3>1. m - 1 \in 0..Len(a) /\ ~(m <= m - 1)
      BY <1>2, <1>3
    <3> HIDE DEF T
    <3> QED BY <1>1, <3>1
  <2>2. PICK k \in m..Len(a) : ~(a[k] >= v)
    BY <2>1
  <2>3. k = m /\ a[m] < v
    BY <1>2, <2>2
  <2> QED BY <1>2, <2>3 DEF Ascending
<1>4. S = 1..m
  BY <1>2, <1>3
<1>5. LowerBound(a, v) = m
  <2>1. Cardinality(1..m) = m
    BY <1>2, FS_Interval
  <2> QED BY <1>4, <2>1 DEF LowerBound, Smaller
<1> QED BY <1>2, <1>3, <1>5

\* What sorting or merging returns.
LEMMA SortedCopiesAre ==
  ASSUME NEW s \in Seq(Int), NEW t \in SortedCopies(s)
  PROVE  t \in Seq(Int) /\ Ascending(t) /\ Range(t) \subseteq Range(s)
<1>1. t \in [1..Len(s) -> Range(s)] /\ Range(s) \subseteq Int
  BY DEF SortedCopies, Range
<1>2. t \in Seq(Int) /\ Len(t) = Len(s)
  BY <1>1
<1>3. Ascending(t)
  BY <1>2, NeighboursAscend DEF SortedCopies
<1> QED BY <1>1, <1>2, <1>3 DEF Range

LEMMA SubSeqIs ==
  ASSUME NEW a \in Seq(Int), NEW m \in 0..Len(a)
  PROVE  /\ SubSeq(a, 1, m) \in Seq(Int) /\ SubSeq(a, m+1, Len(a)) \in Seq(Int)
         /\ \A v \in Range(SubSeq(a, 1, m)) : \E i \in 1..m : v = a[i]
         /\ \A v \in Range(SubSeq(a, m+1, Len(a))) : \E i \in m+1..Len(a) : v = a[i]
<1>1. /\ SubSeq(a, 1, m) \in Seq(Int) /\ Len(SubSeq(a, 1, m)) = m
      /\ \A i \in 1..m : SubSeq(a, 1, m)[i] = a[i]
  OBVIOUS
<1>2. /\ SubSeq(a, m+1, Len(a)) \in Seq(Int) /\ Len(SubSeq(a, m+1, Len(a))) = Len(a) - m
      /\ \A i \in 1..Len(a) - m : SubSeq(a, m+1, Len(a))[i] = a[m + i]
  OBVIOUS
<1> QED BY <1>1, <1>2 DEF Range

LEMMA RangeOfConcat ==
  ASSUME NEW s \in Seq(Int), NEW t \in Seq(Int)
  PROVE  s \o t \in Seq(Int) /\ Range(s \o t) \subseteq Range(s) \cup Range(t)
BY DEF Range

----------------------------------------------------------------------------
(* Communicators and partners *)

\* In a run of neighbours the process of rank k is the k-th.
LEMMA MemberIs ==
  ASSUME NEW lo \in Nat, NEW n \in Nat \ {0}, NEW k \in 0..n-1
  PROVE  Member(lo..lo+n-1, k) = lo + k
<1> DEFINE c == lo..lo+n-1
<1>1. ASSUME NEW w \in c PROVE Cardinality({x \in c : x < w}) = w - lo
  <2> DEFINE S == {x \in c : x < w}
  <2>1. w \in Int /\ lo <= w
    OBVIOUS
  <2>2. S = lo..w-1
    OBVIOUS
  <2>3. Cardinality(lo..w-1) = IF lo > w - 1 THEN 0 ELSE w - 1 - lo + 1
    BY <2>1, FS_Interval
  <2> HIDE DEF S
  <2>4. Cardinality(S) = w - lo
    BY <2>1, <2>2, <2>3
  <2> QED BY <2>4 DEF S
<1>2. lo + k \in c /\ \A w \in c : w - lo = k <=> w = lo + k
  OBVIOUS
<1> HIDE DEF c
<1>3. (CHOOSE w \in c : Cardinality({x \in c : x < w}) = k) = lo + k
  <2>1. \A w \in c : Cardinality({x \in c : x < w}) = k <=> w = lo + k
    BY <1>1, <1>2
  <2> QED BY <1>2, <2>1
<1> QED BY <1>3 DEF Member, c

LEMMA GroupFacts ==
  ASSUME Numbered, Groups, NEW r \in Procs
  PROVE  /\ r \in Nat /\ npes[r] \in Nat \ {0} /\ myrank[r] \in 0..npes[r]-1
         /\ First(r) \in Nat /\ r = First(r) + myrank[r]
         /\ comm[r] = First(r)..First(r) + npes[r] - 1
         /\ r \in comm[r] /\ comm[r] \subseteq Procs
         /\ \A s \in comm[r] : /\ s \in Procs /\ comm[s] = comm[r]
                               /\ npes[s] = npes[r] /\ First(s) = First(r)
<1>1. r \in Nat /\ Procs \subseteq Nat
  BY DEF Numbered
<1>2. npes[r] \in Nat \ {0} /\ myrank[r] \in 0..npes[r]-1 /\ comm[r] \subseteq Procs
  BY DEF Groups
<1>3. /\ comm[r] = First(r)..First(r) + npes[r] - 1 /\ First(r) \in Int
      /\ r = First(r) + myrank[r]
  BY <1>1, <1>2 DEF Groups, First
<1>4. First(r) \in comm[r] /\ r \in comm[r]
  BY <1>2, <1>3
<1>5. First(r) \in Nat
  BY <1>1, <1>2, <1>4
<1> QED BY <1>1, <1>2, <1>3, <1>4, <1>5 DEF Groups

\* The rank of the partner of rank k among n processes whose lower half ends
\* with rank m.
Mate(n, m, k) ==
  IF k > m THEN k - m - 1 ELSE IF k + m + 1 >= n THEN n - 1 ELSE k + m + 1

LEMMA Halving ==
  ASSUME NEW n \in Nat \ {0}
  PROVE  /\ (n - 1) \div 2 \in Nat
         /\ n % 2 = 1 => n = 2 * ((n - 1) \div 2) + 1
         /\ n % 2 # 1 => n = 2 * ((n - 1) \div 2) + 2
BY SMT

\* Ranks are paired across the halves; of an odd number of processes the last
\* of the lower half and the one before it share the last process.
LEMMA MatesMatch ==
  ASSUME NEW m \in Nat, NEW n \in Nat, n = 2*m + 1 \/ n = 2*m + 2, n > 1, NEW k \in 0..n-1
  PROVE  /\ Mate(n, m, k) \in 0..n-1 /\ Mate(n, m, k) # k
         /\ Mate(n, m, k) > m <=> ~(k > m)
         /\ \/ k = Mate(n, m, Mate(n, m, k))
            \/ n = 2*m + 1 /\ k = m /\ Mate(n, m, k) = n - 1
         /\ n = 2*m + 1 /\ k = n - 1 => k > m /\ Mate(n, m, k) # m /\ Mate(n, m, m) = k
BY DEF Mate

\* Where a process and its partners are in their communicator.
LEMMA PartnerIs ==
  ASSUME Numbered, Groups, NEW r \in Procs, npes[r] > 1
  PROVE  /\ split_id(r) \in Nat /\ (npes[r] = 2 * split_id(r) + 1 \/ npes[r] = 2 * split_id(r) + 2)
         /\ extra_partner(r) <=> npes[r] = 2 * split_id(r) + 1 /\ myrank[r] = npes[r] - 1
         /\ Partner(r) = First(r) + Mate(npes[r], split_id(r), myrank[r])
         /\ Partner(r) \in comm[r]
         /\ ExtraPartner(r) = First(r) + split_id(r) /\ ExtraPartner(r) \in comm[r]
<1> DEFINE m == split_id(r)
           n == npes[r]
           k == Mate(n, m, myrank[r])
<1>1. /\ n \in Nat \ {0} /\ n > 1 /\ myrank[r] \in 0..n-1 /\ First(r) \in Nat
      /\ comm[r] = First(r)..First(r) + n - 1
  BY GroupFacts
<1>2. /\ m \in Nat /\ n \in Nat /\ (n = 2*m + 1 \/ n = 2*m + 2) /\ m \in 0..n-1
      /\ extra_partner(r) <=> n = 2*m + 1 /\ myrank[r] = n - 1
  <2>1. /\ m \in Nat /\ (n % 2 = 1 => n = 2*m + 1) /\ (n % 2 # 1 => n = 2*m + 2)
    BY <1>1, Halving DEF split_id
  <2>2. n % 2 = 1 <=> n = 2*m + 1
    <3> HIDE DEF m, n
    <3> QED BY <1>1, <2>1
  <2>3. m \in 0..n-1
    <3> HIDE DEF m, n
    <3> QED BY <1>1, <2>1
  <2> QED BY <2>1, <2>2, <2>3 DEF extra_partner
<1>3. partner(r) = k
  <2>1. partner(r) = LET new_p0 == IF myrank[r] > m THEN m + 1 ELSE 0
                         cmp_p0 == IF myrank[r] > m THEN 0 ELSE m + 1
                         j == myrank[r] + cmp_p0 - new_p0
                     IN  IF j >= n THEN n - 1 ELSE j
    BY DEF partner, Upper
  <2> HIDE DEF m, n
  <2> QED BY <1>1, <1>2, <2>1 DEF Mate, k
<1>4. k \in 0..n-1
  <2> HIDE DEF m, n
  <2> QED BY <1>1, <1>2, MatesMatch
<1> HIDE DEF k, m, n
<1>5. Partner(r) = First(r) + k
  <2>1. Member(First(r)..First(r) + n - 1, k) = First(r) + k
    BY <1>1, <1>4, MemberIs
  <2> QED BY <1>1, <1>3, <2>1 DEF Partner
<1>6. ExtraPartner(r) = First(r) + m
  <2>1. Member(First(r)..First(r) + n - 1, m) = First(r) + m
    BY <1>1, <1>2, MemberIs
  <2> QED BY <1>1, <2>1 DEF ExtraPartner, m
<1>7. First(r) + k \in comm[r] /\ First(r) + m \in comm[r]
  BY <1>1, <1>2, <1>4
<1> QED BY <1>2, <1>5, <1>6, <1>7 DEF k, m, n

\* s exchanges messages with d
Linked(s, d) == d = Partner(s) \/ (extra_partner(s) /\ d = ExtraPartner(s))

\* The members of a communicator see the same halves.
LEMMA SameHalves ==
  ASSUME Numbered, Groups, NEW r \in Procs, NEW s \in comm[r]
  PROVE  /\ split_id(s) = split_id(r) /\ s = First(r) + myrank[s] /\ npes[s] = npes[r]
         /\ First(s) = First(r) /\ myrank[s] \in 0..npes[r]-1 /\ s \in Procs
         /\ comm[s] = comm[r]
<1>1. s \in Procs /\ comm[s] = comm[r] /\ npes[s] = npes[r] /\ First(s) = First(r)
  BY GroupFacts
<1>2. s = First(s) + myrank[s] /\ myrank[s] \in 0..npes[s]-1
  BY <1>1, GroupFacts
<1> QED BY <1>1, <1>2 DEF split_id

\* Partners are in different halves.
LEMMA PartnerAcross ==
  ASSUME Numbered, Groups, NEW r \in Procs, npes[r] > 1
  PROVE  /\ Partner(r) \in Procs /\ Partner(r) # r /\ Partner(r) \in comm[r]
         /\ Upper(Partner(r)) <=> ~Upper(r)
         /\ extra_partner(r) =>
              /\ ExtraPartner(r) \in Procs /\ ExtraPartner(r) \notin {r, Partner(r)}
              /\ ExtraPartner(r) \in comm[r] /\ ~extra_partner(ExtraPartner(r))
              /\ Upper(r) /\ ~Upper(ExtraPartner(r))
<1> DEFINE m == split_id(r)
           n == npes[r]
           k == myrank[r]
           d == Partner(r)
           e == ExtraPartner(r)
<1>1. /\ m \in Nat /\ n \in Nat /\ (n = 2*m + 1 \/ n = 2*m + 2) /\ k \in 0..n-1 /\ First(r) \in Nat
      /\ d = First(r) + Mate(n, m, k) /\ e = First(r) + m /\ r = First(r) + k
      /\ extra_partner(r) <=> n = 2*m + 1 /\ k = n - 1
      /\ d \in comm[r] /\ e \in comm[r]
  BY PartnerIs, GroupFacts
<1>2. /\ d \in Procs /\ split_id(d) = m /\ d = First(r) + myrank[d] /\ myrank[d] \in 0..n-1
      /\ e \in Procs /\ split_id(e) = m /\ e = First(r) + myrank[e] /\ myrank[e] \in 0..n-1
      /\ npes[e] = n
  BY <1>1, SameHalves
<1>3. n > 1
  OBVIOUS
<1> HIDE DEF m, n, k, d, e
<1>4. /\ Mate(n, m, k) \in 0..n-1 /\ Mate(n, m, k) # k
      /\ Mate(n, m, k) > m <=> ~(k > m)
      /\ n = 2*m + 1 /\ k = n - 1 => k > m /\ Mate(n, m, k) # m /\ k # m
  BY <1>1, <1>3, MatesMatch
<1>5. myrank[d] = Mate(n, m, k) /\ myrank[e] = m
  BY <1>1, <1>2, <1>4
<1>6. d # r /\ (myrank[d] > m <=> ~(k > m))
  BY <1>1, <1>4, <1>5
<1>7. extra_partner(r) => e # r /\ e # d /\ k > m /\ ~(myrank[e] > m) /\ myrank[e] # n - 1
  BY <1>1, <1>4, <1>5
<1>8. extra_partner(r) => ~extra_partner(e)
  BY <1>2, <1>7 DEF extra_partner
<1> QED BY <1>1, <1>2, <1>6, <1>7, <1>8 DEF Upper, m, n, k, d, e

\* A process that another sends to receives from it.
LEMMA LinksMatch ==
  ASSUME Numbered, Groups, NEW s \in Procs, NEW d \in Procs, npes[s] > 1, Linked(s, d)
  PROVE  Linked(d, s) /\ d \in comm[s] /\ d # s /\ npes[d] > 1
<1> DEFINE m == split_id(s)
           n == npes[s]
           k == myrank[s]
           l == myrank[d]
<1>1. d \in comm[s] /\ d # s
  BY PartnerAcross DEF Linked
<1>2. /\ m \in Nat /\ n \in Nat /\ (n = 2*m + 1 \/ n = 2*m + 2) /\ k \in 0..n-1 /\ First(s) \in Nat
      /\ Partner(s) = First(s) + Mate(n, m, k) /\ ExtraPartner(s) = First(s) + m
      /\ s = First(s) + k
      /\ extra_partner(s) <=> n = 2*m + 1 /\ k = n - 1
  BY PartnerIs, GroupFacts
<1>3. /\ d = First(s) + l /\ l \in 0..n-1 /\ npes[d] = n /\ First(d) = First(s) /\ split_id(d) = m
  BY <1>1, SameHalves
<1>4. /\ Partner(d) = First(s) + Mate(n, m, l) /\ ExtraPartner(d) = First(s) + m
      /\ extra_partner(d) <=> n = 2*m + 1 /\ l = n - 1
  BY <1>3, PartnerIs
<1>5. n > 1
  OBVIOUS
<1> HIDE DEF m, n, k, l
<1>6. /\ Mate(n, m, k) \in 0..n-1
      /\ \/ k = Mate(n, m, Mate(n, m, k))
         \/ n = 2*m + 1 /\ k = m /\ Mate(n, m, k) = n - 1
      /\ n = 2*m + 1 /\ k = n - 1 => Mate(n, m, m) = k
  BY <1>2, <1>5, MatesMatch
<1>7. CASE d = Partner(s)
  <2>1. l = Mate(n, m, k)
    BY <1>2, <1>3, <1>6, <1>7
  <2>2. s = Partner(d) \/ (extra_partner(d) /\ s = ExtraPartner(d))
    BY <1>2, <1>4, <1>6, <2>1
  <2> QED BY <1>1, <1>3, <1>5, <2>2 DEF Linked, n
<1>8. CASE extra_partner(s) /\ d = ExtraPartner(s)
  <2>1. l = m
    BY <1>2, <1>3, <1>8
  <2>2. s = Partner(d)
    BY <1>2, <1>4, <1>6, <1>8, <2>1
  <2> QED BY <1>1, <1>3, <1>5, <2>2 DEF Linked, n
<1> QED BY <1>7, <1>8 DEF Linked

----------------------------------------------------------------------------
(* Groups *)

LEMMA GroupsAgree == Numbered /\ Groups => CommunicatorsAgree
<1> SUFFICES ASSUME Numbered, Groups, NEW r \in Procs
             PROVE  /\ r \in comm[r] /\ npes[r] = Cardinality(comm[r])
                    /\ myrank[r] = Cardinality({x \in comm[r] : x < r})
                    /\ \A s \in Procs : s \in comm[r] <=> comm[s] = comm[r]
                    /\ \A s, t \in comm[r] : s..t \subseteq comm[r]
  BY DEF CommunicatorsAgree
<1> DEFINE lo == First(r)
           n == npes[r]
<1>1. /\ n \in Nat \ {0} /\ lo \in Nat /\ r = lo + myrank[r] /\ myrank[r] \in 0..n-1
      /\ comm[r] = lo..lo+n-1 /\ r \in comm[r]
  BY GroupFacts
<1> HIDE DEF lo, n
<1>2. Cardinality(comm[r]) = n
  <2>1. Cardinality(lo..lo+n-1) = IF lo > lo + n - 1 THEN 0 ELSE lo + n - 1 - lo + 1
    BY <1>1, FS_Interval
  <2> QED BY <1>1, <2>1
<1>3. Cardinality({x \in comm[r] : x < r}) = myrank[r]
  <2> DEFINE S == {x \in comm[r] : x < r}
  <2>1. S = lo..r-1
    BY <1>1
  <2>2. Cardinality(lo..r-1) = IF lo > r - 1 THEN 0 ELSE r - 1 - lo + 1
    <3>1. lo \in Int /\ r - 1 \in Int
      BY <1>1
    <3> QED BY <3>1, FS_Interval
  <2> HIDE DEF S
  <2>3. Cardinality(S) = myrank[r]
    BY <1>1, <2>1, <2>2
  <2> QED BY <2>3 DEF S
<1>4. ASSUME NEW s \in Procs PROVE s \in comm[r] <=> comm[s] = comm[r]
  BY GroupFacts
<1>5. ASSUME NEW s \in comm[r], NEW t \in comm[r] PROVE s..t \subseteq comm[r]
  BY <1>1, <1>5
<1> QED BY <1>1, <1>2, <1>3, <1>4, <1>5 DEF n

\* What a process computes from its communicator alone.
LEMMA SameView ==
  ASSUME NEW r, comm'[r] = comm[r], npes'[r] = npes[r], myrank'[r] = myrank[r]
  PROVE  /\ split_id(r)' = split_id(r) /\ First(r)' = First(r) /\ Upper(r)' = Upper(r)
         /\ Partner(r)' = Partner(r) /\ ExtraPartner(r)' = ExtraPartner(r)
         /\ extra_partner(r)' = extra_partner(r)
<1>1. split_id(r)' = split_id(r) /\ First(r)' = First(r)
  BY DEF split_id, First
<1>2. Upper(r)' = Upper(r)
  BY <1>1 DEF Upper
<1>3. partner(r)' = partner(r)
  BY <1>1, <1>2 DEF partner
<1> QED BY <1>1, <1>2, <1>3 DEF Partner, ExtraPartner, extra_partner

\* The two communicators that replace c.
LEMMA SplitGroups ==
  ASSUME Numbered, Groups, NEW r \in Procs, CommSplit(comm[r])
  PROVE  /\ Groups' /\ Procs' = Procs
         /\ \A s \in Procs \ comm[r] : /\ comm'[s] = comm[s] /\ npes'[s] = npes[s]
                                       /\ myrank'[s] = myrank[s] /\ pc'[s] = pc[s]
         /\ \A s \in comm[r] : /\ pc[s] = "split"
                               /\ (npes'[s] > 1 /\ pc'[s] = "sample") \/ pc'[s] = "partition"
                               /\ comm'[s] = {t \in comm[r] : Upper(t) = Upper(s)}
         /\ pc' = [s \in Procs |-> pc'[s]]
<1> DEFINE c == comm[r]
           lo == First(r)
           n == npes[r]
           m == split_id(r)
<1>1. /\ n \in Nat \ {0} /\ lo \in Nat /\ c = lo..lo+n-1 /\ c \subseteq Procs
      /\ m \in Nat /\ m < n
  <2>1. m \in Nat /\ m < n
    <3>1. n \in Nat \ {0} /\ m = (n - 1) \div 2
      BY GroupFacts DEF split_id
    <3> HIDE DEF m, n
    <3> QED BY <3>1, Halving
  <2> QED BY <2>1, GroupFacts
<1>2. ASSUME NEW s \in c
      PROVE  /\ s \in Procs /\ s - lo \in 0..n-1 /\ (Upper(s) <=> s - lo > m)
             /\ NewSize(s) = IF s - lo > m THEN n - m - 1 ELSE m + 1
             /\ NewRank(s) = IF s - lo > m THEN s - lo - m - 1 ELSE s - lo
  <2>1. /\ s \in Procs /\ split_id(s) = m /\ s = lo + myrank[s] /\ myrank[s] \in 0..n-1
        /\ npes[s] = n
    BY SameHalves
  <2> HIDE DEF c, lo, n, m
  <2>2. myrank[s] = s - lo
    BY <1>1, <2>1
  <2> QED BY <1>1, <2>1, <2>2 DEF Upper, NewSize, NewRank
<1>3. /\ comm' = [s \in Procs |-> IF s \in c THEN {t \in c : Upper(t) = Upper(s)} ELSE comm[s]]
      /\ npes' = [s \in Procs |-> IF s \in c THEN NewSize(s) ELSE npes[s]]
      /\ myrank' = [s \in Procs |-> IF s \in c THEN NewRank(s) ELSE myrank[s]]
      /\ pc' = [s \in Procs |-> IF s \in c THEN LoopTest(NewSize(s), totSize[s]) ELSE pc[s]]
      /\ \A s \in c : pc[s] = "split"
      /\ arr0' = arr0
  BY DEF CommSplit, Goto, AllAt, given
<1>4. Procs' = Procs
  BY <1>3 DEF Procs
<1>5. ASSUME NEW s \in Procs, s \notin c
      PROVE  /\ comm'[s] = comm[s] /\ npes'[s] = npes[s] /\ myrank'[s] = myrank[s]
             /\ pc'[s] = pc[s] /\ comm[s] \cap c = {}
  <2>1. comm[s] \cap c = {}
    <3> SUFFICES ASSUME NEW t \in comm[s], t \in c PROVE FALSE
      OBVIOUS
    <3>1. comm[t] = comm[s] /\ comm[t] = c /\ s \in comm[s]
      BY GroupFacts
    <3> QED BY <1>5, <3>1
  <2> HIDE DEF c
  <2> QED BY <1>3, <1>5, <2>1
<1>6. ASSUME NEW s \in c
      PROVE  /\ npes'[s] \in Nat \ {0} /\ myrank'[s] \in Nat /\ myrank'[s] < npes'[s]
             /\ First(s)' = (IF s - lo > m THEN lo + m + 1 ELSE lo)
             /\ npes'[s] = (IF s - lo > m THEN n - m - 1 ELSE m + 1)
             /\ comm'[s] = First(s)'..First(s)' + npes'[s] - 1
             /\ comm'[s] = {t \in c : Upper(t) = Upper(s)}
  <2> HIDE DEF c, lo, n, m
  <2>1. /\ npes'[s] = (IF s - lo > m THEN n - m - 1 ELSE m + 1)
        /\ myrank'[s] = (IF s - lo > m THEN s - lo - m - 1 ELSE s - lo)
        /\ comm'[s] = {t \in c : Upper(t) = Upper(s)}
        /\ s \in Int /\ s - lo \in 0..n-1
    BY <1>1, <1>2, <1>3
  <2>2. First(s)' = (IF s - lo > m THEN lo + m + 1 ELSE lo)
    BY <1>1, <2>1 DEF First
  <2>3. comm'[s] = {t \in c : (t - lo > m) <=> (s - lo > m)}
    <3>1. ASSUME NEW t \in c PROVE Upper(t) = Upper(s) <=> ((t - lo > m) <=> (s - lo > m))
      BY <1>2 DEF Upper
    <3> QED BY <2>1, <3>1
  <2>4. comm'[s] = IF s - lo > m THEN lo+m+1..lo+n-1 ELSE lo..lo+m
    BY <1>1, <2>3
  <2> QED BY <1>1, <2>1, <2>2, <2>4
<1>7. Groups'
  <2>1. /\ comm' \in [Procs -> SUBSET Procs]
        /\ npes' \in [Procs -> Nat \ {0}] /\ myrank' \in [Procs -> Nat]
    <3>1. ASSUME NEW s \in Procs
          PROVE  comm'[s] \in SUBSET Procs /\ npes'[s] \in Nat \ {0} /\ myrank'[s] \in Nat
      <4>1. CASE s \in c
        <5>1. comm'[s] \subseteq c
          BY <4>1, <1>6
        <5> HIDE DEF c
        <5> QED BY <1>1, <1>6, <4>1, <5>1
      <4>2. CASE s \notin c
        BY <1>5, <4>2 DEF Groups
      <4> QED BY <4>1, <4>2
    <3> HIDE DEF c
    <3> QED BY <1>3, <3>1
  <2>2. ASSUME NEW s \in Procs
        PROVE  /\ myrank'[s] < npes'[s]
               /\ comm'[s] = First(s)'..First(s)' + npes'[s] - 1
               /\ \A t \in comm'[s] : comm'[t] = comm'[s] /\ npes'[t] = npes'[s] /\ First(t)' = First(s)'
    <3>1. CASE s \in c
      <4>1. ASSUME NEW t \in comm'[s]
            PROVE  comm'[t] = comm'[s] /\ npes'[t] = npes'[s] /\ First(t)' = First(s)'
        <5> HIDE DEF c, lo, n, m
        <5>1. t \in c /\ Upper(t) = Upper(s)
          BY <1>6, <3>1
        <5>2. (t - lo > m) <=> (s - lo > m)
          BY <1>2, <3>1, <5>1
        <5>3. comm'[t] = comm'[s]
          BY <1>6, <3>1, <5>1
        <5> QED BY <1>6, <3>1, <5>1, <5>2, <5>3
      <4> HIDE DEF c, lo, n, m
      <4> QED BY <1>6, <3>1, <4>1
    <3>2. CASE s \notin c
      <4>1. \A t \in comm[s] : t \in Procs /\ t \notin c
        BY <1>5, <3>2, GroupFacts
      <4>2. \A t \in comm[s] : First(t)' = First(t)
        BY <1>5, <4>1 DEF First
      <4>3. First(s)' = First(s)
        BY <1>5, <3>2 DEF First
      <4> HIDE DEF c, lo, n, m
      <4> QED BY <1>5, <3>2, <4>1, <4>2, <4>3 DEF Groups
    <3> QED BY <3>1, <3>2
  <2> QED BY <1>4, <2>1, <2>2 DEF Groups
<1>8. ASSUME NEW s \in c
      PROVE  (npes'[s] > 1 /\ pc'[s] = "sample") \/ pc'[s] = "partition"
  <2> HIDE DEF c
  <2> QED BY <1>1, <1>3 DEF LoopTest
<1>9. pc' = [s \in Procs |-> pc'[s]]
  <2> HIDE DEF c
  <2> QED BY <1>3
<1> HIDE DEF c
<1> QED BY <1>3, <1>4, <1>5, <1>6, <1>7, <1>8, <1>9 DEF c

----------------------------------------------------------------------------
(* One channel *)

LEMMA CountTypes ==
  ASSUME NEW s, NEW d
  PROVE  SentBy(s, d) \in 0..2 /\ TakenBy(d, s) \in 0..2
BY DEF SentBy, TakenBy, MainSent, ExtraSent, MainTaken, ExtraTaken

\* s sends d the next message of its round.
LEMMA ChannelSends ==
  ASSUME NEW s, NEW d, NEW m, Channel(s, d),
         net[s][d] \in Seq(Messages), m \in Messages,
         net'[s][d] = Append(net[s][d], m),
         SentBy(s, d) \in {0, 1},
         SentBy(s, d)' = SentBy(s, d) + 1, TakenBy(d, s)' = TakenBy(d, s),
         comm'[s] = comm[s], m.comm = comm[s],
         Told(d, s)' = Told(d, s),
         m.kind = IF SentBy(s, d) = 0 THEN "size" ELSE "data",
         SentBy(s, d) = 0 => m.body = <<Owed(s, d)'>>,
         SentBy(s, d) = 1 => Len(m.body) = Owed(s, d)
  PROVE  Channel(s, d)'
<1> DEFINE q == net[s][d]
           n == Len(q)
           a == SentBy(s, d)
           b == TakenBy(d, s)
<1>1. a \in {0, 1} /\ b \in 0..2 /\ n \in Nat /\ n = a - b
  <2>1. a \in {0, 1} /\ b \in 0..2
    BY CountTypes
  <2> HIDE DEF a, b
  <2> QED BY <2>1 DEF Channel, a, b
<1>2. /\ net'[s][d] \in Seq(Messages) /\ Len(net'[s][d]) = n + 1
      /\ net'[s][d][n + 1] = m /\ \A i \in 1..n : net'[s][d][i] = q[i]
  OBVIOUS
<1>3. /\ \A i \in 1..n : q[i].comm = comm[s] /\ q[i].kind = IF b + i = 1 THEN "size" ELSE "data"
      /\ a >= 1 /\ b = 0 => q[1].body = <<BlockLength(s, d)>>
      /\ b = 1 => Told(d, s) = BlockLength(s, d)
  BY DEF Channel
<1>4. BlockLength(s, d)' = IF a + 1 = 2 THEN Len(m.body) ELSE Owed(s, d)'
  BY <1>1, <1>2 DEF BlockLength
<1>5. a = 1 => BlockLength(s, d)' = BlockLength(s, d)
  BY <1>4 DEF BlockLength
<1>6. a = 0 => n = 0 /\ b = 0
  BY <1>1
<1>7. /\ SentBy(s, d)' = a + 1 /\ TakenBy(d, s)' = b
      /\ m.comm = comm'[s] /\ (m.kind = IF a = 0 THEN "size" ELSE "data")
      /\ a = 0 => m.body = <<Owed(s, d)'>>
  OBVIOUS
<1> HIDE DEF q, n, a, b
<1>8. \A i \in 1..n+1 :
        /\ net'[s][d][i].comm = comm'[s]
        /\ net'[s][d][i].kind = IF b + i = 1 THEN "size" ELSE "data"
  <2> SUFFICES ASSUME NEW i \in 1..n+1
               PROVE  /\ net'[s][d][i].comm = comm'[s]
                      /\ net'[s][d][i].kind = IF b + i = 1 THEN "size" ELSE "data"
    OBVIOUS
  <2>1. CASE i \in 1..n
    BY <1>2, <1>3, <2>1
  <2>2. CASE i = n + 1
    BY <1>7, <1>1, <1>2, <2>2
  <2>3. i \in 1..n \/ i = n + 1
    BY <1>1
  <2> QED BY <2>1, <2>2, <2>3, Zenon
<1>9. b = 0 => net'[s][d][1].body = <<BlockLength(s, d)'>>
  <2>1. CASE a = 0
    BY <1>7, <1>1, <1>2, <1>4, <1>6, <2>1
  <2>2. CASE a = 1
    BY <1>1, <1>2, <1>3, <1>5, <2>2
  <2> QED BY <1>1, <2>1, <2>2
<1>10. b = 1 => Told(d, s)' = BlockLength(s, d)'
  BY <1>1, <1>3, <1>5, <1>6
<1>11. Len(net'[s][d]) = SentBy(s, d)' - TakenBy(d, s)'
  BY <1>7, <1>1, <1>2
<1>12. \A i \in 1..Len(net'[s][d]) :
        /\ net'[s][d][i].comm = comm'[s]
        /\ net'[s][d][i].kind = IF TakenBy(d, s)' + i = 1 THEN "size" ELSE "data"
  BY <1>7, <1>2, <1>8, Zenon
<1> QED BY <1>7, <1>9, <1>10, <1>11, <1>12, Zenon DEF Channel

\* d takes the first message from s.
LEMMA ChannelTakes ==
  ASSUME NEW s, NEW d, Channel(s, d),
         net[s][d] \in Seq(Messages), net[s][d] # <<>>,
         net'[s][d] = Tail(net[s][d]),
         SentBy(s, d)' = SentBy(s, d), TakenBy(d, s)' = TakenBy(d, s) + 1,
         comm'[s] = comm[s], Owed(s, d)' = Owed(s, d),
         TakenBy(d, s) = 0 => Told(d, s)' = Head(net[s][d]).body[1]
  PROVE  Channel(s, d)'
<1> DEFINE q == net[s][d]
           n == Len(q)
           a == SentBy(s, d)
           b == TakenBy(d, s)
<1>1. a \in 0..2 /\ b \in 0..1 /\ n \in Nat /\ n = a - b /\ n >= 1
  <2>1. a \in 0..2 /\ b \in 0..2
    BY CountTypes
  <2>2. n \in Nat /\ n >= 1 /\ n = a - b
    BY DEF Channel
  <2> HIDE DEF a, b, n
  <2> QED BY <2>1, <2>2
<1>2. /\ net'[s][d] \in Seq(Messages) /\ Len(net'[s][d]) = n - 1
      /\ \A i \in 1..n-1 : net'[s][d][i] = q[i+1]
      /\ n >= 2 => net'[s][d][1] = q[2]
      /\ Head(q) = q[1]
  OBVIOUS
<1>3. /\ \A i \in 1..n : q[i].comm = comm[s] /\ q[i].kind = IF b + i = 1 THEN "size" ELSE "data"
      /\ a >= 1 /\ b = 0 => q[1].body = <<BlockLength(s, d)>>
  BY DEF Channel
<1>4. b = 0 => BlockLength(s, d)' = BlockLength(s, d)
  <2>1. BlockLength(s, d)' = IF a = 2 THEN Len(net'[s][d][Len(net'[s][d])].body) ELSE Owed(s, d)
    BY DEF BlockLength
  <2>2. BlockLength(s, d) = IF a = 2 THEN Len(q[n].body) ELSE Owed(s, d)
    BY DEF BlockLength
  <2>3. a = 2 /\ b = 0 => net'[s][d][Len(net'[s][d])] = q[n]
    <3> HIDE DEF a, b, n, q
    <3> SUFFICES ASSUME a = 2, b = 0 PROVE net'[s][d][Len(net'[s][d])] = q[n]
      OBVIOUS
    <3>1. n = 2 /\ n >= 2 /\ Len(net'[s][d]) = 1
      BY <1>1, <1>2
    <3>2. net'[s][d][1] = q[2]
      BY <1>2, <3>1, Zenon
    <3> QED BY <3>1, <3>2, Zenon
  <2> HIDE DEF a, b, n, q
  <2>4. CASE a = 2
    BY <2>1, <2>2, <2>3, <2>4, Zenon
  <2>5. CASE a # 2
    BY <2>1, <2>2, <2>5, Zenon
  <2> QED BY <2>4, <2>5
<1>5. SentBy(s, d)' = a /\ TakenBy(d, s)' = b + 1 /\ (b = 0 => Told(d, s)' = Head(q).body[1])
  OBVIOUS
<1> HIDE DEF q, n, a, b
<1>6. \A i \in 1..n-1 :
        /\ net'[s][d][i].comm = comm'[s]
        /\ net'[s][d][i].kind = IF b + 1 + i = 1 THEN "size" ELSE "data"
  BY <1>1, <1>2, <1>3
<1>7. b + 1 = 1 => Told(d, s)' = BlockLength(s, d)'
  <2>1. b = 0 => Told(d, s)' = q[1].body[1]
    BY <1>2, <1>5
  <2>2. b = 0 => q[1].body[1] = BlockLength(s, d)
    BY <1>1, <1>3
  <2> QED BY <1>1, <1>4, <2>1, <2>2
<1>8. Len(net'[s][d]) = SentBy(s, d)' - TakenBy(d, s)'
  BY <1>1, <1>2, <1>5
<1>9. \A i \in 1..Len(net'[s][d]) :
        /\ net'[s][d][i].comm = comm'[s]
        /\ net'[s][d][i].kind = IF TakenBy(d, s)' + i = 1 THEN "size" ELSE "data"
  BY <1>2, <1>6, <1>5, Zenon
<1>10. TakenBy(d, s)' # 0 /\ (TakenBy(d, s)' = 1 => Told(d, s)' = BlockLength(s, d)')
  BY <1>1, <1>7, <1>5
<1> QED BY <1>8, <1>9, <1>10, Zenon DEF Channel

\* The channel is left alone.
LEMMA ChannelStays ==
  ASSUME NEW s, NEW d, Channel(s, d),
         net[s][d] \in Seq(Messages), net'[s][d] = net[s][d],
         SentBy(s, d)' = SentBy(s, d), TakenBy(d, s)' = TakenBy(d, s),
         comm'[s] = comm[s],
         SentBy(s, d) = 1 => Owed(s, d)' = Owed(s, d),
         TakenBy(d, s) = 1 => Told(d, s)' = Told(d, s)
  PROVE  Channel(s, d)'
<1>1. Len(net[s][d]) \in Nat /\ SentBy(s, d) \in 0..2 /\ TakenBy(d, s) \in 0..2
  BY CountTypes
<1>2. SentBy(s, d) # 0 => BlockLength(s, d)' = BlockLength(s, d)
  BY <1>1 DEF BlockLength
<1>3. TakenBy(d, s) = 1 => SentBy(s, d) # 0
  BY <1>1 DEF Channel
<1> QED BY <1>1, <1>2, <1>3 DEF Channel

\* Between two rounds the channel is empty.
LEMMA ChannelEmpty ==
  ASSUME NEW s, NEW d, net'[s][d] = <<>>, SentBy(s, d)' = 0, TakenBy(d, s)' = 0
  PROVE  Channel(s, d)'
BY DEF Channel

----------------------------------------------------------------------------
(* Traffic *)

\* Who has sent or taken anything is in a round, and linked to the other.
LEMMA CountsLinked ==
  ASSUME NEW s \in Procs, NEW d \in Procs, Places
  PROVE  /\ SentBy(s, d) # 0 => Linked(s, d) /\ pc[s] \in Round /\ npes[s] > 1
         /\ TakenBy(d, s) # 0 => Linked(d, s) /\ pc[d] \in Round /\ npes[d] > 1
BY DEF SentBy, TakenBy, MainSent, ExtraSent, MainTaken, ExtraTaken, Linked, Round, Places

\* Every receive gets the message it waits for.
LEMMA TrafficMatches ==
  ASSUME Numbered, Groups, Places, Values, Traffic
  PROVE  MessagesMatch
<1>1. ASSUME NEW s \in Procs, NEW d \in Procs, NEW i \in DOMAIN net[s][d]
      PROVE  net[s][d][i].comm = comm[s] /\ comm[s] = comm[d]
  <2>1. net[s][d] \in Seq(Messages) /\ Channel(s, d)
    BY DEF Values, Traffic
  <2>2. i \in 1..Len(net[s][d]) /\ Len(net[s][d]) # 0 /\ Len(net[s][d]) \in Nat
    BY <2>1
  <2>3. SentBy(s, d) # 0
    <3>1. SentBy(s, d) \in 0..2 /\ TakenBy(d, s) \in 0..2 /\ Len(net[s][d]) = SentBy(s, d) - TakenBy(d, s)
      BY <2>1, CountTypes DEF Channel
    <3> QED BY <2>2, <3>1
  <2>4. d \in comm[s]
    BY <2>3, CountsLinked, LinksMatch
  <2> QED BY <2>1, <2>2, <2>4, GroupFacts DEF Channel
<1>2. ASSUME NEW d \in Procs, NEW s \in Awaited(d), net[s][d] # <<>>
      PROVE  LET m == Head(net[s][d])
             IN  IF pc[d] \in {"size", "extraSize"} THEN m.kind = "size"
                 ELSE m.kind = "data" /\ Len(m.body) = Announced(d)
  <2>1. pc[d] \in {"size", "data", "extraSize", "extraData"}
    BY <1>2, Zenon DEF Awaited
  <2>2. npes[d] > 1
    BY <2>1 DEF Places, Round
  <2>3. s = (IF pc[d] \in {"size", "data"} THEN Partner(d) ELSE ExtraPartner(d))
    BY <1>2, <2>1 DEF Awaited
  <2>4. /\ s \in Procs
        /\ pc[d] \in {"extraSize", "extraData"} => extra_partner(d) /\ s # Partner(d)
    BY <2>1, <2>2, <2>3, PartnerAcross DEF Places
  <2>5. TakenBy(d, s) = IF pc[d] \in {"size", "extraSize"} THEN 0 ELSE 1
    BY <2>1, <2>3, <2>4 DEF TakenBy, MainTaken, ExtraSent, ExtraTaken
  <2>6. net[s][d] \in Seq(Messages) /\ Channel(s, d)
    BY <2>4 DEF Values, Traffic
  <2> DEFINE n == Len(net[s][d])
             m == net[s][d][1]
  <2>7. n \in Nat /\ n >= 1 /\ Head(net[s][d]) = m
    BY <1>2, <2>6
  <2>8. /\ n = SentBy(s, d) - TakenBy(d, s)
        /\ m.kind = (IF TakenBy(d, s) + 1 = 1 THEN "size" ELSE "data")
        /\ TakenBy(d, s) = 1 => Told(d, s) = BlockLength(s, d)
        /\ BlockLength(s, d) = IF SentBy(s, d) = 2 THEN Len(net[s][d][n].body) ELSE Owed(s, d)
    BY <2>6, <2>7 DEF Channel, BlockLength
  <2> HIDE DEF n, m
  <2>9. TakenBy(d, s) = 1 => n = 1 /\ SentBy(s, d) = 2
    BY <2>7, <2>8, CountTypes
  <2>10. TakenBy(d, s) = 1 => Told(d, s) = Len(m.body)
    BY <2>8, <2>9 DEF m
  <2>14. /\ TakenBy(d, s) = 0 => Head(net[s][d]).kind = "size"
         /\ TakenBy(d, s) = 1 => Head(net[s][d]).kind = "data" /\ Len(Head(net[s][d]).body) = Told(d, s)
    BY <2>7, <2>8, <2>10
  <2>11. CASE pc[d] \in {"size", "extraSize"}
    BY <2>5, <2>11, <2>14
  <2>12. CASE pc[d] = "data"
    <3>1. Told(d, s) = Announced(d) /\ TakenBy(d, s) = 1
      BY <2>3, <2>5, <2>12 DEF Told, Announced
    <3> QED BY <2>12, <2>14, <3>1
  <2>13. CASE pc[d] = "extraData"
    <3>1. Told(d, s) = Announced(d) /\ TakenBy(d, s) = 1
      BY <2>4, <2>5, <2>13 DEF Told, Announced
    <3> QED BY <2>13, <2>14, <3>1
  <2> QED BY <2>1, <2>11, <2>12, <2>13
<1> QED BY <1>1, <1>2 DEF MessagesMatch

\* A process that only moves on sees its neighbours as before.
LEMMA SameBlocks ==
  ASSUME NEW s, comm'[s] = comm[s], npes'[s] = npes[s], myrank'[s] = myrank[s],
         arr'[s] = arr[s], split'[s] = split[s]
  PROVE  /\ sbuff(s)' = sbuff(s) /\ lbuff(s)' = lbuff(s)
         /\ \A d : Owed(s, d)' = Owed(s, d)
<1>1. Upper(s)' = Upper(s) /\ Partner(s)' = Partner(s)
  BY SameView
<1>2. split_indx(s)' = split_indx(s)
  BY DEF split_indx, LowerBound, Smaller
<1>3. Below(s)' = Below(s) /\ Above(s)' = Above(s)
  BY <1>2 DEF Below, Above
<1>4. sbuff(s)' = sbuff(s) /\ lbuff(s)' = lbuff(s)
  BY <1>1, <1>3 DEF sbuff, lbuff
<1> QED BY <1>1, <1>4 DEF Owed

\* In a step of the exchange process r takes the message of one process, or
\* none, and sends one to another, or none.
Exchanges(r, from, to, m) ==
  /\ \A s, d \in Procs :
       net'[s][d] = IF s = from /\ d = r THEN Tail(net[s][d])
                    ELSE IF s = r /\ d = to THEN Append(net[s][d], m) ELSE net[s][d]
  /\ from \in Procs => from # r /\ net[from][r] # <<>>
  /\ to \in Procs => to # r /\ m \in Messages

LEMMA ExchangeTraffic ==
  ASSUME Numbered, Groups, Places, Values, Traffic,
         NEW r \in Procs, NEW from, NEW to, NEW m, Exchanges(r, from, to, m),
         UNCHANGED <<given, group, arr, split>>,
         \A s \in Procs \ {r} : pc'[s] = pc[s] /\ rsize'[s] = rsize[s] /\ ext_rsize'[s] = ext_rsize[s],
         \A x \in Procs : SentBy(r, x)' = IF x = to THEN SentBy(r, x) + 1 ELSE SentBy(r, x),
         \A x \in Procs : TakenBy(r, x)' = IF x = from THEN TakenBy(r, x) + 1 ELSE TakenBy(r, x),
         to \in Procs => /\ m.comm = comm[r] /\ SentBy(r, to) \in {0, 1}
                         /\ m.kind = IF SentBy(r, to) = 0 THEN "size" ELSE "data"
                         /\ SentBy(r, to) = 0 => m.body = <<Owed(r, to)>>
                         /\ SentBy(r, to) = 1 => Len(m.body) = Owed(r, to),
         \A x \in Procs : TakenBy(r, x)' = 1 =>
           Told(r, x)' = IF x = from THEN Head(net[x][r]).body[1] ELSE Told(r, x)
  PROVE  Traffic'
<1>1. Procs' = Procs
  BY DEF given, Procs
<1>2. ASSUME NEW s \in Procs
      PROVE  /\ comm'[s] = comm[s] /\ \A d : Owed(s, d)' = Owed(s, d)
             /\ Partner(s)' = Partner(s) /\ ExtraPartner(s)' = ExtraPartner(s)
             /\ extra_partner(s)' = extra_partner(s)
  BY SameView, SameBlocks DEF group
<1>3. ASSUME NEW s \in Procs, s # r
      PROVE  \A d : /\ SentBy(s, d)' = SentBy(s, d) /\ TakenBy(s, d)' = TakenBy(s, d)
                    /\ Told(s, d)' = Told(s, d)
  BY <1>2, <1>3 DEF SentBy, TakenBy, Told
<1>4. SUFFICES ASSUME NEW s \in Procs, NEW d \in Procs PROVE Channel(s, d)'
  BY <1>1 DEF Traffic
<1>5. net[s][d] \in Seq(Messages) /\ Channel(s, d)
  BY DEF Values, Traffic
<1>6. CASE s = r /\ d = r
  <2>1. from # r /\ to # r
    BY DEF Exchanges
  <2> QED BY <1>2, <1>5, <1>6, <2>1, ChannelStays DEF Exchanges
<1>7. CASE s = r /\ d # r
  <2>1. TakenBy(d, s)' = TakenBy(d, s) /\ Told(d, s)' = Told(d, s)
    BY <1>3, <1>7
  <2>2. CASE d = to
    <3>1. net'[s][d] = Append(net[s][d], m) /\ m \in Messages
      BY <1>7, <2>2 DEF Exchanges
    <3>2. SentBy(s, d)' = SentBy(s, d) + 1
      BY <1>7, <2>2
    <3>3. Owed(s, d)' = Owed(s, d) /\ comm'[s] = comm[s]
      BY <1>2
    <3> QED BY <1>5, <1>7, <2>1, <2>2, <3>1, <3>2, <3>3, ChannelSends
  <2>3. CASE d # to
    <3>1. net'[s][d] = net[s][d]
      BY <1>7, <2>3 DEF Exchanges
    <3> QED BY <1>2, <1>5, <1>7, <2>1, <2>3, <3>1, ChannelStays
  <2> QED BY <2>2, <2>3
<1>8. CASE s # r /\ d = r
  <2>1. SentBy(s, d)' = SentBy(s, d) /\ Owed(s, d)' = Owed(s, d) /\ comm'[s] = comm[s]
    BY <1>2, <1>3, <1>8
  <2>2. CASE s = from
    <3>1. net'[s][d] = Tail(net[s][d]) /\ net[s][d] # <<>>
      BY <1>8, <2>2 DEF Exchanges
    <3>2. TakenBy(d, s)' = TakenBy(d, s) + 1
      BY <1>8, <2>2
    <3>3. TakenBy(d, s) = 0 => Told(d, s)' = Head(net[s][d]).body[1]
      BY <1>8, <2>2, <3>2
    <3> QED BY <1>5, <2>1, <3>1, <3>2, <3>3, ChannelTakes
  <2>3. CASE s # from
    <3>1. net'[s][d] = net[s][d]
      BY <1>8, <2>3 DEF Exchanges
    <3>2. TakenBy(d, s)' = TakenBy(d, s) /\ (TakenBy(d, s) = 1 => Told(d, s)' = Told(d, s))
      BY <1>8, <2>3
    <3> QED BY <1>5, <2>1, <3>1, <3>2, ChannelStays
  <2> QED BY <2>2, <2>3
<1>9. CASE s # r /\ d # r
  <2>1. net'[s][d] = net[s][d]
    BY <1>9 DEF Exchanges
  <2> QED BY <1>2, <1>3, <1>5, <1>9, <2>1, ChannelStays
<1> QED BY <1>6, <1>7, <1>8, <1>9

----------------------------------------------------------------------------
(* Keys *)

\* Keys that move only within their communicator stay separated.
LEMMA SeparatedStays ==
  ASSUME Numbered, Groups, Separated, Procs' = Procs, comm' = comm,
         \A x \in Procs, v \in Keys : At(x, v)' => \E y \in comm[x] : At(y, v)
  PROVE  Separated'
<1> SUFFICES ASSUME NEW r \in Procs, NEW s \in Procs, r < s, comm[r] # comm[s],
                    NEW x \in Keys, NEW y \in Keys, At(r, x)', At(s, y)'
             PROVE  x < y
  BY DEF Separated
<1>1. PICK r1 \in comm[r] : At(r1, x)
  OBVIOUS
<1>2. PICK s1 \in comm[s] : At(s1, y)
  OBVIOUS
<1>3. /\ r1 \in Procs /\ comm[r1] = comm[r] /\ s1 \in Procs /\ comm[s1] = comm[s]
      /\ r \in comm[r] /\ s \in comm[s]
  BY GroupFacts
<1>4. r1 < s1
  <2> DEFINE a == First(r)
             b == First(r) + npes[r] - 1
             e == First(s)
             f == First(s) + npes[s] - 1
  <2>1. /\ comm[r] = a..b /\ a \in Int /\ b \in Int
        /\ comm[s] = e..f /\ e \in Int /\ f \in Int
    BY GroupFacts
  <2>2. \A z \in comm[r] : z \notin comm[s]
    BY GroupFacts
  <2> HIDE DEF a, b, e, f
  <2>3. r \in a..b /\ r1 \in a..b /\ s \in e..f /\ s1 \in e..f /\ \A z \in a..b : z \notin e..f
    BY <1>3, <2>1, <2>2
  <2>4. CASE r < e
    <3>1. b < e
      <4>1. ~(e \in a..b)
        BY <2>1, <2>3
      <4> QED BY <2>1, <2>3, <2>4, <4>1
    <3> QED BY <2>1, <2>3, <3>1
  <2>5. CASE ~(r < e)
    BY <2>1, <2>3, <2>5
  <2> QED BY <2>4, <2>5
<1> QED BY <1>1, <1>2, <1>3, <1>4 DEF Separated

\* A message on its way after a step was on its way before, or is new.
LEMMA MailIs ==
  ASSUME Values, NEW r \in Procs, NEW from, NEW to, NEW m, Exchanges(r, from, to, m),
         NEW s \in Procs, NEW d \in Procs, NEW i \in 1..Len(net'[s][d])
  PROVE  \/ \E j \in 1..Len(net[s][d]) : net'[s][d][i] = net[s][d][j]
         \/ s = r /\ d = to /\ net'[s][d][i] = m
<1>1. net[s][d] \in Seq(Messages)
  BY DEF Values
<1>2. CASE s = from /\ d = r
  <2>1. net'[s][d] = Tail(net[s][d]) /\ net[s][d] # <<>>
    BY <1>2 DEF Exchanges
  <2>2. i + 1 \in 1..Len(net[s][d]) /\ net'[s][d][i] = net[s][d][i + 1]
    BY <1>1, <2>1
  <2> QED BY <2>2
<1>3. CASE ~(s = from /\ d = r) /\ s = r /\ d = to
  <2>1. net'[s][d] = Append(net[s][d], m)
    BY <1>3 DEF Exchanges
  <2>2. Len(net[s][d]) \in Nat /\ Len(net'[s][d]) = Len(net[s][d]) + 1
    BY <1>1, <2>1
  <2>3. CASE i \in 1..Len(net[s][d])
    BY <1>1, <2>1, <2>3
  <2>4. CASE i = Len(net[s][d]) + 1
    BY <1>1, <1>3, <2>1, <2>4
  <2> QED BY <2>2, <2>3, <2>4
<1>4. CASE ~(s = from /\ d = r) /\ ~(s = r /\ d = to)
  BY <1>4 DEF Exchanges
<1> QED BY <1>2, <1>3, <1>4

\* In a step of the exchange the keys stay on their side.
LEMMA ExchangeKeys ==
  ASSUME Numbered, Groups, Values, Sorted, Sides, Separated,
         NEW r \in Procs, NEW from, NEW to, NEW m, Exchanges(r, from, to, m),
         UNCHANGED <<given, group, arr, split>>,
         pc[r] \in Round, pc'[r] \in Round \ {"exchange", "split"},
         \A s \in Procs \ {r} :
           pc'[s] = pc[s] /\ rbuff'[s] = rbuff[s] /\ rbuff_ext'[s] = rbuff_ext[s],
         pc[r] = "exchange" => rbuff'[r] = <<>> /\ rbuff_ext'[r] = <<>>,
         \A v \in Range(rbuff'[r]) \cup Range(rbuff_ext'[r]) :
           \/ v \in Range(rbuff[r]) \cup Range(rbuff_ext[r])
           \/ from \in Procs /\ net[from][r][1].kind = "data" /\ v \in Range(net[from][r][1].body),
         to \in Procs => to \in comm[r],
         to \in Procs /\ m.kind = "data" => \A v \in Range(m.body) : v \in Range(arr[r]) /\ Side(to, v)
  PROVE  Sorted' /\ Sides' /\ Separated'
<1>1. Procs' = Procs /\ comm' = comm
  BY DEF given, group, Procs
<1>2. \A s \in Procs : \A v : Side(s, v)' = Side(s, v)
  <2>1. \A s \in Procs : Upper(s)' = Upper(s)
    BY SameView DEF group
  <2> QED BY <2>1 DEF Side
<1>3. Sorted'
  BY <1>1 DEF Sorted, Ascending, Round
<1>4. from \in Procs => 1 \in 1..Len(net[from][r])
  <2>1. from \in Procs => net[from][r] \in Seq(Messages) /\ net[from][r] # <<>>
    BY DEF Values, Exchanges
  <2> QED BY <2>1
<1>5. Sides'
  <2> SUFFICES ASSUME NEW s \in Procs
               PROVE  /\ pc'[s] \in Round \ {"exchange"} =>
                           \A v \in Range(rbuff'[s]) \cup Range(rbuff_ext'[s]) : Side(s, v)
                      /\ pc'[s] = "split" => \A v \in Range(arr[s]) : Side(s, v)
                      /\ \A x \in Procs : \A i \in 1..Len(net'[x][s]) :
                           net'[x][s][i].kind = "data" =>
                             \A v \in Range(net'[x][s][i].body) : Side(s, v)
    BY <1>1, <1>2 DEF Sides
  <2>1. ASSUME NEW x \in Procs, NEW i \in 1..Len(net'[x][s]), net'[x][s][i].kind = "data",
               NEW v \in Range(net'[x][s][i].body)
        PROVE  Side(s, v)
    <3>1. CASE \E j \in 1..Len(net[x][s]) : net'[x][s][i] = net[x][s][j]
      BY <2>1, <3>1 DEF Sides
    <3>2. CASE x = r /\ s = to /\ net'[x][s][i] = m
      BY <2>1, <3>2
    <3> QED BY <3>1, <3>2, MailIs
  <2>2. CASE s # r
    <3>1. pc'[s] = pc[s] /\ rbuff'[s] = rbuff[s] /\ rbuff_ext'[s] = rbuff_ext[s]
      BY <2>2
    <3> QED BY <2>1, <3>1 DEF Sides
  <2>3. CASE s = r
    <3>1. ASSUME NEW v \in Range(rbuff'[s]) \cup Range(rbuff_ext'[s]) PROVE Side(s, v)
      <4>1. pc[r] # "exchange"
        BY <2>3, <3>1 DEF Range
      <4>2. CASE v \in Range(rbuff[r]) \cup Range(rbuff_ext[r])
        BY <2>3, <4>1, <4>2 DEF Sides
      <4>3. CASE from \in Procs /\ net[from][r][1].kind = "data" /\ v \in Range(net[from][r][1].body)
        BY <1>4, <2>3, <4>3 DEF Sides
      <4> QED BY <2>3, <3>1, <4>2, <4>3
    <3> QED BY <2>1, <2>3, <3>1
  <2> QED BY <2>2, <2>3
<1>6. Separated'
  <2>1. ASSUME NEW x \in Procs, NEW v \in Keys, At(x, v)'
        PROVE  \E y \in comm[x] : At(y, v)
    <3>1. x \in comm[x]
      BY GroupFacts
    <3>2. CASE \E s \in Procs : \E i \in 1..Len(net'[s][x]) :
                 net'[s][x][i].kind = "data" /\ v \in Range(net'[s][x][i].body)
      <4>0. PICK s \in Procs : \E i \in 1..Len(net'[s][x]) :
                   net'[s][x][i].kind = "data" /\ v \in Range(net'[s][x][i].body)
        BY <3>2
      <4>1. PICK i \in 1..Len(net'[s][x]) :
                   net'[s][x][i].kind = "data" /\ v \in Range(net'[s][x][i].body)
        BY <4>0
      <4>2. CASE \E j \in 1..Len(net[s][x]) : net'[s][x][i] = net[s][x][j]
        <5>1. At(x, v)
          BY <4>1, <4>2 DEF At
        <5> QED BY <3>1, <5>1
      <4>3. CASE s = r /\ x = to /\ net'[s][x][i] = m
        <5>1. v \in Range(arr[r])
          BY <4>1, <4>3
        <5>2. r \in comm[x]
          BY <4>3, GroupFacts
        <5> QED BY <5>1, <5>2 DEF At
      <4> QED BY <4>2, <4>3, MailIs
    <3>3. CASE v \in Range(arr'[x]) \cup Range(rbuff'[x]) \cup Range(rbuff_ext'[x])
      <4>1. At(x, v)
        <5>1. CASE x # r
          BY <3>3, <5>1 DEF At
        <5>2. CASE x = r /\ v \in Range(arr[r])
          BY <5>2 DEF At
        <5>3. CASE x = r /\ v \in Range(rbuff'[r]) \cup Range(rbuff_ext'[r])
          BY <1>4, <5>3 DEF At
        <5> QED BY <3>3, <5>1, <5>2, <5>3
      <4> QED BY <3>1, <4>1
    <3> QED BY <1>1, <2>1, <3>2, <3>3 DEF At
  <2> QED BY <1>1, <2>1, SeparatedStays
<1> QED BY <1>3, <1>5, <1>6

----------------------------------------------------------------------------
(* The exchange *)

\* The split key cuts a sorted block into the part to keep and the part to send.
LEMMA BlockCut ==
  ASSUME Values, NEW r \in Procs, Ascending(arr[r])
  PROVE  /\ sbuff(r) \in Seq(Keys) /\ lbuff(r) \in Seq(Keys)
         /\ \A v \in Range(lbuff(r)) : v \in Range(arr[r]) /\ Side(r, v)
         /\ \A v \in Range(sbuff(r)) :
              v \in Range(arr[r]) /\ IF Upper(r) THEN v < split[r].key ELSE v >= split[r].key
<1> DEFINE a == arr[r]
           k == split[r].key
           n == LowerBound(a, k)
<1>1. a \in Seq(Int) /\ k \in Int
  BY DEF Values, Keys
<1>2. /\ n \in 0..Len(a)
      /\ \A i \in 1..n : a[i] < k
      /\ \A i \in n+1..Len(a) : a[i] >= k
  <2> HIDE DEF k
  <2> QED BY <1>1, LowerBoundCuts
<1>3. Below(r) = SubSeq(a, 1, n) /\ Above(r) = SubSeq(a, n + 1, Len(a))
  BY DEF Below, Above, split_indx
<1> HIDE DEF a, n, k
<1>4. /\ Below(r) \in Seq(Int) /\ Above(r) \in Seq(Int)
      /\ \A v \in Range(Below(r)) : \E i \in 1..n : v = a[i]
      /\ \A v \in Range(Above(r)) : \E i \in n+1..Len(a) : v = a[i]
  <2>1. /\ SubSeq(a, 1, n) \in Seq(Int) /\ SubSeq(a, n + 1, Len(a)) \in Seq(Int)
        /\ \A v \in Range(SubSeq(a, 1, n)) : \E i \in 1..n : v = a[i]
        /\ \A v \in Range(SubSeq(a, n + 1, Len(a))) : \E i \in n+1..Len(a) : v = a[i]
    BY <1>1, <1>2, SubSeqIs, Zenon
  <2> QED BY <1>3, <2>1
<1>5. /\ \A v \in Range(Below(r)) : v \in Range(a) /\ v < k
      /\ \A v \in Range(Above(r)) : v \in Range(a) /\ v >= k
  <2>1. \A i \in 1..n : i \in DOMAIN a /\ a[i] < k
    BY <1>1, <1>2
  <2>2. \A i \in n+1..Len(a) : i \in DOMAIN a /\ a[i] >= k
    BY <1>1, <1>2
  <2> QED BY <1>4, <2>1, <2>2 DEF Range
<1> QED BY <1>4, <1>5 DEF sbuff, lbuff, Side, Keys, k, a

\* What is sent to the partner is on the partner's side.
LEMMA SentAcross ==
  ASSUME Numbered, Groups, Places, Values, Sorted, NEW r \in Procs, pc[r] \in Round
  PROVE  /\ sbuff(r) \in Seq(Keys)
         /\ \A v \in Range(sbuff(r)) : v \in Range(arr[r]) /\ Side(Partner(r), v)
<1>1. npes[r] > 1 /\ Ascending(arr[r])
  BY DEF Places, Sorted, Round
<1>2. Partner(r) \in comm[r] /\ (Upper(Partner(r)) <=> ~Upper(r)) /\ Partner(r) \in Procs
  BY <1>1, PartnerAcross
<1>3. split[Partner(r)] = split[r]
  BY <1>2 DEF Sorted
<1> QED BY <1>1, <1>2, <1>3, BlockCut DEF Side

Nobody == -1

LEMMA NobodyIs == ASSUME Numbered PROVE Nobody \notin Procs
  BY DEF Numbered, Nobody

LEMMA UpdatedIs ==
  ASSUME NEW S, NEW T, NEW f \in [S -> [S -> T]], NEW d \in S, NEW e \in S, NEW v \in T
  PROVE  /\ [f EXCEPT ![d][e] = v] \in [S -> [S -> T]]
         /\ \A s, t \in S :
              [f EXCEPT ![d][e] = v][s][t] = IF s = d /\ t = e THEN v ELSE f[s][t]
OBVIOUS

LEMMA NetIs ==
  ASSUME net \in [Procs -> [Procs -> Seq(Messages)]], NEW s \in Procs, NEW d \in Procs,
         NEW q \in Seq(Messages), net' = [net EXCEPT ![s][d] = q]
  PROVE  /\ net' \in [Procs -> [Procs -> Seq(Messages)]]
         /\ \A x, y \in Procs : net'[x][y] = IF x = s /\ y = d THEN q ELSE net[x][y]
BY UpdatedIs

LEMMA QueueIs ==
  ASSUME NEW q \in Seq(Messages), NEW m \in Messages
  PROVE  /\ q # <<>> => Tail(q) \in Seq(Messages)
         /\ q \o <<m>> = Append(q, m) /\ Append(q, m) \in Seq(Messages)
<1>1. q # <<>> => Tail(q) \in Seq(Messages)
  OBVIOUS
<1>2. Append(q, m) \in Seq(Messages)
  OBVIOUS
<1>3. q \o <<m>> = Append(q, m)
  <2>1. /\ q \o <<m>> \in Seq(Messages) /\ Len(q \o <<m>>) = Len(q) + 1
        /\ \A i \in 1..Len(q) + 1 : (q \o <<m>>)[i] = Append(q, m)[i]
    OBVIOUS
  <2>2. Len(Append(q, m)) = Len(q) + 1
    OBVIOUS
  <2> QED BY <1>2, <2>1, <2>2
<1> QED BY <1>1, <1>2, <1>3

\* A receive, and the send after it.
LEMMA TakeAndSendIs ==
  ASSUME Values, NEW r \in Procs, NEW d \in Procs, NEW e \in Procs, d # r, e # r,
         NEW m, NEW n \in Messages, TakeAndSend(r, d, m, e, <<n>>)
  PROVE  Exchanges(r, d, e, n) /\ net' \in [Procs -> [Procs -> Seq(Messages)]]
<1> DEFINE taken == [net EXCEPT ![d][r] = Tail(net[d][r])]
<1>1. /\ net[d][r] # <<>> /\ net \in [Procs -> [Procs -> Seq(Messages)]]
      /\ net[d][r] \in Seq(Messages) /\ net[r][e] \in Seq(Messages)
  BY DEF TakeAndSend, Values
<1>2. net' = [taken EXCEPT ![r][e] = taken[r][e] \o <<n>>]
  BY DEF TakeAndSend
<1>3. Tail(net[d][r]) \in Seq(Messages)
  BY <1>1, QueueIs
<1>4. /\ taken \in [Procs -> [Procs -> Seq(Messages)]]
      /\ \A s, t \in Procs : taken[s][t] = IF s = d /\ t = r THEN Tail(net[d][r]) ELSE net[s][t]
  BY <1>1, <1>3, UpdatedIs
<1> HIDE DEF taken
<1>5. taken[r][e] = net[r][e]
  BY <1>4
<1>6. taken[r][e] \o <<n>> = Append(net[r][e], n) /\ Append(net[r][e], n) \in Seq(Messages)
  BY <1>1, <1>5, QueueIs
<1>7. net' = [taken EXCEPT ![r][e] = Append(net[r][e], n)]
  BY <1>2, <1>6
<1>8. /\ net' \in [Procs -> [Procs -> Seq(Messages)]]
      /\ \A s, t \in Procs :
           net'[s][t] = IF s = r /\ t = e THEN Append(net[r][e], n) ELSE taken[s][t]
  BY <1>4, <1>6, <1>7, UpdatedIs
<1>9. \A s, t \in Procs :
        net'[s][t] = IF s = d /\ t = r THEN Tail(net[s][t])
                     ELSE IF s = r /\ t = e THEN Append(net[s][t], n) ELSE net[s][t]
  <2> SUFFICES ASSUME NEW s \in Procs, NEW t \in Procs
               PROVE  net'[s][t] = IF s = d /\ t = r THEN Tail(net[s][t])
                                   ELSE IF s = r /\ t = e THEN Append(net[s][t], n) ELSE net[s][t]
    OBVIOUS
  <2>1. CASE s = d /\ t = r
    BY <1>4, <1>8, <2>1, Zenon
  <2>2. CASE s = r /\ t = e
    BY <1>4, <1>8, <2>2, Zenon
  <2>3. CASE ~(s = d /\ t = r) /\ ~(s = r /\ t = e)
    BY <1>4, <1>8, <2>3, Zenon
  <2> QED BY <2>1, <2>2, <2>3
<1> QED BY <1>1, <1>8, <1>9 DEF Exchanges

LEMMA TakeIs ==
  ASSUME Numbered, Values, NEW r \in Procs, NEW d \in Procs, d # r, NEW e,
         NEW m, TakeAndSend(r, d, m, e, <<>>)
  PROVE  Exchanges(r, d, Nobody, m) /\ net' \in [Procs -> [Procs -> Seq(Messages)]]
<1>1. /\ net[d][r] # <<>> /\ net \in [Procs -> [Procs -> Seq(Messages)]]
      /\ net[d][r] \in Seq(Messages)
  BY DEF TakeAndSend, Values
<1>2. net' = [net EXCEPT ![d][r] = Tail(net[d][r])]
  BY DEF TakeAndSend
<1>3. Tail(net[d][r]) \in Seq(Messages)
  BY <1>1
<1>4. /\ net' \in [Procs -> [Procs -> Seq(Messages)]]
      /\ \A s, t \in Procs : net'[s][t] = IF s = d /\ t = r THEN Tail(net[d][r]) ELSE net[s][t]
  BY <1>1, <1>2, <1>3, NetIs
<1> QED BY <1>1, <1>4, NobodyIs DEF Exchanges

\* How far r has got once it is at label l.
LEMMA CountsAt ==
  ASSUME NEW r \in Procs, UNCHANGED group, NEW l, pc'[r] = l
  PROVE  /\ \A x : SentBy(r, x)' = IF x = Partner(r) THEN MainSent(l)
                     ELSE IF extra_partner(r) /\ x = ExtraPartner(r) THEN ExtraSent(l) ELSE 0
         /\ \A x : TakenBy(r, x)' = IF x = Partner(r) THEN MainTaken(l)
                     ELSE IF extra_partner(r) /\ x = ExtraPartner(r) THEN ExtraTaken(l) ELSE 0
         /\ \A x : Told(r, x)' = IF x = Partner(r) THEN rsize'[r] ELSE ext_rsize'[r]
<1>1. /\ Partner(r)' = Partner(r) /\ ExtraPartner(r)' = ExtraPartner(r)
      /\ extra_partner(r)' = extra_partner(r)
  BY SameView DEF group
<1> QED BY <1>1 DEF SentBy, TakenBy, Told

LEMMA GroupsStay ==
  ASSUME Numbered, Groups, UNCHANGED <<given, group>>
  PROVE  Numbered' /\ Groups' /\ Procs' = Procs
BY DEF Numbered, Groups, given, group, Procs, First

LEMMA PlacesStay ==
  ASSUME Places, UNCHANGED <<given, group>>, NEW r \in Procs, NEW l \in Labels,
         pc' = [pc EXCEPT ![r] = l], l \in Round \cup {"sample"} => npes[r] > 1,
         l \in {"extraSize", "extraData"} => extra_partner(r)
  PROVE  /\ Places' /\ pc'[r] = l /\ \A s \in Procs \ {r} : pc'[s] = pc[s]
<1>1. Procs' = Procs
  BY DEF given, Procs
<1>2. /\ pc' \in [Procs -> Labels] /\ pc'[r] = l
      /\ \A s \in Procs \ {r} : pc'[s] = pc[s]
  BY DEF Places
<1>3. \A s \in Procs : extra_partner(s)' = extra_partner(s) /\ npes'[s] = npes[s]
  BY SameView DEF group
<1> QED BY <1>1, <1>2, <1>3 DEF Places

\* A step of the exchange, from what it does to r and to its channels: r goes on
\* to label l, a message further on either channel,
Advances(r, from, to, l) ==
  /\ l \in Round \ {"exchange", "split"} /\ pc[r] \in Round /\ pc' = [pc EXCEPT ![r] = l]
  /\ l \in {"extraSize", "extraData"} => extra_partner(r)
  /\ MainSent(l) = IF to = Partner(r) THEN MainSent(pc[r]) + 1 ELSE MainSent(pc[r])
  /\ MainTaken(l) = IF from = Partner(r) THEN MainTaken(pc[r]) + 1 ELSE MainTaken(pc[r])
  /\ extra_partner(r) =>
       /\ ExtraSent(l) = IF to = ExtraPartner(r) THEN ExtraSent(pc[r]) + 1 ELSE ExtraSent(pc[r])
       /\ ExtraTaken(l) = IF from = ExtraPartner(r) THEN ExtraTaken(pc[r]) + 1
                          ELSE ExtraTaken(pc[r])
  /\ from \in Procs => Linked(r, from)
  /\ to \in Procs => Linked(r, to)

\* it posts the message that comes next, with keys of the other side,
Posts(r, to, m) ==
  to \in Procs =>
    /\ m.comm = comm[r] /\ SentBy(r, to) \in {0, 1}
    /\ m.kind = IF SentBy(r, to) = 0 THEN "size" ELSE "data"
    /\ SentBy(r, to) = 0 => m.body = <<Owed(r, to)>>
    /\ SentBy(r, to) = 1 => Len(m.body) = Owed(r, to)
    /\ m.kind = "data" => \A v \in Range(m.body) : v \in Range(arr[r]) /\ Side(to, v)

\* learns the sizes it has been sent,
Learns(r, from, l) ==
  /\ DOMAIN rsize' = Procs /\ DOMAIN ext_rsize' = Procs
  /\ \A s \in Procs \ {r} : rsize'[s] = rsize[s] /\ ext_rsize'[s] = ext_rsize[s]
  /\ MainTaken(l) = 1 =>
       rsize'[r] = IF from = Partner(r) THEN Head(net[from][r]).body[1] ELSE rsize[r]
  /\ extra_partner(r) /\ ExtraTaken(l) = 1 =>
       ext_rsize'[r] = IF from = ExtraPartner(r) THEN Head(net[from][r]).body[1] ELSE ext_rsize[r]

\* and keeps the block it has been sent.
Keeps(r, from) ==
  /\ rbuff' \in [Procs -> Seq(Keys)] /\ rbuff_ext' \in [Procs -> Seq(Keys)]
  /\ \A s \in Procs \ {r} : rbuff'[s] = rbuff[s] /\ rbuff_ext'[s] = rbuff_ext[s]
  /\ pc[r] = "exchange" => rbuff'[r] = <<>> /\ rbuff_ext'[r] = <<>>
  /\ \A v \in Range(rbuff'[r]) \cup Range(rbuff_ext'[r]) :
       \/ v \in Range(rbuff[r]) \cup Range(rbuff_ext[r])
       \/ from \in Procs /\ net[from][r][1].kind = "data" /\ v \in Range(net[from][r][1].body)

LEMMA ExchangeStep ==
  ASSUME IInv, NEW r \in Procs, NEW from, NEW to, NEW m, NEW l,
         Exchanges(r, from, to, m), Advances(r, from, to, l), Posts(r, to, m),
         Learns(r, from, l), Keeps(r, from), UNCHANGED <<given, group, arr, split>>,
         net' \in [Procs -> [Procs -> Seq(Messages)]]
  PROVE  IInv'
<1> USE DEF IInv
<1>1. /\ l \in Round \ {"exchange", "split"} /\ pc[r] \in Round /\ pc' = [pc EXCEPT ![r] = l]
      /\ l \in {"extraSize", "extraData"} => extra_partner(r)
      /\ from \in Procs => Linked(r, from)
      /\ to \in Procs => Linked(r, to)
  BY DEF Advances
<1>2. npes[r] > 1 /\ l \in Labels /\ UNCHANGED group /\ UNCHANGED <<given, group>>
  BY <1>1 DEF Places, Labels
<1>3. /\ Partner(r) \in Procs /\ Partner(r) # r /\ Partner(r) \in comm[r]
      /\ extra_partner(r) => /\ ExtraPartner(r) \in Procs /\ ExtraPartner(r) \in comm[r]
                             /\ ExtraPartner(r) \notin {r, Partner(r)}
  BY <1>2, PartnerAcross
<1>4. Numbered' /\ Groups' /\ Procs' = Procs
  BY <1>2, GroupsStay
<1>5. Places' /\ pc'[r] = l /\ \A s \in Procs \ {r} : pc'[s] = pc[s]
  BY <1>1, <1>2, PlacesStay
<1>6. Values'
  <2>1. arr' = arr /\ split' = split /\ Procs' = Procs
    BY <1>4
  <2>2. DOMAIN rsize' = Procs /\ DOMAIN ext_rsize' = Procs
    BY DEF Learns
  <2>3. rbuff' \in [Procs -> Seq(Keys)] /\ rbuff_ext' \in [Procs -> Seq(Keys)]
    BY DEF Keeps
  <2>4. arr \in [Procs -> Seq(Keys)] /\ DOMAIN split = Procs /\ \A s \in Procs : split[s].key \in Keys
    BY DEF Values
  <2>5. Keys' = Keys /\ Messages' = Messages
    BY <2>1 DEF Keys, Messages
  <2> QED BY <2>1, <2>2, <2>3, <2>4, <2>5, Zenon DEF Values
<1>7. \A x \in Procs : SentBy(r, x)' = IF x = to THEN SentBy(r, x) + 1 ELSE SentBy(r, x)
  <2> SUFFICES ASSUME NEW x \in Procs
               PROVE  SentBy(r, x)' = IF x = to THEN SentBy(r, x) + 1 ELSE SentBy(r, x)
    OBVIOUS
  <2>1. SentBy(r, x)' = IF x = Partner(r) THEN MainSent(l)
                        ELSE IF extra_partner(r) /\ x = ExtraPartner(r) THEN ExtraSent(l) ELSE 0
    BY <1>2, <1>5, CountsAt
  <2> QED BY <1>1, <1>3, <2>1 DEF SentBy, Linked, Advances
<1>8. \A x \in Procs : TakenBy(r, x)' = IF x = from THEN TakenBy(r, x) + 1 ELSE TakenBy(r, x)
  <2> SUFFICES ASSUME NEW x \in Procs
               PROVE  TakenBy(r, x)' = IF x = from THEN TakenBy(r, x) + 1 ELSE TakenBy(r, x)
    OBVIOUS
  <2>1. TakenBy(r, x)' = IF x = Partner(r) THEN MainTaken(l)
                        ELSE IF extra_partner(r) /\ x = ExtraPartner(r) THEN ExtraTaken(l) ELSE 0
    BY <1>2, <1>5, CountsAt
  <2> QED BY <1>1, <1>3, <2>1 DEF TakenBy, Linked, Advances
<1>9. \A x \in Procs : TakenBy(r, x)' = 1 =>
        Told(r, x)' = IF x = from THEN Head(net[x][r]).body[1] ELSE Told(r, x)
  <2> SUFFICES ASSUME NEW x \in Procs, TakenBy(r, x)' = 1
               PROVE  Told(r, x)' = IF x = from THEN Head(net[x][r]).body[1] ELSE Told(r, x)
    OBVIOUS
  <2>1. /\ TakenBy(r, x)' = IF x = Partner(r) THEN MainTaken(l)
                        ELSE IF extra_partner(r) /\ x = ExtraPartner(r) THEN ExtraTaken(l) ELSE 0
        /\ Told(r, x)' = IF x = Partner(r) THEN rsize'[r] ELSE ext_rsize'[r]
    BY <1>2, <1>5, CountsAt
  <2>2. CASE x = Partner(r)
    BY <2>1, <2>2 DEF Told, Learns
  <2>3. CASE x # Partner(r)
    <3>1. extra_partner(r) /\ x = ExtraPartner(r) /\ ExtraTaken(l) = 1
      BY <2>1, <2>3
    <3> QED BY <2>1, <2>3, <3>1 DEF Told, Learns
  <2> QED BY <2>2, <2>3
<1>10. Traffic'
  <2>1. \A s \in Procs \ {r} : pc'[s] = pc[s] /\ rsize'[s] = rsize[s] /\ ext_rsize'[s] = ext_rsize[s]
    BY <1>5 DEF Learns
  <2>2. to \in Procs => /\ m.comm = comm[r] /\ SentBy(r, to) \in {0, 1}
                        /\ m.kind = IF SentBy(r, to) = 0 THEN "size" ELSE "data"
                        /\ SentBy(r, to) = 0 => m.body = <<Owed(r, to)>>
                        /\ SentBy(r, to) = 1 => Len(m.body) = Owed(r, to)
    BY DEF Posts
  <2> QED BY <1>7, <1>8, <1>9, <2>1, <2>2, ExchangeTraffic
<1>11. to \in Procs => to \in comm[r]
  BY <1>1, <1>3 DEF Linked
<1>12. Sorted' /\ Sides' /\ Separated'
  <2>1. pc'[r] \in Round \ {"exchange", "split"}
    BY <1>1, <1>5
  <2> QED BY <1>1, <1>5, <1>11, <2>1, ExchangeKeys DEF Posts, Keeps
<1> QED BY <1>4, <1>5, <1>6, <1>10, <1>12

LEMMA Counts ==
  /\ MainSent("exchange") = 0 /\ ExtraSent("exchange") = 0
  /\ MainTaken("exchange") = 0 /\ ExtraTaken("exchange") = 0
  /\ MainSent("size") = 1 /\ ExtraSent("size") = 0
  /\ MainTaken("size") = 0 /\ ExtraTaken("size") = 0
  /\ MainSent("extraSize") = 1 /\ ExtraSent("extraSize") = 1
  /\ MainTaken("extraSize") = 1 /\ ExtraTaken("extraSize") = 0
  /\ MainSent("data") = 2 /\ ExtraSent("data") = 1
  /\ MainTaken("data") = 1 /\ ExtraTaken("data") = 1
  /\ MainSent("extraData") = 2 /\ ExtraSent("extraData") = 2
  /\ MainTaken("extraData") = 2 /\ ExtraTaken("extraData") = 1
  /\ MainSent("merge") = 2 /\ ExtraSent("merge") = 2
  /\ MainTaken("merge") = 2 /\ ExtraTaken("merge") = 2
  /\ MainSent("split") = 2 /\ ExtraSent("split") = 2
  /\ MainTaken("split") = 2 /\ ExtraTaken("split") = 2
  /\ \A l \in Labels \ Round : /\ MainSent(l) = 0 /\ ExtraSent(l) = 0
                               /\ MainTaken(l) = 0 /\ ExtraTaken(l) = 0
BY DEF MainSent, ExtraSent, MainTaken, ExtraTaken, Labels, Round

\* A process in a round, its partners and the messages it can send them.
LEMMA InRound ==
  ASSUME IInv, NEW r \in Procs, pc[r] \in Round
  PROVE  /\ Partner(r) \in Procs /\ Partner(r) # r /\ Linked(r, Partner(r))
         /\ extra_partner(r) => /\ ExtraPartner(r) \in Procs /\ ExtraPartner(r) \notin {r, Partner(r)}
                                /\ Linked(r, ExtraPartner(r))
         /\ Nobody \notin Procs
         /\ Message(r, "size", <<Len(sbuff(r))>>) \in Messages
         /\ Message(r, "size", <<0>>) \in Messages
         /\ Message(r, "data", sbuff(r)) \in Messages
         /\ Message(r, "data", <<>>) \in Messages
         /\ \A v \in Range(sbuff(r)) : v \in Range(arr[r]) /\ Side(Partner(r), v)
<1> USE DEF IInv
<1>1. npes[r] > 1
  BY DEF Places
<1>2. comm[r] \in SUBSET Procs
  BY DEF Groups
<1>3. /\ sbuff(r) \in Seq(Keys)
      /\ \A v \in Range(sbuff(r)) : v \in Range(arr[r]) /\ Side(Partner(r), v)
  BY SentAcross
<1>4. <<Len(sbuff(r))>> \in Seq(Keys) /\ <<0>> \in Seq(Keys) /\ <<>> \in Seq(Keys)
  BY <1>3 DEF Keys
<1>5. \A body \in Seq(Keys) : /\ Message(r, "size", body) \in Messages
                              /\ Message(r, "data", body) \in Messages
  BY <1>2 DEF Message, Messages
<1>6. /\ Partner(r) \in Procs /\ Partner(r) # r
      /\ extra_partner(r) => ExtraPartner(r) \in Procs /\ ExtraPartner(r) \notin {r, Partner(r)}
  BY <1>1, PartnerAcross
<1> HIDE DEF IInv
<1>7. Nobody \notin Procs
  BY NobodyIs DEF IInv
<1> QED BY <1>3, <1>4, <1>5, <1>6, <1>7 DEF Linked

LEMMA SendSizeStep ==
  ASSUME IInv, NEW r \in Procs, SendSize(r)
  PROVE  IInv'
<1> DEFINE d == Partner(r)
           m == Message(r, "size", <<Len(sbuff(r))>>)
<1>1. pc[r] = "exchange" /\ pc[r] \in Round
  BY DEF SendSize, Round
<1>2. /\ d \in Procs /\ d # r /\ Linked(r, d) /\ m \in Messages /\ Nobody \notin Procs
      /\ extra_partner(r) => ExtraPartner(r) \in Procs /\ ExtraPartner(r) # d
  BY <1>1, InRound
<1>3. /\ arr \in [Procs -> Seq(Keys)] /\ net \in [Procs -> [Procs -> Seq(Messages)]]
      /\ rbuff \in [Procs -> Seq(Keys)] /\ rbuff_ext \in [Procs -> Seq(Keys)]
      /\ DOMAIN rsize = Procs /\ DOMAIN ext_rsize = Procs
  BY DEF IInv, Values
<1>4. /\ Exchanges(r, Nobody, d, m)
      /\ net' \in [Procs -> [Procs -> Seq(Messages)]]
  <2> HIDE DEF d, m
  <2>1. Append(net[r][d], m) \in Seq(Messages)
    BY <1>2, <1>3
  <2>2. net' = [net EXCEPT ![r][d] = Append(net[r][d], m)]
    BY DEF SendSize, Send, d, m
  <2>3. /\ net' \in [Procs -> [Procs -> Seq(Messages)]]
        /\ \A s, t \in Procs :
             net'[s][t] = IF s = r /\ t = d THEN Append(net[r][d], m) ELSE net[s][t]
    BY <1>2, <1>3, <2>1, <2>2, NetIs
  <2> QED BY <1>2, <2>3 DEF Exchanges
<1>5. Advances(r, Nobody, d, "size")
  <2> HIDE DEF d
  <2>1. pc' = [pc EXCEPT ![r] = "size"]
    BY DEF SendSize
  <2>2. d = Partner(r)
    BY DEF d
  <2> QED BY <1>1, <1>2, <2>1, <2>2
          DEF Advances, MainSent, MainTaken, ExtraSent, ExtraTaken, Round
<1>6. Posts(r, d, m)
  <2>1. SentBy(r, d) = 0 /\ Owed(r, d) = Len(sbuff(r))
    BY <1>1 DEF SentBy, MainSent, Owed
  <2> QED BY <2>1 DEF Posts, Message
<1>7. Learns(r, Nobody, "size")
  BY <1>3 DEF SendSize, Learns, MainTaken, ExtraSent, ExtraTaken
<1>8. Keeps(r, Nobody)
  <2>1. /\ rbuff' = [rbuff EXCEPT ![r] = <<>>] /\ rbuff_ext' = [rbuff_ext EXCEPT ![r] = <<>>]
        /\ <<>> \in Seq(Keys)
    BY DEF SendSize
  <2>2. rbuff'[r] = <<>> /\ rbuff_ext'[r] = <<>>
    BY <1>3, <2>1
  <2>3. Range(rbuff'[r]) = {} /\ Range(rbuff_ext'[r]) = {}
    BY <2>2 DEF Range
  <2> QED BY <1>3, <2>1, <2>2, <2>3 DEF Keeps
<1>9. UNCHANGED <<given, group, arr, split>>
  BY DEF SendSize
<1> HIDE DEF d, m
<1> QED BY <1>4, <1>5, <1>6, <1>7, <1>8, <1>9, ExchangeStep

LEMMA HeadIs ==
  ASSUME IInv, NEW r \in Procs, NEW d \in Procs, net[d][r] # <<>>
  PROVE  /\ Head(net[d][r]) = net[d][r][1] /\ net[d][r][1].body \in Seq(Keys)
         /\ TakenBy(r, d) = 1 => net[d][r][1].kind = "data"
<1>1. net[d][r] \in Seq(Messages) /\ Channel(d, r)
  BY DEF IInv, Values, Traffic
<1>2. Head(net[d][r]) = net[d][r][1] /\ net[d][r][1] \in Messages /\ 1 \in 1..Len(net[d][r])
  BY <1>1
<1>3. net[d][r][1].kind = IF TakenBy(r, d) + 1 = 1 THEN "size" ELSE "data"
  BY <1>1, <1>2 DEF Channel
<1> QED BY <1>2, <1>3 DEF Messages

LEMMA RecvSizeStep ==
  ASSUME IInv, NEW r \in Procs, RecvSize(r)
  PROVE  IInv'
<1> DEFINE d == Partner(r)
           x == ExtraPartner(r)
           m == Head(net[d][r])
<1>1. pc[r] = "size" /\ pc[r] \in Round
  BY DEF RecvSize, Round
<1>2. /\ d \in Procs /\ d # r /\ Linked(r, d)
      /\ extra_partner(r) => x \in Procs /\ x \notin {r, d} /\ Linked(r, x)
  BY <1>1, InRound
<1>3. Values /\ DOMAIN rsize = Procs /\ DOMAIN ext_rsize = Procs
      /\ rbuff \in [Procs -> Seq(Keys)] /\ rbuff_ext \in [Procs -> Seq(Keys)]
  BY DEF IInv, Values
<1>4. /\ rsize' = [rsize EXCEPT ![r] = m.body[1]] /\ ext_rsize' = ext_rsize
      /\ UNCHANGED buffers /\ UNCHANGED <<given, group, arr, split>>
  BY DEF RecvSize
<1>5. \A l : ~(extra_partner(r) /\ ExtraTaken(l) = 1) => Learns(r, d, l)
  BY <1>3, <1>4 DEF Learns
<1>6. Keeps(r, d)
  BY <1>1, <1>3, <1>4 DEF Keeps, buffers
<1>7. CASE extra_partner(r)
  <2> DEFINE n == Message(r, "size", <<0>>)
  <2>1. TakeAndSend(r, d, m, x, <<n>>) /\ pc' = [pc EXCEPT ![r] = "extraSize"]
    BY <1>7 DEF RecvSize
  <2>2. n \in Messages
    BY <1>1, InRound
  <2>3. Exchanges(r, d, x, n) /\ net' \in [Procs -> [Procs -> Seq(Messages)]]
    <3> HIDE DEF d, x, m, n
    <3> QED BY <1>2, <1>3, <1>7, <2>1, <2>2, TakeAndSendIs
  <2>4. Advances(r, d, x, "extraSize")
    <3>1. "extraSize" \in Round \ {"exchange", "split"}
      BY DEF Round
    <3>2. /\ MainSent(pc[r]) = MainSent("size") /\ MainTaken(pc[r]) = MainTaken("size")
          /\ ExtraSent(pc[r]) = ExtraSent("size") /\ ExtraTaken(pc[r]) = ExtraTaken("size")
      BY <1>1
    <3> QED BY <1>1, <1>2, <1>7, <2>1, <3>1, <3>2, Counts DEF Advances
  <2>5. Posts(r, x, n)
    <3>1. SentBy(r, x) = 0 /\ Owed(r, x) = 0
      BY <1>1, <1>2, <1>7 DEF SentBy, ExtraSent, Owed
    <3> QED BY <3>1 DEF Posts, Message
  <2>6. Learns(r, d, "extraSize")
    <3>1. ExtraTaken("extraSize") # 1
      BY Counts
    <3> QED BY <1>5, <3>1, Zenon
  <2> HIDE DEF d, x, m, n
  <2> QED BY <1>4, <1>6, <2>3, <2>4, <2>5, <2>6, ExchangeStep
<1>8. CASE ~extra_partner(r)
  <2> DEFINE n == Message(r, "data", sbuff(r))
  <2>1. TakeAndSend(r, d, m, d, <<n>>) /\ pc' = [pc EXCEPT ![r] = "data"]
    BY <1>8 DEF RecvSize
  <2>2. n \in Messages /\ \A v \in Range(sbuff(r)) : v \in Range(arr[r]) /\ Side(d, v)
    BY <1>1, InRound
  <2>3. Exchanges(r, d, d, n) /\ net' \in [Procs -> [Procs -> Seq(Messages)]]
    <3> HIDE DEF d, m, n
    <3> QED BY <1>2, <1>3, <2>1, <2>2, TakeAndSendIs
  <2>4. Advances(r, d, d, "data")
    <3>1. "data" \in Round \ {"exchange", "split"}
      BY DEF Round
    <3>2. /\ MainSent(pc[r]) = MainSent("size") /\ MainTaken(pc[r]) = MainTaken("size")
          /\ ExtraSent(pc[r]) = ExtraSent("size") /\ ExtraTaken(pc[r]) = ExtraTaken("size")
      BY <1>1
    <3> QED BY <1>1, <1>2, <1>8, <2>1, <3>1, <3>2, Counts DEF Advances
  <2>5. Posts(r, d, n)
    <3>1. SentBy(r, d) = 1 /\ Owed(r, d) = Len(sbuff(r))
      BY <1>1 DEF SentBy, MainSent, Owed
    <3> QED BY <2>2, <3>1 DEF Posts, Message
  <2>6. Learns(r, d, "data")
    BY <1>5, <1>8
  <2> HIDE DEF d, m, n
  <2> QED BY <1>4, <1>6, <2>3, <2>4, <2>5, <2>6, ExchangeStep
<1> QED BY <1>7, <1>8

LEMMA RecvExtraSizeStep ==
  ASSUME IInv, NEW r \in Procs, RecvExtraSize(r)
  PROVE  IInv'
<1> DEFINE d == Partner(r)
           x == ExtraPartner(r)
           m == Head(net[x][r])
           n == Message(r, "data", sbuff(r))
<1>1. pc[r] = "extraSize" /\ pc[r] \in Round /\ extra_partner(r)
  BY DEF RecvExtraSize, Round, IInv, Places
<1>2. /\ d \in Procs /\ d # r /\ Linked(r, d) /\ x \in Procs /\ x \notin {r, d} /\ Linked(r, x)
      /\ n \in Messages /\ \A v \in Range(sbuff(r)) : v \in Range(arr[r]) /\ Side(d, v)
  BY <1>1, InRound
<1>3. Values /\ DOMAIN rsize = Procs /\ DOMAIN ext_rsize = Procs
      /\ rbuff \in [Procs -> Seq(Keys)] /\ rbuff_ext \in [Procs -> Seq(Keys)]
  BY DEF IInv, Values
<1>4. /\ ext_rsize' = [ext_rsize EXCEPT ![r] = m.body[1]] /\ rsize' = rsize
      /\ UNCHANGED buffers /\ UNCHANGED <<given, group, arr, split>>
      /\ TakeAndSend(r, x, m, d, <<n>>) /\ pc' = [pc EXCEPT ![r] = "data"]
  BY DEF RecvExtraSize
<1>5. Learns(r, x, "data")
  BY <1>2, <1>3, <1>4 DEF Learns
<1>6. Keeps(r, x)
  BY <1>1, <1>3, <1>4 DEF Keeps, buffers
<1>7. Exchanges(r, x, d, n) /\ net' \in [Procs -> [Procs -> Seq(Messages)]]
  <2> HIDE DEF d, x, m, n
  <2> QED BY <1>2, <1>3, <1>4, TakeAndSendIs
<1>8. Advances(r, x, d, "data")
  <2>1. "data" \in Round \ {"exchange", "split"}
    BY DEF Round
  <2>2. /\ MainSent(pc[r]) = MainSent("extraSize") /\ MainTaken(pc[r]) = MainTaken("extraSize")
        /\ ExtraSent(pc[r]) = ExtraSent("extraSize") /\ ExtraTaken(pc[r]) = ExtraTaken("extraSize")
    BY <1>1
  <2> QED BY <1>1, <1>2, <1>4, <2>1, <2>2, Counts DEF Advances
<1>9. Posts(r, d, n)
  <2>1. SentBy(r, d) = 1 /\ Owed(r, d) = Len(sbuff(r))
    BY <1>1 DEF SentBy, MainSent, Owed
  <2> QED BY <1>2, <2>1 DEF Posts, Message
<1> HIDE DEF d, x, m, n
<1> QED BY <1>4, <1>5, <1>6, <1>7, <1>8, <1>9, ExchangeStep

LEMMA RecvDataStep ==
  ASSUME IInv, NEW r \in Procs, RecvData(r)
  PROVE  IInv'
<1> DEFINE d == Partner(r)
           x == ExtraPartner(r)
           m == Head(net[d][r])
<1>1. pc[r] = "data" /\ pc[r] \in Round
  BY DEF RecvData, Round
<1>2. /\ d \in Procs /\ d # r /\ Linked(r, d) /\ Nobody \notin Procs
      /\ extra_partner(r) => x \in Procs /\ x \notin {r, d} /\ Linked(r, x)
  BY <1>1, InRound
<1>3. Numbered /\ Values /\ DOMAIN rsize = Procs /\ DOMAIN ext_rsize = Procs
      /\ rbuff \in [Procs -> Seq(Keys)] /\ rbuff_ext \in [Procs -> Seq(Keys)]
  BY DEF IInv, Values
<1>4. /\ UNCHANGED sizes /\ rbuff' = [rbuff EXCEPT ![r] = m.body] /\ rbuff_ext' = rbuff_ext
      /\ UNCHANGED <<given, group, arr, split>> /\ net[d][r] # <<>>
  BY DEF RecvData, TakeAndSend
<1>5. m = net[d][r][1] /\ m.body \in Seq(Keys) /\ net[d][r][1].kind = "data"
  <2>1. TakenBy(r, d) = 1
    BY <1>1 DEF TakenBy, MainTaken, ExtraSent
  <2> QED BY <1>2, <1>4, <2>1, HeadIs
<1>6. \A l : MainTaken(l) # 1 => Learns(r, d, l)
  BY <1>2, <1>3, <1>4 DEF Learns, sizes
<1>7. Keeps(r, d)
  <2> HIDE DEF d, m
  <2>1. rbuff' \in [Procs -> Seq(Keys)] /\ rbuff'[r] = net[d][r][1].body
    BY <1>3, <1>4, <1>5
  <2> QED BY <1>1, <1>2, <1>3, <1>4, <1>5, <2>1 DEF Keeps
<1>8. CASE extra_partner(r)
  <2> DEFINE n == Message(r, "data", <<>>)
  <2>1. TakeAndSend(r, d, m, x, <<n>>) /\ pc' = [pc EXCEPT ![r] = "extraData"]
    BY <1>8 DEF RecvData
  <2>2. n \in Messages
    BY <1>1, InRound
  <2>3. Exchanges(r, d, x, n) /\ net' \in [Procs -> [Procs -> Seq(Messages)]]
    <3> HIDE DEF d, x, m, n
    <3> QED BY <1>2, <1>3, <1>8, <2>1, <2>2, TakeAndSendIs
  <2>4. Advances(r, d, x, "extraData")
    <3>1. "extraData" \in Round \ {"exchange", "split"}
      BY DEF Round
    <3>2. /\ MainSent(pc[r]) = MainSent("data") /\ MainTaken(pc[r]) = MainTaken("data")
          /\ ExtraSent(pc[r]) = ExtraSent("data") /\ ExtraTaken(pc[r]) = ExtraTaken("data")
      BY <1>1
    <3> QED BY <1>1, <1>2, <1>8, <2>1, <3>1, <3>2, Counts DEF Advances
  <2>5. Posts(r, x, n)
    <3>1. SentBy(r, x) = 1 /\ Owed(r, x) = 0
      BY <1>1, <1>2, <1>8 DEF SentBy, ExtraSent, Owed
    <3>2. Range(<<>>) = {}
      BY DEF Range
    <3> QED BY <3>1, <3>2 DEF Posts, Message
  <2>6. Learns(r, d, "extraData")
    <3>1. MainTaken("extraData") # 1
      BY Counts
    <3> QED BY <1>6, <3>1, Zenon
  <2> HIDE DEF d, x, m, n
  <2> QED BY <1>4, <1>7, <2>3, <2>4, <2>5, <2>6, ExchangeStep
<1>9. CASE ~extra_partner(r)
  <2>1. TakeAndSend(r, d, m, d, <<>>) /\ pc' = [pc EXCEPT ![r] = "merge"]
    BY <1>9 DEF RecvData
  <2>2. Exchanges(r, d, Nobody, m) /\ net' \in [Procs -> [Procs -> Seq(Messages)]]
    <3> HIDE DEF d, m
    <3> QED BY <1>2, <1>3, <2>1, TakeIs
  <2>3. Advances(r, d, Nobody, "merge")
    <3>1. "merge" \in Round \ {"exchange", "split"}
      BY DEF Round
    <3>2. /\ MainSent(pc[r]) = MainSent("data") /\ MainTaken(pc[r]) = MainTaken("data")
          /\ ExtraSent(pc[r]) = ExtraSent("data") /\ ExtraTaken(pc[r]) = ExtraTaken("data")
      BY <1>1
    <3> QED BY <1>1, <1>2, <1>9, <2>1, <3>1, <3>2, Counts DEF Advances
  <2>4. Posts(r, Nobody, m)
    BY <1>2 DEF Posts
  <2>5. Learns(r, d, "merge")
    <3>1. MainTaken("merge") # 1
      BY Counts
    <3> QED BY <1>6, <3>1, Zenon
  <2> HIDE DEF d, m
  <2> QED BY <1>4, <1>7, <2>2, <2>3, <2>4, <2>5, ExchangeStep
<1> QED BY <1>8, <1>9

LEMMA RecvExtraDataStep ==
  ASSUME IInv, NEW r \in Procs, RecvExtraData(r)
  PROVE  IInv'
<1> DEFINE d == Partner(r)
           x == ExtraPartner(r)
           m == Head(net[x][r])
<1>1. pc[r] = "extraData" /\ pc[r] \in Round /\ extra_partner(r)
  BY DEF RecvExtraData, Round, IInv, Places
<1>2. /\ d \in Procs /\ d # r /\ x \in Procs /\ x \notin {r, d} /\ Linked(r, x)
      /\ Nobody \notin Procs
  BY <1>1, InRound
<1>3. Numbered /\ Values /\ DOMAIN rsize = Procs /\ DOMAIN ext_rsize = Procs
      /\ rbuff \in [Procs -> Seq(Keys)] /\ rbuff_ext \in [Procs -> Seq(Keys)]
  BY DEF IInv, Values
<1>4. /\ UNCHANGED sizes /\ rbuff_ext' = [rbuff_ext EXCEPT ![r] = m.body] /\ rbuff' = rbuff
      /\ UNCHANGED <<given, group, arr, split>> /\ net[x][r] # <<>>
      /\ TakeAndSend(r, x, m, x, <<>>) /\ pc' = [pc EXCEPT ![r] = "merge"]
  BY DEF RecvExtraData, TakeAndSend
<1>5. m = net[x][r][1] /\ m.body \in Seq(Keys) /\ net[x][r][1].kind = "data"
  <2>1. TakenBy(r, x) = 1
    BY <1>1, <1>2 DEF TakenBy, ExtraTaken
  <2> QED BY <1>2, <1>4, <2>1, HeadIs
<1>6. Learns(r, x, "merge")
  BY <1>2, <1>3, <1>4 DEF Learns, sizes, MainTaken, ExtraSent, ExtraTaken
<1>7. Keeps(r, x)
  <2> HIDE DEF x, m
  <2>1. rbuff_ext' \in [Procs -> Seq(Keys)] /\ rbuff_ext'[r] = net[x][r][1].body
    BY <1>3, <1>4, <1>5
  <2> QED BY <1>1, <1>2, <1>3, <1>4, <1>5, <2>1 DEF Keeps
<1>8. Exchanges(r, x, Nobody, m) /\ net' \in [Procs -> [Procs -> Seq(Messages)]]
  <2> HIDE DEF d, x, m
  <2> QED BY <1>2, <1>3, <1>4, TakeIs
<1>9. Advances(r, x, Nobody, "merge")
  <2>1. "merge" \in Round \ {"exchange", "split"}
    BY DEF Round
  <2>2. /\ MainSent(pc[r]) = MainSent("extraData") /\ MainTaken(pc[r]) = MainTaken("extraData")
        /\ ExtraSent(pc[r]) = ExtraSent("extraData") /\ ExtraTaken(pc[r]) = ExtraTaken("extraData")
    BY <1>1
  <2> QED BY <1>1, <1>2, <1>4, <2>1, <2>2, Counts DEF Advances
<1>10. Posts(r, Nobody, m)
  BY <1>2 DEF Posts
<1> HIDE DEF d, x, m
<1> QED BY <1>4, <1>6, <1>7, <1>8, <1>9, <1>10, ExchangeStep

----------------------------------------------------------------------------
(* The other steps *)

\* Process r sorts its own keys, before the first round or at the end of one.
LEMMA SortStep ==
  ASSUME IInv, NEW r \in Procs, NEW l \in Labels, pc' = [pc EXCEPT ![r] = l],
         NEW a \in Seq(Keys), arr' = [arr EXCEPT ![r] = a], Ascending(a),
         \A v \in Range(a) : At(r, v),
         \/ pc[r] = "merge" /\ l = "split" /\ \A v \in Range(a) : Side(r, v)
         \/ pc[r] = "sort" /\ l \in {"sample", "partition"} /\ (l = "sample" => npes[r] > 1),
         UNCHANGED <<given, group, split, sizes, buffers, net>>
  PROVE  IInv'
<1> USE DEF IInv
<1>1. /\ UNCHANGED <<given, group>> /\ UNCHANGED group /\ split' = split /\ net' = net
      /\ rsize' = rsize /\ ext_rsize' = ext_rsize /\ rbuff' = rbuff /\ rbuff_ext' = rbuff_ext
      /\ comm' = comm
  BY DEF sizes, buffers, group
<1>2. Numbered' /\ Groups' /\ Procs' = Procs
  BY <1>1, GroupsStay
<1>3. Places' /\ pc'[r] = l /\ \A s \in Procs \ {r} : pc'[s] = pc[s]
  <2>1. (l \in Round \cup {"sample"} => npes[r] > 1) /\ l \notin {"extraSize", "extraData"}
    BY DEF Places, Round
  <2> QED BY <1>1, <2>1, PlacesStay
<1>4. arr' \in [Procs -> Seq(Keys)] /\ arr'[r] = a /\ \A s \in Procs \ {r} : arr'[s] = arr[s]
  BY DEF Values
<1>5. Values'
  BY <1>1, <1>2, <1>4 DEF Values, Keys, Messages
<1>6. /\ MainSent(l) = MainSent(pc[r]) /\ ExtraSent(l) = ExtraSent(pc[r])
      /\ MainTaken(l) = MainTaken(pc[r]) /\ ExtraTaken(l) = ExtraTaken(pc[r])
      /\ MainSent(l) # 1 /\ ExtraSent(l) # 1
  <2>1. CASE pc[r] = "merge" /\ l = "split"
    BY <2>1, Counts
  <2>2. CASE pc[r] = "sort" /\ l \in {"sample", "partition"}
    <3>1. pc[r] \in Labels \ Round /\ l \in Labels \ Round
      BY <2>2 DEF Labels, Round
    <3> QED BY <3>1, Counts
  <2> QED BY <2>1, <2>2
<1>7. Traffic'
  <2> SUFFICES ASSUME NEW s \in Procs, NEW d \in Procs PROVE Channel(s, d)'
    BY <1>2 DEF Traffic
  <2>1. Channel(s, d) /\ net[s][d] \in Seq(Messages) /\ net'[s][d] = net[s][d] /\ comm'[s] = comm[s]
    BY <1>1 DEF Traffic, Values
  <2>2. \A x, y \in Procs : /\ SentBy(x, y)' = SentBy(x, y) /\ TakenBy(x, y)' = TakenBy(x, y)
                            /\ Told(x, y)' = Told(x, y)
    <3> SUFFICES ASSUME NEW x \in Procs, NEW y \in Procs
                 PROVE  /\ SentBy(x, y)' = SentBy(x, y) /\ TakenBy(x, y)' = TakenBy(x, y)
                        /\ Told(x, y)' = Told(x, y)
      OBVIOUS
    <3>1. /\ Partner(x)' = Partner(x) /\ ExtraPartner(x)' = ExtraPartner(x)
          /\ extra_partner(x)' = extra_partner(x)
      BY <1>1, SameView DEF group
    <3>2. /\ MainSent(pc'[x]) = MainSent(pc[x]) /\ ExtraSent(pc'[x]) = ExtraSent(pc[x])
          /\ MainTaken(pc'[x]) = MainTaken(pc[x]) /\ ExtraTaken(pc'[x]) = ExtraTaken(pc[x])
      BY <1>3, <1>6
    <3> QED BY <1>1, <3>1, <3>2, Zenon DEF SentBy, TakenBy, Told
  <2>3. SentBy(s, d) = 1 => Owed(s, d)' = Owed(s, d)
    <3>1. CASE s = r
      BY <1>6, <3>1 DEF SentBy
    <3>2. CASE s # r
      BY <1>1, <1>4, <3>2, SameBlocks DEF group
    <3> QED BY <3>1, <3>2
  <2> QED BY <2>1, <2>2, <2>3, ChannelStays
<1>8. Sorted'
  <2>1. \A s \in Procs : pc'[s] \notin {"allreduce", "sort"} => Ascending(arr'[s])
    BY <1>3, <1>4 DEF Sorted
  <2>2. \A s \in Procs : pc'[s] \in Round => pc[s] \in Round
    BY <1>3 DEF Round
  <2> QED BY <1>1, <1>2, <2>1, <2>2 DEF Sorted, Ascending
<1>9. Sides'
  <2>1. \A s \in Procs : \A v : Side(s, v)' = Side(s, v)
    <3>1. \A s \in Procs : Upper(s)' = Upper(s)
      BY <1>1, SameView DEF group
    <3> QED BY <1>1, <3>1 DEF Side
  <2>2. \A s \in Procs : pc'[s] \in Round \ {"exchange"} => pc[s] \in Round \ {"exchange"}
    BY <1>3 DEF Round
  <2>3. \A s \in Procs : pc'[s] = "split" => \A v \in Range(arr'[s]) : Side(s, v)
    BY <1>3, <1>4 DEF Sides
  <2> QED BY <1>1, <1>2, <2>1, <2>2, <2>3 DEF Sides
<1>10. Separated'
  <2>1. ASSUME NEW x \in Procs, NEW v \in Keys, At(x, v)' PROVE At(x, v)
    <3>1. CASE v \in Range(arr'[x])
      BY <1>4, <3>1 DEF At
    <3>2. CASE v \notin Range(arr'[x])
      BY <1>1, <1>2, <2>1, <3>2 DEF At
    <3> QED BY <3>1, <3>2
  <2>2. \A x \in Procs : x \in comm[x]
    BY GroupFacts
  <2> QED BY <1>1, <1>2, <2>1, <2>2, SeparatedStays
<1> QED BY <1>2, <1>3, <1>5, <1>7, <1>8, <1>9, <1>10

LEMMA LocalSortStep ==
  ASSUME IInv, NEW r \in Procs, LocalSort(r)
  PROVE  IInv'
<1>1. PICK a \in SortedCopies(arr[r]) : arr' = [arr EXCEPT ![r] = a]
  BY DEF LocalSort
<1>2. arr[r] \in Seq(Int)
  BY DEF IInv, Values, Keys
<1>3. a \in Seq(Keys) /\ Ascending(a) /\ Range(a) \subseteq Range(arr[r])
  BY <1>1, <1>2, SortedCopiesAre DEF Keys
<1>4. \A v \in Range(a) : At(r, v)
  BY <1>3 DEF At
<1> DEFINE l == LoopTest(npes[r], totSize[r])
<1>5. /\ l \in {"sample", "partition"} /\ l \in Labels /\ (l = "sample" => npes[r] > 1)
      /\ pc[r] = "sort" /\ pc' = [pc EXCEPT ![r] = l]
  BY DEF LocalSort, LoopTest, Labels
<1>6. UNCHANGED <<given, group, split, sizes, buffers, net>>
  BY DEF LocalSort
<1> HIDE DEF l
<1> QED BY <1>1, <1>3, <1>4, <1>5, <1>6, SortStep

LEMMA MergeStep ==
  ASSUME IInv, NEW r \in Procs, Merge(r)
  PROVE  IInv'
<1> DEFINE ext == IF ext_rsize[r] > 0 THEN rbuff_ext[r] ELSE <<>>
<1>1. PICK a \in SortedCopies(lbuff(r) \o rbuff[r] \o ext) : arr' = [arr EXCEPT ![r] = a]
  BY DEF Merge
<1>2. /\ pc[r] = "merge" /\ pc' = [pc EXCEPT ![r] = "split"] /\ "split" \in Labels
      /\ UNCHANGED <<given, group, split, sizes, buffers, net>>
  BY DEF Merge, Labels, Round
<1>3. /\ lbuff(r) \in Seq(Int) /\ \A v \in Range(lbuff(r)) : v \in Range(arr[r]) /\ Side(r, v)
  <2>1. Ascending(arr[r]) /\ Values
    BY <1>2 DEF IInv, Sorted
  <2> QED BY <2>1, BlockCut DEF Keys
<1>4. /\ rbuff[r] \in Seq(Int) /\ ext \in Seq(Int) /\ Range(ext) \subseteq Range(rbuff_ext[r])
  <2>1. rbuff[r] \in Seq(Int) /\ rbuff_ext[r] \in Seq(Int)
    BY DEF IInv, Values, Keys
  <2>2. Range(<<>>) = {}
    BY DEF Range
  <2> QED BY <2>1, <2>2
<1>5. \A v \in Range(rbuff[r]) \cup Range(rbuff_ext[r]) : Side(r, v)
  BY <1>2 DEF IInv, Sides, Round
<1> HIDE DEF ext
<1>6. /\ lbuff(r) \o rbuff[r] \o ext \in Seq(Int)
      /\ Range(lbuff(r) \o rbuff[r] \o ext)
           \subseteq Range(lbuff(r)) \cup Range(rbuff[r]) \cup Range(ext)
  <2>1. /\ lbuff(r) \o rbuff[r] \in Seq(Int)
        /\ Range(lbuff(r) \o rbuff[r]) \subseteq Range(lbuff(r)) \cup Range(rbuff[r])
    BY <1>3, <1>4, RangeOfConcat
  <2>2. /\ lbuff(r) \o rbuff[r] \o ext \in Seq(Int)
        /\ Range((lbuff(r) \o rbuff[r]) \o ext) \subseteq Range(lbuff(r) \o rbuff[r]) \cup Range(ext)
    BY <1>4, <2>1, RangeOfConcat
  <2> QED BY <2>1, <2>2
<1>7. a \in Seq(Keys) /\ Ascending(a) /\ Range(a) \subseteq Range(lbuff(r) \o rbuff[r] \o ext)
  BY <1>1, <1>6, SortedCopiesAre DEF Keys
<1>8. \A v \in Range(a) : /\ v \in Range(arr[r]) \cup Range(rbuff[r]) \cup Range(rbuff_ext[r])
                          /\ Side(r, v)
  BY <1>3, <1>4, <1>5, <1>6, <1>7
<1>9. \A v \in Range(a) : At(r, v) /\ Side(r, v)
  BY <1>8 DEF At
<1> QED BY <1>1, <1>2, <1>7, <1>9, SortStep

\* Nothing but labels outside a round change.
LEMMA LabelStep ==
  ASSUME IInv, UNCHANGED <<given, group, arr, split, sizes, buffers, net>>,
         pc' \in [Procs -> Labels],
         \A s \in Procs : \/ pc'[s] = pc[s]
                          \/ pc[s] = "allreduce" /\ pc'[s] = "sort"
                          \/ pc[s] = "partition" /\ pc'[s] = "done"
  PROVE  IInv'
<1> USE DEF IInv
<1>1. /\ UNCHANGED <<given, group>> /\ UNCHANGED group /\ split' = split /\ net' = net
      /\ rsize' = rsize /\ ext_rsize' = ext_rsize /\ rbuff' = rbuff /\ rbuff_ext' = rbuff_ext
      /\ comm' = comm /\ npes' = npes /\ myrank' = myrank /\ arr' = arr
  BY DEF sizes, buffers, group
<1>2. Numbered' /\ Groups' /\ Procs' = Procs
  BY <1>1, GroupsStay
<1>3. \A s \in Procs : Upper(s)' = Upper(s) /\ extra_partner(s)' = extra_partner(s)
  BY <1>1, SameView
<1>4. \A s \in Procs : pc'[s] = pc[s] \/ (pc[s] \in Labels \ Round /\ pc'[s] \in {"sort", "done"})
  <2>1. "allreduce" \in Labels \ Round /\ "partition" \in Labels \ Round
    BY DEF Labels, Round
  <2> QED BY <2>1
<1>5. Places'
  <2>1. \A s \in Procs : /\ pc'[s] \in Round \cup {"sample"} => pc[s] \in Round \cup {"sample"}
                         /\ pc'[s] \in {"extraSize", "extraData"} => pc'[s] = pc[s]
    BY <1>4 DEF Round
  <2> QED BY <1>1, <1>2, <1>3, <2>1 DEF Places
<1>6. Values'
  BY <1>1, <1>2 DEF Values, Keys, Messages
<1>7. Traffic'
  <2> SUFFICES ASSUME NEW s \in Procs, NEW d \in Procs PROVE Channel(s, d)'
    BY <1>2 DEF Traffic
  <2>1. Channel(s, d) /\ net[s][d] \in Seq(Messages) /\ net'[s][d] = net[s][d] /\ comm'[s] = comm[s]
    BY <1>1 DEF Traffic, Values
  <2>2. \A x, y \in Procs : /\ SentBy(x, y)' = SentBy(x, y) /\ TakenBy(x, y)' = TakenBy(x, y)
                            /\ Told(x, y)' = Told(x, y)
    <3> SUFFICES ASSUME NEW x \in Procs, NEW y \in Procs
                 PROVE  /\ SentBy(x, y)' = SentBy(x, y) /\ TakenBy(x, y)' = TakenBy(x, y)
                        /\ Told(x, y)' = Told(x, y)
      OBVIOUS
    <3>1. /\ Partner(x)' = Partner(x) /\ ExtraPartner(x)' = ExtraPartner(x)
          /\ extra_partner(x)' = extra_partner(x)
      BY <1>1, SameView
    <3>2. pc'[x] = pc[x] \/ (pc[x] \in Labels \ Round /\ pc'[x] \in Labels \ Round)
      BY <1>4 DEF Labels, Round
    <3>3. /\ MainSent(pc'[x]) = MainSent(pc[x]) /\ ExtraSent(pc'[x]) = ExtraSent(pc[x])
          /\ MainTaken(pc'[x]) = MainTaken(pc[x]) /\ ExtraTaken(pc'[x]) = ExtraTaken(pc[x])
      BY <3>2, Counts
    <3> QED BY <1>1, <3>1, <3>3, Zenon DEF SentBy, TakenBy, Told
  <2>3. Owed(s, d)' = Owed(s, d)
    BY <1>1, SameBlocks
  <2> QED BY <2>1, <2>2, <2>3, ChannelStays
<1>8. Sorted'
  <2>1. \A s \in Procs : /\ pc'[s] \notin {"allreduce", "sort"} => pc[s] \notin {"allreduce", "sort"}
                         /\ pc'[s] \in Round => pc[s] \in Round
    BY <1>4 DEF Round
  <2> QED BY <1>1, <1>2, <2>1 DEF Sorted, Ascending
<1>9. Sides'
  <2>1. \A s \in Procs : \A v : Side(s, v)' = Side(s, v)
    BY <1>1, <1>3 DEF Side
  <2>2. \A s \in Procs : /\ pc'[s] \in Round \ {"exchange"} => pc[s] \in Round \ {"exchange"}
                         /\ pc'[s] = "split" => pc[s] = "split"
    BY <1>4 DEF Round
  <2> QED BY <1>1, <1>2, <2>1, <2>2 DEF Sides
<1>10. Separated'
  BY <1>1, <1>2 DEF Separated, At
<1> QED BY <1>2, <1>5, <1>6, <1>7, <1>8, <1>9, <1>10

LEMMA SumSizesStep == IInv /\ SumSizes => IInv'
<1> SUFFICES ASSUME IInv, SumSizes PROVE IInv'
  OBVIOUS
<1>1. /\ pc' = [s \in Procs |-> IF s \in Procs THEN "sort" ELSE pc[s]]
      /\ \A s \in Procs : pc[s] = "allreduce"
      /\ UNCHANGED <<given, group, arr, split, sizes, buffers, net>>
  BY DEF SumSizes, Goto, AllAt
<1>2. "sort" \in Labels
  BY DEF Labels
<1> QED BY <1>1, <1>2, LabelStep

LEMMA PartitionStep == IInv /\ PartitionW => IInv'
<1> SUFFICES ASSUME IInv, PartitionW PROVE IInv'
  OBVIOUS
<1>1. /\ pc' = [s \in Procs |-> IF s \in Procs THEN "done" ELSE pc[s]]
      /\ \A s \in Procs : pc[s] = "partition"
      /\ UNCHANGED <<given, group, arr, split, sizes, buffers, net>>
  BY DEF PartitionW, Goto
<1>2. "done" \in Labels
  BY DEF Labels
<1> QED BY <1>1, <1>2, LabelStep

LEMMA StutterStep == IInv /\ UNCHANGED vars => IInv'
<1> SUFFICES ASSUME IInv, UNCHANGED vars PROVE IInv'
  OBVIOUS
<1>1. pc' = pc /\ UNCHANGED <<given, group, arr, split, sizes, buffers, net>>
  BY DEF vars
<1>2. pc \in [Procs -> Labels]
  BY DEF IInv, Places
<1> QED BY <1>1, <1>2, LabelStep

\* Before a round and after it no message is on its way to or from the members
\* of a communicator.
LEMMA Quiet ==
  ASSUME IInv, NEW r \in Procs,
         (\A s \in comm[r] : pc[s] = "sample") \/ (\A s \in comm[r] : pc[s] = "split"),
         NEW s \in Procs, NEW d \in Procs, s \in comm[r] \/ d \in comm[r]
  PROVE  /\ net[s][d] = <<>>
         /\ s \in comm[r] => SentBy(s, d) \in {0, 2} /\ TakenBy(s, d) \in {0, 2}
         /\ s \notin comm[r] => SentBy(s, d) = 0 /\ TakenBy(s, d) = 0
<1> USE DEF IInv
<1>1. net[s][d] \in Seq(Messages) /\ Len(net[s][d]) = SentBy(s, d) - TakenBy(d, s)
  BY DEF Values, Traffic, Channel
<1>2. \A x \in Procs, y \in Procs : x \in comm[r] =>
        /\ pc[x] = "sample" => SentBy(x, y) = 0 /\ TakenBy(x, y) = 0
        /\ pc[x] = "split" => /\ SentBy(x, y) = IF Linked(x, y) THEN 2 ELSE 0
                              /\ TakenBy(x, y) = IF Linked(x, y) THEN 2 ELSE 0
  BY DEF SentBy, TakenBy, Linked, MainSent, ExtraSent, MainTaken, ExtraTaken
<1>3. \A x \in Procs, y \in Procs : SentBy(x, y) # 0 \/ TakenBy(x, y) # 0 =>
        Linked(y, x) /\ (x \in comm[r] <=> y \in comm[r])
  <2> SUFFICES ASSUME NEW x \in Procs, NEW y \in Procs, SentBy(x, y) # 0 \/ TakenBy(x, y) # 0
               PROVE  Linked(y, x) /\ (x \in comm[r] <=> y \in comm[r])
    OBVIOUS
  <2>1. Linked(x, y) /\ npes[x] > 1
    BY CountsLinked
  <2>2. Linked(y, x) /\ y \in comm[x]
    BY <2>1, LinksMatch
  <2>3. comm[y] = comm[x] /\ x \in comm[x]
    BY <2>2, GroupFacts
  <2> QED BY <2>2, <2>3, GroupFacts
<1>4. CASE s \in comm[r] /\ d \in comm[r]
  <2>1. SentBy(s, d) = TakenBy(d, s)
    <3>1. CASE \A x \in comm[r] : pc[x] = "sample"
      BY <1>2, <1>4, <3>1
    <3>2. CASE \A x \in comm[r] : pc[x] = "split"
      <4>1. Linked(s, d) <=> Linked(d, s)
        BY <1>2, <1>3, <1>4, <3>2
      <4> QED BY <1>2, <1>4, <3>2, <4>1
    <3> QED BY <3>1, <3>2
  <2>2. Len(net[s][d]) = 0
    BY <1>1, <2>1, CountTypes
  <2> QED BY <1>1, <1>2, <1>4, <2>2
<1>5. CASE ~(s \in comm[r] /\ d \in comm[r])
  <2>1. SentBy(s, d) = 0 /\ TakenBy(d, s) = 0 /\ TakenBy(s, d) = 0
    BY <1>3, <1>5
  <2>2. Len(net[s][d]) = 0
    BY <1>1, <2>1
  <2> QED BY <1>1, <2>1, <2>2
<1> QED BY <1>4, <1>5

LEMMA ChooseSplitStep ==
  ASSUME IInv, NEW r \in Procs, ChooseSplit(comm[r])
  PROVE  IInv'
<1> DEFINE c == comm[r]
<1> USE DEF IInv
<1>1. PICK v \in UNION {Range(arr[x]) : x \in c} :
        split' = [s \in Procs |-> IF s \in c THEN [key |-> v, disp |-> GlbDisp(c, v)] ELSE split[s]]
  BY DEF ChooseSplit
<1>2. /\ \A s \in c : pc[s] = "sample" /\ comm[s] = c
      /\ pc' = [s \in Procs |-> IF s \in c THEN "exchange" ELSE pc[s]]
      /\ UNCHANGED <<given, group, arr, totSize, sizes, buffers, net>>
  BY DEF ChooseSplit, AllAt, Goto
<1>3. /\ UNCHANGED <<given, group>> /\ net' = net /\ arr' = arr
      /\ rsize' = rsize /\ ext_rsize' = ext_rsize /\ rbuff' = rbuff /\ rbuff_ext' = rbuff_ext
      /\ comm' = comm /\ npes' = npes /\ myrank' = myrank
  BY <1>2 DEF sizes, buffers, group
<1>4. c \subseteq Procs /\ \A s \in Procs : s \in comm[s] /\ (s \notin c => comm[s] \cap c = {})
  <2>1. ASSUME NEW s \in Procs, s \notin c PROVE comm[s] \cap c = {}
    <3> SUFFICES ASSUME NEW t \in comm[s], t \in c PROVE FALSE
      OBVIOUS
    <3>1. comm[t] = comm[s] /\ comm[t] = c /\ s \in comm[s]
      BY GroupFacts
    <3> QED BY <2>1, <3>1
  <2> QED BY <2>1, GroupFacts
<1>5. v \in Int
  <2>1. PICK x \in c : v \in Range(arr[x])
    BY <1>1
  <2>2. arr[x] \in Seq(Int)
    BY <1>4, <2>1 DEF Values, Keys
  <2> QED BY <2>1, <2>2 DEF Range
<1>6. /\ DOMAIN split' = Procs
      /\ \A s \in Procs : /\ s \in c => split'[s] = [key |-> v, disp |-> GlbDisp(c, v)]
                          /\ s \notin c => split'[s] = split[s]
      /\ \A s \in c : split'[s].key = v
  BY <1>1, <1>4
<1>7. \A s \in Procs : /\ s \in c => pc[s] = "sample" /\ pc'[s] = "exchange"
                       /\ s \notin c => pc'[s] = pc[s]
  BY <1>2
<1>8. Numbered' /\ Groups' /\ Procs' = Procs
  BY <1>3, GroupsStay
<1>9. \A s \in Procs : /\ Upper(s)' = Upper(s) /\ extra_partner(s)' = extra_partner(s)
                       /\ Partner(s)' = Partner(s) /\ ExtraPartner(s)' = ExtraPartner(s)
  BY <1>3, SameView
<1>10. Places'
  <2>1. pc' \in [Procs -> Labels]
    <3>1. "exchange" \in Labels /\ pc \in [Procs -> Labels]
      BY DEF Labels, Round, Places
    <3> HIDE DEF c
    <3> QED BY <1>2, <3>1
  <2>2. ASSUME NEW s \in Procs
        PROVE  /\ pc'[s] \in Round \cup {"sample"} => pc[s] \in Round \cup {"sample"}
               /\ pc'[s] \in {"extraSize", "extraData"} => pc'[s] = pc[s]
    <3> HIDE DEF c
    <3> QED BY <1>7
  <2> QED BY <1>3, <1>8, <1>9, <2>1, <2>2 DEF Places
<1>11. Values'
  <2>1. \A s \in Procs : split'[s].key \in Keys
    BY <1>5, <1>6 DEF Values, Keys
  <2> QED BY <1>3, <1>6, <1>8, <2>1 DEF Values, Keys, Messages
<1>12. Traffic'
  <2> SUFFICES ASSUME NEW s \in Procs, NEW d \in Procs PROVE Channel(s, d)'
    BY <1>8 DEF Traffic
  <2>1. Channel(s, d) /\ net[s][d] \in Seq(Messages) /\ net'[s][d] = net[s][d] /\ comm'[s] = comm[s]
    BY <1>3 DEF Traffic, Values
  <2>2. \A x, y \in Procs : /\ SentBy(x, y)' = SentBy(x, y) /\ TakenBy(x, y)' = TakenBy(x, y)
                            /\ Told(x, y)' = Told(x, y)
    <3> SUFFICES ASSUME NEW x \in Procs, NEW y \in Procs
                 PROVE  /\ SentBy(x, y)' = SentBy(x, y) /\ TakenBy(x, y)' = TakenBy(x, y)
                        /\ Told(x, y)' = Told(x, y)
      OBVIOUS
    <3>1. /\ MainSent(pc'[x]) = MainSent(pc[x]) /\ ExtraSent(pc'[x]) = ExtraSent(pc[x])
          /\ MainTaken(pc'[x]) = MainTaken(pc[x]) /\ ExtraTaken(pc'[x]) = ExtraTaken(pc[x])
      <4>1. CASE x \notin c
        BY <1>7, <4>1
      <4>2. CASE x \in c
        <5>1. "sample" \in Labels \ Round
          BY DEF Labels, Round
        <5>2. pc[x] = "sample" /\ pc'[x] = "exchange"
          BY <1>7, <4>2
        <5> QED BY <5>1, <5>2, Counts
      <4> QED BY <4>1, <4>2
    <3> QED BY <1>3, <1>9, <3>1, Zenon DEF SentBy, TakenBy, Told
  <2>3. SentBy(s, d) = 1 => Owed(s, d)' = Owed(s, d)
    <3>1. CASE s \in c
      <4>1. SentBy(s, d) = 0
        BY <1>7, <3>1 DEF SentBy, MainSent, ExtraSent
      <4> QED BY <4>1
    <3>2. CASE s \notin c
      BY <1>3, <1>6, <3>2, SameBlocks
    <3> QED BY <3>1, <3>2
  <2> HIDE DEF IInv
  <2> QED BY <2>1, <2>2, <2>3, ChannelStays
<1>13. Sorted'
  <2>1. \A s \in Procs : pc'[s] \notin {"allreduce", "sort"} => pc[s] \notin {"allreduce", "sort"}
    BY <1>7
  <2>2. ASSUME NEW s \in Procs, pc'[s] \in Round, NEW t \in comm[s] PROVE split'[t] = split'[s]
    <3>1. CASE s \in c
      <4>1. t \in c /\ t \in Procs
        BY <1>2, <1>4, <2>2, <3>1
      <4> QED BY <1>6, <3>1, <4>1
    <3>2. CASE s \notin c
      <4>1. t \notin c /\ t \in Procs
        BY <1>4, <2>2, <3>2, GroupFacts
      <4>2. split[t] = split[s]
        BY <1>7, <2>2, <3>2 DEF Sorted
      <4> QED BY <1>6, <3>2, <4>1, <4>2
    <3> QED BY <3>1, <3>2
  <2> QED BY <1>3, <1>8, <2>1, <2>2 DEF Sorted, Ascending
<1>14. Sides'
  <2> SUFFICES ASSUME NEW s \in Procs
               PROVE  /\ pc'[s] \in Round \ {"exchange"} =>
                           \A w \in Range(rbuff[s]) \cup Range(rbuff_ext[s]) : Side(s, w)'
                      /\ pc'[s] = "split" => \A w \in Range(arr[s]) : Side(s, w)'
                      /\ \A x \in Procs : \A i \in 1..Len(net[x][s]) :
                           net[x][s][i].kind = "data" =>
                             \A w \in Range(net[x][s][i].body) : Side(s, w)'
    BY <1>3, <1>8 DEF Sides
  <2>1. CASE s \in c
    <3>1. pc'[s] = "exchange"
      BY <1>7, <2>1
    <3>2. ASSUME NEW x \in Procs PROVE Len(net[x][s]) = 0
      <4>1. net[x][s] = <<>>
        BY <1>2, <2>1, Quiet
      <4> QED BY <4>1
    <3> QED BY <3>1, <3>2
  <2>2. CASE s \notin c
    <3>1. \A w : Side(s, w)' = Side(s, w)
      BY <1>6, <1>9, <2>2 DEF Side
    <3>2. pc'[s] = pc[s]
      BY <1>7, <2>2
    <3> QED BY <3>1, <3>2 DEF Sides
  <2> QED BY <2>1, <2>2
<1>15. Separated'
  BY <1>3, <1>8 DEF Separated, At
<1> QED BY <1>8, <1>10, <1>11, <1>12, <1>13, <1>14, <1>15

LEMMA CommSplitStep ==
  ASSUME IInv, NEW r \in Procs, CommSplit(comm[r])
  PROVE  IInv'
<1> DEFINE c == comm[r]
<1> USE DEF IInv
<1>1. /\ Groups' /\ Procs' = Procs
      /\ \A s \in Procs \ c : /\ comm'[s] = comm[s] /\ npes'[s] = npes[s]
                              /\ myrank'[s] = myrank[s] /\ pc'[s] = pc[s]
      /\ \A s \in c : /\ pc[s] = "split"
                      /\ (npes'[s] > 1 /\ pc'[s] = "sample") \/ pc'[s] = "partition"
                      /\ comm'[s] = {t \in c : Upper(t) = Upper(s)}
      /\ pc' = [s \in Procs |-> pc'[s]]
  BY SplitGroups
<1>2. /\ arr' = arr /\ split' = split /\ net' = net /\ rsize' = rsize /\ ext_rsize' = ext_rsize
      /\ rbuff' = rbuff /\ rbuff_ext' = rbuff_ext /\ UNCHANGED given
  BY DEF CommSplit, sizes, buffers
<1>3. c \subseteq Procs /\ \A s \in Procs : s \in comm[s] /\ (s \notin c => comm[s] \cap c = {})
  <2>1. ASSUME NEW s \in Procs, s \notin c PROVE comm[s] \cap c = {}
    <3> SUFFICES ASSUME NEW t \in comm[s], t \in c PROVE FALSE
      OBVIOUS
    <3>1. comm[t] = comm[s] /\ comm[t] = c /\ s \in comm[s]
      BY GroupFacts
    <3> QED BY <2>1, <3>1
  <2> QED BY <2>1, GroupFacts
<1>4. \A s \in Procs \ c : /\ Upper(s)' = Upper(s) /\ extra_partner(s)' = extra_partner(s)
                           /\ Partner(s)' = Partner(s) /\ ExtraPartner(s)' = ExtraPartner(s)
                           /\ \A d : Owed(s, d)' = Owed(s, d)
  BY <1>1, <1>2, SameView, SameBlocks
<1>5. ASSUME NEW s \in Procs, NEW d \in Procs, s \in c \/ d \in c
      PROVE  /\ net[s][d] = <<>>
             /\ s \notin c => SentBy(s, d) = 0 /\ TakenBy(s, d) = 0
  <2>1. \A x \in c : pc[x] = "split"
    BY <1>1
  <2> QED BY <1>5, <2>1, Quiet
<1>6. Numbered'
  BY <1>1 DEF Numbered
<1>7. Places'
  <2>1. \A s \in c : pc'[s] \in {"sample", "partition"} /\ (pc'[s] = "sample" => npes'[s] > 1)
    <3> HIDE DEF c
    <3> QED BY <1>1
  <2>2. \A s \in Procs : pc'[s] \in Labels
    <3>1. "sample" \in Labels /\ "partition" \in Labels
      BY DEF Labels
    <3>2. \A s \in Procs \ c : pc'[s] \in Labels
      BY <1>1 DEF Places
    <3> HIDE DEF c
    <3> QED BY <2>1, <3>1, <3>2
  <2>3. pc' \in [Procs -> Labels]
    BY <1>1, <2>2
  <2>4. ASSUME NEW s \in Procs
        PROVE  /\ pc'[s] \in Round \cup {"sample"} => npes'[s] > 1
               /\ pc'[s] \in {"extraSize", "extraData"} => extra_partner(s)'
    <3>1. CASE s \in c
      <4> HIDE DEF c
      <4> QED BY <2>1, <3>1 DEF Round
    <3>2. CASE s \notin c
      <4>1. pc'[s] = pc[s] /\ npes'[s] = npes[s] /\ extra_partner(s)' = extra_partner(s)
        BY <1>1, <1>4, <3>2
      <4> QED BY <4>1 DEF Places
    <3> QED BY <3>1, <3>2
  <2> QED BY <1>1, <2>3, <2>4 DEF Places
<1>8. Values'
  BY <1>1, <1>2 DEF Values, Keys, Messages
<1>9. ASSUME NEW s \in Procs, NEW d \in Procs
      PROVE  /\ s \in c => SentBy(s, d)' = 0 /\ TakenBy(s, d)' = 0
             /\ s \notin c => SentBy(s, d)' = SentBy(s, d) /\ TakenBy(s, d)' = TakenBy(s, d)
                              /\ Told(s, d)' = Told(s, d)
  <2>1. CASE s \in c
    <3>1. pc'[s] = "sample" \/ pc'[s] = "partition"
      BY <1>1, <2>1
    <3> QED BY <2>1, <3>1 DEF SentBy, TakenBy, MainSent, ExtraSent, MainTaken, ExtraTaken
  <2>2. CASE s \notin c
    BY <1>1, <1>2, <1>4, <2>2 DEF SentBy, TakenBy, Told
  <2> QED BY <2>1, <2>2
<1>10. Traffic'
  <2> SUFFICES ASSUME NEW s \in Procs, NEW d \in Procs PROVE Channel(s, d)'
    BY <1>1 DEF Traffic
  <2>1. Channel(s, d) /\ net[s][d] \in Seq(Messages) /\ net'[s][d] = net[s][d]
    BY <1>2 DEF Traffic, Values
  <2>2. CASE s \notin c /\ d \notin c
    <3>1. comm'[s] = comm[s] /\ Owed(s, d)' = Owed(s, d)
      BY <1>1, <1>4, <2>2
    <3>2. /\ SentBy(s, d)' = SentBy(s, d) /\ TakenBy(d, s)' = TakenBy(d, s)
          /\ Told(d, s)' = Told(d, s)
      BY <1>9, <2>2
    <3> HIDE DEF IInv, c
    <3> QED BY <2>1, <3>1, <3>2, ChannelStays
  <2>3. CASE s \in c \/ d \in c
    <3>1. net'[s][d] = <<>>
      BY <1>5, <2>1, <2>3
    <3>2. SentBy(s, d)' = 0 /\ TakenBy(d, s)' = 0
      BY <1>5, <1>9, <2>3
    <3> HIDE DEF IInv, c
    <3> QED BY <3>1, <3>2, ChannelEmpty
  <2> QED BY <2>2, <2>3
<1>11. Sorted'
  <2>1. \A s \in Procs : pc'[s] \notin {"allreduce", "sort"} => pc[s] \notin {"allreduce", "sort"}
    BY <1>1
  <2>2. \A s \in Procs : pc'[s] \in Round => s \notin c
    BY <1>1 DEF Round
  <2> QED BY <1>1, <1>2, <2>1, <2>2 DEF Sorted, Ascending
<1>12. Sides'
  <2> SUFFICES ASSUME NEW s \in Procs
               PROVE  /\ pc'[s] \in Round \ {"exchange"} =>
                           \A w \in Range(rbuff[s]) \cup Range(rbuff_ext[s]) : Side(s, w)'
                      /\ pc'[s] = "split" => \A w \in Range(arr[s]) : Side(s, w)'
                      /\ \A x \in Procs : \A i \in 1..Len(net[x][s]) :
                           net[x][s][i].kind = "data" =>
                             \A w \in Range(net[x][s][i].body) : Side(s, w)'
    BY <1>1, <1>2 DEF Sides
  <2>1. CASE s \in c
    <3>1. pc'[s] \notin Round
      BY <1>1, <2>1 DEF Round
    <3>2. pc'[s] # "split"
      BY <1>1, <2>1
    <3>3. ASSUME NEW x \in Procs PROVE Len(net[x][s]) = 0
      <4>1. net[x][s] = <<>>
        BY <1>5, <2>1
      <4> QED BY <4>1
    <3> QED BY <3>1, <3>2, <3>3
  <2>2. CASE s \notin c
    <3>1. \A w : Side(s, w)' = Side(s, w)
      BY <1>2, <1>4, <2>2 DEF Side
    <3>2. pc'[s] = pc[s]
      BY <1>1, <2>2
    <3> QED BY <3>1, <3>2 DEF Sides
  <2> QED BY <2>1, <2>2
<1>13. Separated'
  <2> SUFFICES ASSUME NEW s \in Procs, NEW t \in Procs, s < t, comm'[s] # comm'[t],
                      NEW x \in Keys, NEW y \in Keys, At(s, x), At(t, y)
               PROVE  x < y
    BY <1>1, <1>2 DEF Separated, At
  <2>1. CASE comm[s] # comm[t]
    BY <2>1 DEF Separated
  <2>2. CASE comm[s] = comm[t]
    <3>1. s \in c /\ t \in c
      <4>1. CASE s \notin c /\ t \notin c
        BY <1>1, <2>2, <4>1
      <4>2. CASE s \in c \/ t \in c
        BY <1>3, <2>2, <4>2, GroupFacts
      <4> QED BY <4>1, <4>2
    <3>2. ~Upper(s) /\ Upper(t)
      <4>1. (Upper(s) <=> s - First(r) > split_id(r)) /\ (Upper(t) <=> t - First(r) > split_id(r))
        <5>1. ASSUME NEW z \in c PROVE Upper(z) <=> z - First(r) > split_id(r)
          <6>1. split_id(z) = split_id(r) /\ z = First(r) + myrank[z] /\ myrank[z] \in Int
            BY SameHalves
          <6>2. First(r) \in Int
            BY GroupFacts
          <6>3. z - First(r) = myrank[z]
            BY <6>1, <6>2
          <6> QED BY <6>1, <6>3 DEF Upper
        <5> QED BY <3>1, <5>1
      <4>2. ~(Upper(s) <=> Upper(t))
        <5>1. (Upper(s) <=> Upper(t)) => Upper(s) = Upper(t)
          BY DEF Upper
        <5>2. /\ comm'[s] = {z \in c : Upper(z) = Upper(s)}
              /\ comm'[t] = {z \in c : Upper(z) = Upper(t)}
          BY <1>1, <3>1
        <5> HIDE DEF c
        <5> QED BY <5>1, <5>2, Zenon
      <4>3. s \in Int /\ t \in Int /\ First(r) \in Int /\ split_id(r) \in Int
        BY GroupFacts, PartnerIs, <1>1 DEF Places, Round
      <4>4. s - First(r) < t - First(r)
        BY <4>3
      <4> QED BY <4>1, <4>2, <4>3, <4>4
    <3>3. ASSUME NEW z \in c, NEW v, At(z, v) PROVE Side(z, v)
      <4>1. pc[z] = "split" /\ pc[z] \in Round \ {"exchange"} /\ z \in Procs
        BY <1>1, <1>3 DEF Round
      <4> QED BY <3>3, <4>1 DEF Sides, At
    <3>4. split[s] = split[t] /\ split[s].key \in Int
      <4>1. pc[s] \in Round
        BY <1>1, <3>1 DEF Round
      <4>2. t \in comm[s]
        BY <1>3, <2>2
      <4> QED BY <4>1, <4>2 DEF Sorted, Values, Keys
    <3>5. x < split[s].key /\ y >= split[s].key
      BY <3>1, <3>2, <3>3, <3>4 DEF Side
    <3> QED BY <3>4, <3>5 DEF Keys
  <2> QED BY <2>1, <2>2
<1> QED BY <1>1, <1>6, <1>7, <1>8, <1>10, <1>11, <1>12, <1>13

----------------------------------------------------------------------------
(* The invariant and what follows from it *)

LEMMA InitInv == Init => IInv
<1> SUFFICES ASSUME Init PROVE IInv
  OBVIOUS
<1>1. PICK input \in Inputs : arr0 = input.arr
  BY DEF Init
<1>2. PICK p \in 1..MaxP : arr0 \in [0..p-1 -> Seq(Nat)]
  BY <1>1, ParametersAssumption
<1>3. p \in Nat \ {0} /\ Procs = 0..p-1
  BY <1>2, ParametersAssumption DEF Procs
<1>4. P = p
  <2>1. Cardinality(0..p-1) = IF 0 > p - 1 THEN 0 ELSE p - 1 - 0 + 1
    <3>1. 0 \in Int /\ p - 1 \in Int
      BY <1>3
    <3> QED BY <3>1, FS_Interval
  <2> QED BY <1>3, <2>1 DEF P
<1>5. /\ pc = [r \in Procs |-> "allreduce"] /\ comm = [r \in Procs |-> Procs]
      /\ npes = [r \in Procs |-> p] /\ myrank = [r \in Procs |-> r] /\ arr = arr0
      /\ split = [r \in Procs |-> NoSplit]
      /\ rsize = [r \in Procs |-> 0] /\ ext_rsize = [r \in Procs |-> 0]
      /\ rbuff = [r \in Procs |-> <<>>] /\ rbuff_ext = [r \in Procs |-> <<>>]
      /\ net = [s \in Procs |-> [d \in Procs |-> <<>>]]
  BY <1>4 DEF Init
<1>6. Numbered
  BY <1>3 DEF Numbered
<1>7. Groups
  <2>1. /\ comm \in [Procs -> SUBSET Procs] /\ npes \in [Procs -> Nat \ {0}]
        /\ myrank \in [Procs -> Nat]
    BY <1>3, <1>5
  <2>2. ASSUME NEW r \in Procs
        PROVE  /\ myrank[r] < npes[r] /\ First(r) = 0 /\ npes[r] = p
               /\ comm[r] = 0..0 + p - 1 /\ comm[r] = Procs
    BY <1>3, <1>5 DEF First
  <2> QED BY <2>1, <2>2 DEF Groups
<1>8. \A r \in Procs : pc[r] = "allreduce" /\ pc[r] \notin Round \cup {"sample"}
  BY <1>5 DEF Round
<1>9. Places
  <2>1. "allreduce" \in Labels
    BY DEF Labels
  <2>2. pc \in [Procs -> Labels]
    BY <1>5, <2>1
  <2> QED BY <1>8, <2>2 DEF Places
<1>10. Values
  <2>1. arr \in [Procs -> Seq(Keys)]
    BY <1>2, <1>3, <1>5 DEF Keys
  <2>2. DOMAIN split = Procs /\ \A r \in Procs : split[r].key \in Keys
    BY <1>5 DEF NoSplit, Keys
  <2>3. <<>> \in Seq(Keys) /\ <<>> \in Seq(Messages)
    OBVIOUS
  <2>4. rbuff \in [Procs -> Seq(Keys)] /\ rbuff_ext \in [Procs -> Seq(Keys)]
    BY <1>5, <2>3
  <2>5. net \in [Procs -> [Procs -> Seq(Messages)]]
    BY <1>5, <2>3
  <2>6. DOMAIN rsize = Procs /\ DOMAIN ext_rsize = Procs
    BY <1>5
  <2> QED BY <2>1, <2>2, <2>4, <2>5, <2>6 DEF Values
<1>11. Traffic
  <2> SUFFICES ASSUME NEW s \in Procs, NEW d \in Procs PROVE Channel(s, d)
    BY DEF Traffic
  <2>1. SentBy(s, d) = 0 /\ TakenBy(d, s) = 0
    BY <1>8 DEF SentBy, TakenBy, MainSent, ExtraSent, MainTaken, ExtraTaken
  <2>2. net[s][d] = <<>>
    BY <1>5
  <2> QED BY <2>1, <2>2 DEF Channel
<1>12. Sorted
  BY <1>8 DEF Sorted
<1>13. Sides
  <2>1. \A r, s \in Procs : Len(net[s][r]) = 0
    BY <1>5
  <2>2. \A r \in Procs : pc[r] \notin Round \ {"exchange"} /\ pc[r] # "split"
    BY <1>8
  <2> QED BY <2>1, <2>2 DEF Sides
<1>14. Separated
  BY <1>5 DEF Separated
<1> QED BY <1>6, <1>7, <1>9, <1>10, <1>11, <1>12, <1>13, <1>14 DEF IInv

LEMMA NextInv == IInv /\ [Next]_vars => IInv'
<1> SUFFICES ASSUME IInv, [Next]_vars PROVE IInv'
  OBVIOUS
<1>1. CASE SumSizes
  BY <1>1, SumSizesStep
<1>2. CASE PartitionW
  BY <1>2, PartitionStep
<1>3. CASE Returned \/ UNCHANGED vars
  BY <1>3, StutterStep DEF Returned
<1>4. CASE \E r \in Procs : Local(r)
  <2>1. PICK r \in Procs : Local(r)
    BY <1>4
  <2>2. CASE LocalSort(r)
    BY <2>2, LocalSortStep
  <2>3. CASE SendSize(r)
    BY <2>3, SendSizeStep
  <2>4. CASE RecvSize(r)
    BY <2>4, RecvSizeStep
  <2>5. CASE RecvExtraSize(r)
    BY <2>5, RecvExtraSizeStep
  <2>6. CASE RecvData(r)
    BY <2>6, RecvDataStep
  <2>7. CASE RecvExtraData(r)
    BY <2>7, RecvExtraDataStep
  <2>8. CASE Merge(r)
    BY <2>8, MergeStep
  <2> QED BY <2>1, <2>2, <2>3, <2>4, <2>5, <2>6, <2>7, <2>8 DEF Local
<1>5. CASE \E r \in Procs : Collective(r)
  BY <1>5, ChooseSplitStep, CommSplitStep DEF Collective
<1> QED BY <1>1, <1>2, <1>3, <1>4, <1>5 DEF Next

LEMMA SeparatedHalves == Numbered /\ Groups /\ Values /\ Separated => HalvesSeparated
<1> SUFFICES ASSUME Values, Separated, NEW r \in Procs, NEW s \in Procs, r < s, comm[r] # comm[s],
                    NEW i \in DOMAIN arr[r], NEW j \in DOMAIN arr[s]
             PROVE  arr[r][i] < arr[s][j]
  BY DEF HalvesSeparated
<1>1. arr[r] \in Seq(Keys) /\ arr[s] \in Seq(Keys)
  BY DEF Values
<1>2. arr[r][i] \in Keys /\ arr[s][j] \in Keys
  BY <1>1
<1>3. At(r, arr[r][i]) /\ At(s, arr[s][j])
  BY DEF At, Range
<1> QED BY <1>2, <1>3 DEF Separated

\* The invariant holds of every reachable state, for every number of processes,
\* every input, with and without rendezvous.
THEOREM Invariance == Spec => []IInv
<1>1. Init => IInv
  BY InitInv
<1>2. IInv /\ [Next]_vars => IInv'
  BY NextInv
<1> QED BY <1>1, <1>2, PTL DEF Spec

\* Whatever the interleaving, npes and myrank, which each process computes for
\* itself (HyperQuickSort's loop), are the size of the communicator that
\* MPI_Comm_split made and its rank in it, and communicators are runs of
\* neighbours.
THEOREM CommunicatorsAlwaysAgree == Spec => []CommunicatorsAgree
<1>1. IInv => CommunicatorsAgree
  BY GroupsAgree DEF IInv
<1> QED BY <1>1, Invariance, PTL

\* No receive of the exchange is matched by the wrong send, although sizes and
\* blocks of both partners go by the same tag and a process may be a round
\* ahead of the others: a size finds a size, a block one of the announced
\* length, and no message outlives its communicator.
THEOREM MessagesAlwaysMatch == Spec => []MessagesMatch
<1>1. IInv => MessagesMatch
  BY TrafficMatches DEF IInv
<1> QED BY <1>1, Invariance, PTL

\* Once two processes are in different communicators, the keys of the lower are
\* below those of the higher, whatever is drawn as split key, from any ties
\* among the keys, and however far the two communicators are apart.
THEOREM HalvesStaySeparated == Spec => []HalvesSeparated
<1>1. IInv => HalvesSeparated
  BY SeparatedHalves DEF IInv
<1> QED BY <1>1, Invariance, PTL

----------------------------------------------------------------------------
(* Sums of sizes *)

LEMMA PartsFinite ==
  ASSUME NEW f, IsFiniteSet(DOMAIN f), \A x \in DOMAIN f : IsFiniteSet(f[x])
  PROVE  IsFiniteSet(UNION {{x} \X f[x] : x \in DOMAIN f}) /\ Together(f) \in Nat
<1> DEFINE g == [x \in DOMAIN f |-> {x} \X f[x]]
           T == {g[x] : x \in DOMAIN f}
<1>1. ASSUME NEW x \in DOMAIN f PROVE IsFiniteSet({x} \X f[x])
  <2>1. IsFiniteSet({x})
    BY FS_Singleton
  <2>2. IsFiniteSet(f[x])
    OBVIOUS
  <2> QED BY <2>1, <2>2, FS_Product
<1>2. IsFiniteSet(T)
  <2>1. g \in Surjection(DOMAIN f, T)
    BY DEF Surjection
  <2> HIDE DEF g, T
  <2> QED BY <2>1, FS_Surjection
<1>3. UNION {{x} \X f[x] : x \in DOMAIN f} = UNION T /\ \A t \in T : IsFiniteSet(t)
  BY <1>1
<1>4. IsFiniteSet(UNION T)
  <2> HIDE DEF T
  <2> QED BY <1>2, <1>3, FS_UNION
<1>5. IsFiniteSet(UNION {{x} \X f[x] : x \in DOMAIN f})
  BY <1>3, <1>4
<1> QED BY <1>5, FS_CardinalityType DEF Together

LEMMA Disjoint ==
  ASSUME NEW A, NEW B, IsFiniteSet(A), IsFiniteSet(B), A \cap B = {}
  PROVE  /\ IsFiniteSet(A \cup B) /\ Cardinality(A \cup B) = Cardinality(A) + Cardinality(B)
         /\ Cardinality(A) \in Nat /\ Cardinality(B) \in Nat
<1>1. /\ IsFiniteSet(A \cup B)
      /\ Cardinality(A \cup B) = Cardinality(A) + Cardinality(B) - Cardinality(A \cap B)
  BY FS_Union
<1>2. Cardinality(A \cap B) = 0
  BY FS_EmptySet
<1>3. Cardinality(A) \in Nat /\ Cardinality(B) \in Nat
  BY FS_CardinalityType
<1> QED BY <1>1, <1>2, <1>3

\* A sum over A and B.
LEMMA TogetherSplits ==
  ASSUME NEW f, NEW A, NEW B, DOMAIN f = A \cup B, A \cap B = {},
         IsFiniteSet(A), IsFiniteSet(B), \A x \in DOMAIN f : IsFiniteSet(f[x])
  PROVE  /\ Together(f) = Together([x \in A |-> f[x]]) + Together([x \in B |-> f[x]])
         /\ Together([x \in A |-> f[x]]) \in Nat /\ Together([x \in B |-> f[x]]) \in Nat
<1> DEFINE g == [x \in A |-> f[x]]  h == [x \in B |-> f[x]]
           G == UNION {{x} \X g[x] : x \in DOMAIN g}
           H == UNION {{x} \X h[x] : x \in DOMAIN h}
           F == UNION {{x} \X f[x] : x \in DOMAIN f}
<1>1. IsFiniteSet(G) /\ Together(g) \in Nat
  <2>1. DOMAIN g = A /\ \A x \in DOMAIN g : IsFiniteSet(g[x])
    OBVIOUS
  <2> HIDE DEF g
  <2> QED BY <2>1, PartsFinite
<1>2. IsFiniteSet(H) /\ Together(h) \in Nat
  <2>1. DOMAIN h = B /\ \A x \in DOMAIN h : IsFiniteSet(h[x])
    OBVIOUS
  <2> HIDE DEF h
  <2> QED BY <2>1, PartsFinite
<1>3. F = G \cup H /\ G \cap H = {}
  OBVIOUS
<1>4. Together(f) = Cardinality(F) /\ Together(g) = Cardinality(G) /\ Together(h) = Cardinality(H)
  BY DEF Together
<1> HIDE DEF F, G, H, g, h
<1>5. Cardinality(F) = Cardinality(G) + Cardinality(H)
  BY <1>1, <1>2, <1>3, Disjoint
<1> QED BY <1>1, <1>2, <1>4, <1>5 DEF g, h

LEMMA TogetherOne ==
  ASSUME NEW f, NEW r, DOMAIN f = {r}, IsFiniteSet(f[r])
  PROVE  Together(f) = Cardinality(f[r]) /\ Cardinality(f[r]) \in Nat
<1> DEFINE T == f[r]
<1>1. UNION {{x} \X f[x] : x \in DOMAIN f} = {r} \X T
  OBVIOUS
<1>2. IsFiniteSet({r}) /\ Cardinality({r}) = 1
  BY FS_Singleton
<1>3. IsFiniteSet(T) /\ Cardinality(T) \in Nat
  BY FS_CardinalityType
<1>4. Together(f) = Cardinality({r} \X T)
  BY <1>1 DEF Together
<1> HIDE DEF T
<1>5. Cardinality({r} \X T) = 1 * Cardinality(T)
  BY <1>2, <1>3, FS_Product
<1> QED BY <1>3, <1>4, <1>5 DEF T

LEMMA TogetherNone ==
  ASSUME NEW f, \A x \in DOMAIN f : f[x] = {}
  PROVE  Together(f) = 0
<1>1. UNION {{x} \X f[x] : x \in DOMAIN f} = {}
  OBVIOUS
<1> QED BY <1>1, FS_EmptySet DEF Together

\* the part of a sum that x has
Part(f, x) == IF x \in DOMAIN f THEN Cardinality(f[x]) ELSE 0

\* f and g are the parts of two sums, which differ in those of D only
Differ(f, g, D) ==
  /\ DOMAIN g = DOMAIN f /\ IsFiniteSet(DOMAIN f)
  /\ \A x \in DOMAIN f : IsFiniteSet(f[x]) /\ IsFiniteSet(g[x])
  /\ \A x \in DOMAIN f \ D : g[x] = f[x]

LEMMA TogetherMoves ==
  ASSUME NEW f, NEW g, NEW a, Differ(f, g, {a})
  PROVE  /\ Together(f) + Part(g, a) = Together(g) + Part(f, a)
         /\ Together(f) \in Nat /\ Together(g) \in Nat /\ Part(f, a) \in Nat /\ Part(g, a) \in Nat
<1> DEFINE S == DOMAIN f
<1>1. /\ IsFiniteSet(S) /\ DOMAIN f = S /\ DOMAIN g = S
      /\ \A x \in S : IsFiniteSet(f[x]) /\ IsFiniteSet(g[x])
      /\ \A x \in S \ {a} : g[x] = f[x]
  BY DEF Differ
<1> HIDE DEF S
<1>2. Together(f) \in Nat /\ Together(g) \in Nat
  BY <1>1, PartsFinite
<1>3. CASE a \notin S
  <2>1. UNION {{x} \X f[x] : x \in S} = UNION {{x} \X g[x] : x \in S}
    BY <1>1, <1>3
  <2> QED BY <1>1, <1>2, <1>3, <2>1 DEF Together, Part
<1>4. CASE a \in S
  <2> DEFINE R == S \ {a}
             f1 == [x \in R |-> f[x]]  f2 == [x \in {a} |-> f[x]]
             g1 == [x \in R |-> g[x]]  g2 == [x \in {a} |-> g[x]]
  <2>1. IsFiniteSet(R) /\ IsFiniteSet({a}) /\ S = R \cup {a} /\ R \cap {a} = {}
    <3>1. IsFiniteSet(S \ {a})
      BY <1>1, FS_RemoveElement
    <3>2. IsFiniteSet({a})
      BY FS_Singleton
    <3> QED BY <1>4, <3>1, <3>2
  <2>2. f1 = g1
    BY <1>1
  <2>3. /\ DOMAIN f2 = {a} /\ f2[a] = f[a] /\ IsFiniteSet(f2[a])
        /\ DOMAIN g2 = {a} /\ g2[a] = g[a] /\ IsFiniteSet(g2[a])
    BY <1>1, <1>4
  <2>4. /\ Together(f) = Together(f1) + Together(f2)
        /\ Together(f1) \in Nat
    <3> HIDE DEF R
    <3> QED BY <1>1, <2>1, TogetherSplits
  <2>5. Together(g) = Together(g1) + Together(g2)
    <3> HIDE DEF R
    <3> QED BY <1>1, <2>1, TogetherSplits
  <2> HIDE DEF f1, f2, g1, g2
  <2>6. /\ Together(f2) = Cardinality(f2[a]) /\ Cardinality(f2[a]) \in Nat
        /\ Together(g2) = Cardinality(g2[a]) /\ Cardinality(g2[a]) \in Nat
    BY <2>3, TogetherOne
  <2>7. Part(f, a) = Cardinality(f2[a]) /\ Part(g, a) = Cardinality(g2[a])
    BY <1>1, <1>4, <2>3 DEF Part
  <2> QED BY <1>2, <2>2, <2>4, <2>5, <2>6, <2>7
<1> QED BY <1>3, <1>4

LEMMA TogetherMovesTwo ==
  ASSUME NEW f, NEW g, NEW a, NEW b, a # b, Differ(f, g, {a, b})
  PROVE  /\ Together(f) + Part(g, a) + Part(g, b) = Together(g) + Part(f, a) + Part(f, b)
         /\ Together(f) \in Nat /\ Together(g) \in Nat /\ Part(f, a) \in Nat /\ Part(g, a) \in Nat
         /\ Part(f, b) \in Nat /\ Part(g, b) \in Nat
<1> DEFINE h == [x \in DOMAIN f |-> IF x = a THEN g[x] ELSE f[x]]
<1>1. /\ Differ(f, h, {a}) /\ Differ(h, g, {b})
      /\ DOMAIN h = DOMAIN f /\ DOMAIN g = DOMAIN f
      /\ a \in DOMAIN f => h[a] = g[a]
      /\ b \in DOMAIN f => h[b] = f[b]
  BY DEF Differ
<1> HIDE DEF h
<1>2. Part(h, a) = Part(g, a) /\ Part(h, b) = Part(f, b)
  BY <1>1 DEF Part
<1>3. /\ Together(f) + Part(h, a) = Together(h) + Part(f, a)
      /\ Together(f) \in Nat /\ Together(h) \in Nat /\ Part(f, a) \in Nat /\ Part(h, a) \in Nat
  BY <1>1, TogetherMoves
<1>4. /\ Together(h) + Part(g, b) = Together(g) + Part(h, b)
      /\ Together(g) \in Nat /\ Part(h, b) \in Nat /\ Part(g, b) \in Nat
  BY <1>1, TogetherMoves
<1> QED BY <1>2, <1>3, <1>4

----------------------------------------------------------------------------
(* How many keys there are *)

Size(s, K) == Cardinality(Where(s, K))

LEMMA SizeIs ==
  ASSUME NEW s \in Seq(Keys), NEW K
  PROVE  IsFiniteSet(Where(s, K)) /\ Size(s, K) \in Nat
<1>1. IsFiniteSet(1..Len(s))
  <2>1. 1 \in Int /\ Len(s) \in Int
    OBVIOUS
  <2> QED BY <2>1, FS_Interval
<1>2. Where(s, K) \in SUBSET (1..Len(s))
  BY DEF Where
<1>3. IsFiniteSet(Where(s, K))
  BY <1>1, <1>2, FS_Subset
<1> QED BY <1>3, FS_CardinalityType DEF Size

LEMMA SizeOfNone == \A K : Where(<<>>, K) = {} /\ Size(<<>>, K) = 0
<1>1. \A K : Where(<<>>, K) = {}
  BY DEF Where
<1> QED BY <1>1, FS_EmptySet DEF Size

\* Positions n further on.
LEMMA Shifted ==
  ASSUME NEW S, S \subseteq Int, IsFiniteSet(S), NEW n \in Int
  PROVE  IsFiniteSet({n + i : i \in S}) /\ Cardinality({n + i : i \in S}) = Cardinality(S)
<1> DEFINE T == {n + i : i \in S}
           g == [i \in S |-> n + i]
<1>1. g \in Surjection(S, T)
  BY DEF Surjection
<1>2. g \in Injection(S, T)
  BY DEF Injection, IsInjective
<1>3. g \in Bijection(S, T)
  BY <1>1, <1>2 DEF Bijection
<1>4. ExistsBijection(S, T)
  BY <1>3 DEF ExistsBijection
<1> HIDE DEF T, g
<1>5. IsFiniteSet(T) /\ Cardinality(T) = Cardinality(S)
  BY <1>4, FS_Bijection
<1> QED BY <1>5 DEF T

LEMMA SizeOfConcat ==
  ASSUME NEW s \in Seq(Keys), NEW t \in Seq(Keys), NEW K
  PROVE  s \o t \in Seq(Keys) /\ Size(s \o t, K) = Size(s, K) + Size(t, K)
<1> DEFINE n == Len(s)
           A == Where(s, K)
           B == Where(t, K)
           C == {n + i : i \in B}
<1>1. /\ n \in Nat /\ s \o t \in Seq(Keys) /\ Len(s \o t) = n + Len(t)
      /\ \A i \in 1..n : (s \o t)[i] = s[i]
      /\ \A i \in 1..Len(t) : (s \o t)[n + i] = t[i]
  OBVIOUS
<1>2. Where(s \o t, K) = A \cup C
  <2>1. ASSUME NEW i \in Where(s \o t, K) PROVE i \in A \cup C
    <3>1. i \in 1..n + Len(t) /\ (s \o t)[i] \in K
      BY <1>1 DEF Where
    <3>2. CASE i <= n
      BY <1>1, <3>1, <3>2 DEF Where
    <3>3. CASE ~(i <= n)
      <4>1. i - n \in 1..Len(t) /\ i = n + (i - n)
        BY <1>1, <3>1, <3>3
      <4>2. t[i - n] \in K
        BY <1>1, <3>1, <4>1
      <4>3. i - n \in B
        BY <4>1, <4>2 DEF Where
      <4> QED BY <4>1, <4>3
    <3> QED BY <3>2, <3>3
  <2>2. A \subseteq Where(s \o t, K)
    BY <1>1 DEF Where
  <2>3. ASSUME NEW i \in B PROVE n + i \in Where(s \o t, K)
    <3>1. i \in 1..Len(t) /\ t[i] \in K
      BY DEF Where
    <3> QED BY <1>1, <3>1 DEF Where
  <2> QED BY <2>1, <2>2, <2>3
<1>3. /\ IsFiniteSet(A) /\ IsFiniteSet(B) /\ A \subseteq 1..n /\ B \subseteq 1..Len(t)
      /\ Cardinality(A) = Size(s, K) /\ Cardinality(B) = Size(t, K)
  <2>1. A \subseteq 1..n /\ B \subseteq 1..Len(t)
    BY DEF Where
  <2> QED BY <2>1, SizeIs DEF Size
<1>4. Size(s \o t, K) = Cardinality(A \cup C)
  BY <1>2 DEF Size
<1> HIDE DEF A, B, n
<1>5. IsFiniteSet(C) /\ Cardinality(C) = Cardinality(B)
  <2>1. B \subseteq Int /\ n \in Int
    BY <1>1, <1>3
  <2> QED BY <1>3, <2>1, Shifted
<1>6. A \cap C = {}
  BY <1>1, <1>3
<1> HIDE DEF C
<1>7. Cardinality(A \cup C) = Cardinality(A) + Cardinality(C)
  BY <1>3, <1>5, <1>6, Disjoint
<1> QED BY <1>1, <1>3, <1>4, <1>5, <1>7

\* The two parts of a block.
LEMMA SizeOfCut ==
  ASSUME NEW a \in Seq(Keys), NEW m \in 0..Len(a), NEW K
  PROVE  Size(a, K) = Size(SubSeq(a, 1, m), K) + Size(SubSeq(a, m+1, Len(a)), K)
<1> DEFINE s == SubSeq(a, 1, m)
           t == SubSeq(a, m+1, Len(a))
<1>1. /\ s \in Seq(Keys) /\ Len(s) = m
      /\ \A i \in 1..m : s[i] = a[i]
  OBVIOUS
<1>2. /\ t \in Seq(Keys) /\ Len(t) = Len(a) - m
      /\ \A i \in 1..Len(a) - m : t[i] = a[m + i]
  OBVIOUS
<1>3. s \o t = a
  <2> HIDE DEF s, t
  <2>1. /\ s \o t \in Seq(Keys) /\ Len(s \o t) = Len(s) + Len(t)
        /\ \A i \in 1..Len(s) : (s \o t)[i] = s[i]
        /\ \A i \in 1..Len(t) : (s \o t)[Len(s) + i] = t[i]
    BY <1>1, <1>2
  <2>2. Len(s \o t) = Len(a)
    BY <1>1, <1>2, <2>1
  <2>3. \A i \in 1..Len(a) : (s \o t)[i] = a[i]
    <3> SUFFICES ASSUME NEW i \in 1..Len(a) PROVE (s \o t)[i] = a[i]
      OBVIOUS
    <3>1. CASE i <= m
      BY <1>1, <2>1, <3>1
    <3>2. CASE ~(i <= m)
      <4>1. i - m \in 1..Len(a) - m /\ i = m + (i - m)
        BY <3>2
      <4>2. t[i - m] = a[m + (i - m)]
        BY <1>2, <4>1
      <4>3. (s \o t)[m + (i - m)] = t[i - m]
        BY <1>1, <1>2, <2>1, <4>1
      <4> QED BY <4>1, <4>2, <4>3
    <3> QED BY <3>1, <3>2
  <2> QED BY <2>1, <2>2, <2>3, SeqEqual
<1> HIDE DEF s, t
<1>4. Size(s \o t, K) = Size(s, K) + Size(t, K)
  BY <1>1, <1>2, SizeOfConcat
<1> QED BY <1>3, <1>4 DEF s, t

\* Sorting and merging keep every key, and how many there are.
LEMMA SortedSizes ==
  ASSUME NEW s \in Seq(Int), NEW t \in SortedCopies(s)
  PROVE  /\ \A v \in Int : Size(t, {v}) = Size(s, {v})
         /\ Size(t, Keys) = Size(s, Keys)
<1>1. /\ t \in Seq(Int) /\ Range(t) \subseteq Range(s) /\ Len(t) = Len(s)
  <2>1. t \in [1..Len(s) -> Range(s)] /\ Range(s) \subseteq Int
    BY DEF SortedCopies, Range
  <2>2. t \in Seq(Int) /\ Len(t) = Len(s)
    BY <2>1
  <2> QED BY <2>1, <2>2 DEF Range
<1>2. ASSUME NEW v \in Int PROVE Size(t, {v}) = Size(s, {v})
  <2>1. /\ Where(t, {v}) = {i \in 1..Len(s) : t[i] = v}
        /\ Where(s, {v}) = {i \in 1..Len(s) : s[i] = v}
    BY <1>1 DEF Where
  <2>2. CASE v \in Range(s)
    BY <2>1, <2>2 DEF SortedCopies, Size
  <2>3. CASE v \notin Range(s)
    <3>1. \A i \in 1..Len(s) : s[i] # v /\ t[i] # v
      <4>1. DOMAIN s = 1..Len(s) /\ DOMAIN t = 1..Len(s)
        BY <1>1
      <4> QED BY <1>1, <2>3, <4>1 DEF Range
    <3>2. Where(t, {v}) = {} /\ Where(s, {v}) = {}
      BY <2>1, <3>1
    <3> QED BY <3>2 DEF Size
  <2> QED BY <2>2, <2>3
<1>3. Where(t, Keys) = 1..Len(s) /\ Where(s, Keys) = 1..Len(s)
  BY <1>1 DEF Where, Keys
<1> QED BY <1>2, <1>3 DEF Size

\* All of a block is in K, or nothing.
LEMMA SizeOfWhole ==
  ASSUME NEW s \in Seq(Keys), NEW K
  PROVE  /\ (\A v \in Range(s) : v \in K) => Where(s, K) = Where(s, Keys) /\ Size(s, K) = Size(s, Keys)
         /\ (\A v \in Range(s) : v \notin K) => Where(s, K) = {} /\ Size(s, K) = 0
<1>1. (\A v \in Range(s) : v \in K) => Where(s, K) = Where(s, Keys)
  BY DEF Where, Range
<1>2. (\A v \in Range(s) : v \notin K) => Where(s, K) = {}
  BY DEF Where, Range
<1> QED BY <1>1, <1>2, FS_EmptySet DEF Size

\* What is on a channel.
LEMMA SentFinite ==
  ASSUME NEW M, \A m \in M : m.body \in Seq(Keys), NEW q \in Seq(M), NEW K
  PROVE  IsFiniteSet(WhereSent(q, K))
<1> DEFINE D == {j \in DOMAIN q : q[j].kind = "data"}
           f == [i \in D |-> Where(q[i].body, K)]
<1>1. IsFiniteSet(D)
  <2>1. 1 \in Int /\ Len(q) \in Int
    OBVIOUS
  <2>2. IsFiniteSet(1..Len(q))
    BY <2>1, FS_Interval
  <2>3. D \in SUBSET (1..Len(q))
    OBVIOUS
  <2> HIDE DEF D
  <2> QED BY <2>2, <2>3, FS_Subset
<1>2. ASSUME NEW i \in D PROVE IsFiniteSet(f[i])
  <2>1. q[i].body \in Seq(Keys)
    OBVIOUS
  <2>2. IsFiniteSet(Where(q[i].body, K))
    BY <2>1, SizeIs
  <2> QED BY <2>2
<1>3. DOMAIN f = D /\ WhereSent(q, K) = UNION {{x} \X f[x] : x \in DOMAIN f}
  BY DEF WhereSent
<1> HIDE DEF f, D
<1> QED BY <1>1, <1>2, <1>3, PartsFinite

\* what a message carries
Carried(m, K) == IF m.kind = "data" THEN Size(m.body, K) ELSE 0

LEMMA Tagged ==
  ASSUME NEW i, NEW T, IsFiniteSet(T)
  PROVE  IsFiniteSet({i} \X T) /\ Cardinality({i} \X T) = Cardinality(T) /\ Cardinality(T) \in Nat
<1>1. IsFiniteSet({i}) /\ Cardinality({i}) = 1
  BY FS_Singleton
<1>2. IsFiniteSet(T) /\ Cardinality(T) \in Nat
  BY FS_CardinalityType
<1>3. IsFiniteSet({i} \X T) /\ Cardinality({i} \X T) = 1 * Cardinality(T)
  BY <1>1, <1>2, FS_Product
<1> QED BY <1>2, <1>3

LEMMA SentMember ==
  ASSUME NEW q, NEW K, NEW z
  PROVE  z \in WhereSent(q, K)
           <=> \E i \in DOMAIN q : q[i].kind = "data" /\ z \in {i} \X Where(q[i].body, K)
BY DEF WhereSent

\* messages whose bodies are keys
Bodied(M) == \A m \in M : m.body \in Seq(Keys)

LEMMA SentAppends ==
  ASSUME NEW M, Bodied(M), NEW q \in Seq(M), NEW m \in M, NEW K
  PROVE  Cardinality(WhereSent(Append(q, m), K)) = Cardinality(WhereSent(q, K)) + Carried(m, K)
<1> DEFINE n == Len(q)
           B == {n + 1} \X Where(m.body, K)
<1>1. /\ n \in Nat /\ DOMAIN Append(q, m) = 1..n+1 /\ DOMAIN q = 1..n
      /\ Append(q, m)[n+1] = m /\ \A i \in 1..n : Append(q, m)[i] = q[i]
  OBVIOUS
<1>2. m.body \in Seq(Keys)
  BY DEF Bodied
<1>3. IsFiniteSet(WhereSent(q, K))
  BY SentFinite DEF Bodied
<1>4. Cardinality(WhereSent(q, K)) \in Nat
  BY <1>3, FS_CardinalityType
<1>5. CASE m.kind = "data"
  <2>1. WhereSent(Append(q, m), K) = WhereSent(q, K) \cup B
    <3> SUFFICES ASSUME NEW z
                 PROVE  z \in WhereSent(Append(q, m), K) <=> z \in WhereSent(q, K) \/ z \in B
      OBVIOUS
    <3> DEFINE In(i) == Append(q, m)[i].kind = "data" /\ z \in {i} \X Where(Append(q, m)[i].body, K)
               Was(i) == q[i].kind = "data" /\ z \in {i} \X Where(q[i].body, K)
    <3>1. z \in WhereSent(Append(q, m), K) <=> \E i \in 1..n+1 : In(i)
      BY <1>1, SentMember
    <3>2. z \in WhereSent(q, K) <=> \E i \in 1..n : Was(i)
      BY <1>1, SentMember
    <3>3. \A i \in 1..n : In(i) <=> Was(i)
      BY <1>1
    <3>4. In(n + 1) <=> z \in B
      BY <1>1, <1>5
    <3> HIDE DEF In, Was, B
    <3>5. \A i \in 1..n+1 : i \in 1..n \/ i = n + 1
      BY <1>1
    <3>6. n + 1 \in 1..n+1 /\ \A i \in 1..n : i \in 1..n+1
      BY <1>1
    <3> HIDE DEF n
    <3> QED BY <3>1, <3>2, <3>3, <3>4, <3>5, <3>6
  <2>2. WhereSent(q, K) \cap B = {}
    BY <1>1 DEF WhereSent
  <2>3. IsFiniteSet(B) /\ Cardinality(B) = Size(m.body, K)
    <3>1. IsFiniteSet(Where(m.body, K))
      BY <1>2, SizeIs
    <3> QED BY <3>1, Tagged DEF Size
  <2> HIDE DEF B
  <2>4. Cardinality(WhereSent(q, K) \cup B) = Cardinality(WhereSent(q, K)) + Cardinality(B)
    BY <1>3, <2>2, <2>3, Disjoint
  <2> QED BY <1>5, <2>1, <2>3, <2>4 DEF Carried
<1>6. CASE m.kind # "data"
  <2>1. {j \in DOMAIN Append(q, m) : Append(q, m)[j].kind = "data"}
          = {j \in DOMAIN q : q[j].kind = "data"}
    BY <1>1, <1>6
  <2>2. \A i \in {j \in DOMAIN q : q[j].kind = "data"} : Append(q, m)[i] = q[i]
    BY <1>1
  <2>3. WhereSent(Append(q, m), K) = WhereSent(q, K)
    BY <2>1, <2>2 DEF WhereSent
  <2> QED BY <1>4, <1>6, <2>3 DEF Carried
<1> QED BY <1>5, <1>6

LEMMA SentOne ==
  ASSUME NEW q, NEW K, NEW i, {j \in DOMAIN q : q[j].kind = "data"} = {i}, q[i].body \in Seq(Keys)
  PROVE  Cardinality(WhereSent(q, K)) = Size(q[i].body, K)
<1>1. WhereSent(q, K) = {i} \X Where(q[i].body, K)
  BY DEF WhereSent
<1>2. IsFiniteSet(Where(q[i].body, K))
  BY SizeIs
<1> QED BY <1>1, <1>2, Tagged DEF Size

LEMMA SentNone ==
  ASSUME NEW q, NEW K, {j \in DOMAIN q : q[j].kind = "data"} = {}
  PROVE  WhereSent(q, K) = {} /\ Cardinality(WhereSent(q, K)) = 0
<1>1. WhereSent(q, K) = {}
  BY DEF WhereSent
<1> QED BY <1>1, FS_EmptySet

\* The first message of a channel is taken from it.
SizeFirst(q) ==
  /\ Len(q) \in {1, 2} /\ (q[1].kind = "data" => Len(q) = 1)
  /\ Len(q) = 2 => q[2].kind = "data"

LEMMA SentTakes ==
  ASSUME NEW M, \A m \in M : m.body \in Seq(Keys), NEW q \in Seq(M), SizeFirst(q), NEW K
  PROVE  /\ Cardinality(WhereSent(q, K)) = Cardinality(WhereSent(Tail(q), K)) + Carried(Head(q), K)
         /\ Cardinality(WhereSent(Tail(q), K)) \in Nat /\ Carried(Head(q), K) \in Nat
<1> DEFINE t == Tail(q)
<1>1. /\ Len(q) \in {1, 2} /\ (q[1].kind = "data" => Len(q) = 1)
      /\ Len(q) = 2 => q[2].kind = "data"
  BY DEF SizeFirst
<1>2. /\ Head(q) = q[1] /\ DOMAIN q = 1..Len(q) /\ q[1] \in M
      /\ Len(t) = Len(q) - 1 /\ DOMAIN t = 1..Len(t)
      /\ Len(q) = 2 => q[2] \in M /\ t[1] = q[2]
  BY <1>1
<1>3. q[1].body \in Seq(Keys) /\ (Len(q) = 2 => q[2].body \in Seq(Keys))
  BY <1>2
<1>4. /\ Size(q[1].body, K) \in Nat
      /\ Len(q) = 2 => Size(q[2].body, K) \in Nat
  BY <1>3, SizeIs
<1> HIDE DEF t
<1>5. CASE Len(q) = 1
  <2>1. DOMAIN q = {1} /\ DOMAIN t = {}
    BY <1>2, <1>5
  <2>2. Cardinality(WhereSent(t, K)) = 0
    BY <2>1, SentNone
  <2>3. CASE q[1].kind = "data"
    <3>1. {j \in DOMAIN q : q[j].kind = "data"} = {1}
      BY <2>1, <2>3
    <3>2. Cardinality(WhereSent(q, K)) = Size(q[1].body, K)
      BY <1>3, <3>1, SentOne
    <3> QED BY <1>2, <1>4, <2>2, <2>3, <3>2 DEF Carried, t
  <2>4. CASE q[1].kind # "data"
    <3>1. {j \in DOMAIN q : q[j].kind = "data"} = {}
      BY <2>1, <2>4
    <3>2. Cardinality(WhereSent(q, K)) = 0
      BY <3>1, SentNone
    <3> QED BY <1>2, <2>2, <2>4, <3>2 DEF Carried, t
  <2> QED BY <2>3, <2>4
<1>6. CASE Len(q) = 2
  <2>1. /\ DOMAIN q = {1, 2} /\ DOMAIN t = {1} /\ t[1] = q[2]
        /\ q[1].kind # "data" /\ q[2].kind = "data"
    BY <1>1, <1>2, <1>6
  <2>2. /\ {j \in DOMAIN q : q[j].kind = "data"} = {2}
        /\ {j \in DOMAIN t : t[j].kind = "data"} = {1}
    BY <2>1
  <2>3. q[2].body \in Seq(Keys) /\ t[1].body = q[2].body
    BY <1>3, <1>6, <2>1
  <2>4. Cardinality(WhereSent(q, K)) = Size(q[2].body, K)
    BY <2>2, <2>3, SentOne
  <2>5. Cardinality(WhereSent(t, K)) = Size(t[1].body, K)
    BY <2>2, <2>3, SentOne
  <2>6. Size(q[2].body, K) \in Nat
    BY <1>4, <1>6
  <2> QED BY <1>2, <2>1, <2>3, <2>4, <2>5, <2>6 DEF Carried, t
<1> QED BY <1>1, <1>5, <1>6

\* how many of the keys K the processes c hold, or have on their way between them
HeldSum(c, K, held) == Together([s \in c |-> Where(held[s], K)])
SentSum(c, K, chan) == Together([e \in c \X c |-> WhereSent(chan[e[1]][e[2]], K)])
Total(c, K, held, chan) == HeldSum(c, K, held) + SentSum(c, K, chan)

Tally(x, c, k) == IF x \in c THEN k ELSE 0

\* only r changes what it holds
HeldStep(c, h, h1, r) ==
  /\ IsFiniteSet(c)
  /\ \A s \in c \cup {r} : h[s] \in Seq(Keys) /\ h1[s] \in Seq(Keys)
  /\ \A s \in c \ {r} : h1[s] = h[s]

LEMMA HeldMoves ==
  ASSUME NEW c, NEW K, NEW h, NEW h1, NEW r, HeldStep(c, h, h1, r)
  PROVE  /\ HeldSum(c, K, h) + Tally(r, c, Size(h1[r], K))
              = HeldSum(c, K, h1) + Tally(r, c, Size(h[r], K))
         /\ HeldSum(c, K, h) \in Nat /\ HeldSum(c, K, h1) \in Nat
         /\ Size(h[r], K) \in Nat /\ Size(h1[r], K) \in Nat
<1> DEFINE f == [s \in c |-> Where(h[s], K)]   f1 == [s \in c |-> Where(h1[s], K)]
<1>1. Differ(f, f1, {r})
  <2>1. ASSUME NEW x \in c PROVE IsFiniteSet(f[x]) /\ IsFiniteSet(f1[x])
    <3>1. h[x] \in Seq(Keys) /\ h1[x] \in Seq(Keys)
      BY DEF HeldStep
    <3>2. IsFiniteSet(Where(h[x], K)) /\ IsFiniteSet(Where(h1[x], K))
      BY <3>1, SizeIs
    <3> QED BY <3>2
  <2> QED BY <2>1 DEF Differ, HeldStep
<1>2. Part(f, r) = Tally(r, c, Size(h[r], K)) /\ Part(f1, r) = Tally(r, c, Size(h1[r], K))
  BY DEF Part, Tally, Size
<1>3. Size(h[r], K) \in Nat /\ Size(h1[r], K) \in Nat
  <2>1. h[r] \in Seq(Keys) /\ h1[r] \in Seq(Keys)
    BY DEF HeldStep
  <2> QED BY <2>1, SizeIs
<1> HIDE DEF f, f1
<1>4. /\ Together(f) + Part(f1, r) = Together(f1) + Part(f, r)
      /\ Together(f) \in Nat /\ Together(f1) \in Nat
  BY <1>1, TogetherMoves
<1>5. Together(f) = HeldSum(c, K, h) /\ Together(f1) = HeldSum(c, K, h1)
  BY DEF f, f1, HeldSum
<1> QED BY <1>2, <1>3, <1>4, <1>5

\* r takes got of the keys K from the channel from `from', and puts sent on
\* the one to `to'
NetStep(c, K, n, n1, r, from, to, got, sent) ==
  /\ IsFiniteSet(c) /\ from # r /\ to # r /\ got \in Nat /\ sent \in Nat
  /\ \A s, d \in c : IsFiniteSet(WhereSent(n[s][d], K)) /\ IsFiniteSet(WhereSent(n1[s][d], K))
  /\ \A s, d \in c : ~(s = from /\ d = r) /\ ~(s = r /\ d = to) => n1[s][d] = n[s][d]
  /\ r \in c /\ from \in c => Cardinality(WhereSent(n[from][r], K))
                                = Cardinality(WhereSent(n1[from][r], K)) + got
  /\ r \in c /\ to \in c => Cardinality(WhereSent(n1[r][to], K))
                              = Cardinality(WhereSent(n[r][to], K)) + sent
  /\ r \in c /\ from \notin c => got = 0
  /\ r \in c /\ to \notin c => sent = 0

LEMMA SentMoves ==
  ASSUME NEW c, NEW K, NEW n, NEW n1, NEW r, NEW from, NEW to, NEW got, NEW sent,
         NetStep(c, K, n, n1, r, from, to, got, sent)
  PROVE  /\ SentSum(c, K, n) + Tally(r, c, sent) = SentSum(c, K, n1) + Tally(r, c, got)
         /\ SentSum(c, K, n) \in Nat /\ SentSum(c, K, n1) \in Nat
<1> DEFINE E == c \X c
           g == [e \in E |-> WhereSent(n[e[1]][e[2]], K)]
           g1 == [e \in E |-> WhereSent(n1[e[1]][e[2]], K)]
           a == <<from, r>>   b == <<r, to>>
<1>1. IsFiniteSet(E)
  <2>1. IsFiniteSet(c)
    BY DEF NetStep
  <2> QED BY <2>1, FS_Product
<1>2. \A x \in E : x[1] \in c /\ x[2] \in c /\ x = <<x[1], x[2]>>
  OBVIOUS
<1>3. Differ(g, g1, {a, b}) /\ DOMAIN g = E /\ DOMAIN g1 = E
  <2>1. ASSUME NEW x \in E \ {a, b} PROVE g1[x] = g[x]
    <3>1. ~(x[1] = from /\ x[2] = r) /\ ~(x[1] = r /\ x[2] = to)
      BY <1>2
    <3>2. n1[x[1]][x[2]] = n[x[1]][x[2]]
      BY <1>2, <3>1 DEF NetStep
    <3> QED BY <3>2
  <2>2. \A x \in E : IsFiniteSet(g[x]) /\ IsFiniteSet(g1[x])
    BY <1>2 DEF NetStep
  <2>3. DOMAIN g = E /\ DOMAIN g1 = E
    OBVIOUS
  <2> HIDE DEF g, g1, E, a, b
  <2> QED BY <1>1, <2>1, <2>2, <2>3 DEF Differ
<1>4. a # b
  BY DEF NetStep
<1>5. got \in Nat /\ sent \in Nat
  BY DEF NetStep
<1>6. Part(g, a) = Part(g1, a) + Tally(r, c, got) /\ Part(g, a) \in Nat /\ Part(g1, a) \in Nat
  <2>1. CASE from \in c /\ r \in c
    <3>1. a \in E /\ g[a] = WhereSent(n[from][r], K) /\ g1[a] = WhereSent(n1[from][r], K)
      BY <2>1
    <3>2. Cardinality(WhereSent(n[from][r], K)) = Cardinality(WhereSent(n1[from][r], K)) + got
      BY <2>1 DEF NetStep
    <3>3. Cardinality(g[a]) \in Nat /\ Cardinality(g1[a]) \in Nat
      <4>1. IsFiniteSet(g[a]) /\ IsFiniteSet(g1[a])
        BY <1>3, <3>1 DEF Differ
      <4> HIDE DEF g, g1, a
      <4> QED BY <4>1, FS_CardinalityType
    <3> HIDE DEF g, g1, a, E
    <3> QED BY <1>3, <2>1, <3>1, <3>2, <3>3 DEF Part, Tally
  <2>2. CASE ~(from \in c /\ r \in c)
    <3>1. a \notin E
      BY <2>2
    <3>2. Tally(r, c, got) = 0
      BY <2>2 DEF Tally, NetStep
    <3> HIDE DEF g, g1, a, E
    <3> QED BY <1>3, <3>1, <3>2 DEF Part
  <2> QED BY <2>1, <2>2
<1>7. Part(g1, b) = Part(g, b) + Tally(r, c, sent) /\ Part(g, b) \in Nat /\ Part(g1, b) \in Nat
  <2>1. CASE to \in c /\ r \in c
    <3>1. b \in E /\ g[b] = WhereSent(n[r][to], K) /\ g1[b] = WhereSent(n1[r][to], K)
      BY <2>1
    <3>2. Cardinality(WhereSent(n1[r][to], K)) = Cardinality(WhereSent(n[r][to], K)) + sent
      BY <2>1 DEF NetStep
    <3>3. Cardinality(g[b]) \in Nat /\ Cardinality(g1[b]) \in Nat
      <4>1. IsFiniteSet(g[b]) /\ IsFiniteSet(g1[b])
        BY <1>3, <3>1 DEF Differ
      <4> HIDE DEF g, g1, b
      <4> QED BY <4>1, FS_CardinalityType
    <3> HIDE DEF g, g1, b, E
    <3> QED BY <1>3, <2>1, <3>1, <3>2, <3>3 DEF Part, Tally
  <2>2. CASE ~(to \in c /\ r \in c)
    <3>1. b \notin E
      BY <2>2
    <3>2. Tally(r, c, sent) = 0
      BY <2>2 DEF Tally, NetStep
    <3> HIDE DEF g, g1, b, E
    <3> QED BY <1>3, <3>1, <3>2 DEF Part
  <2> QED BY <2>1, <2>2
<1> HIDE DEF g, g1, a, b, E
<1>8. /\ Together(g) + Part(g1, a) + Part(g1, b) = Together(g1) + Part(g, a) + Part(g, b)
      /\ Together(g) \in Nat /\ Together(g1) \in Nat
  BY <1>3, <1>4, TogetherMovesTwo
<1>9. Tally(r, c, got) \in Nat /\ Tally(r, c, sent) \in Nat
  BY <1>5 DEF Tally
<1>10. Together(g) + Tally(r, c, sent) = Together(g1) + Tally(r, c, got)
  BY <1>6, <1>7, <1>8, <1>9
<1>11. Together(g) = SentSum(c, K, n) /\ Together(g1) = SentSum(c, K, n1)
  BY DEF g, g1, E, SentSum
<1> QED BY <1>8, <1>10, <1>11

\* A process takes a message and sends one, or does neither, within c or
\* outside: c keeps what it has if the process does.
LEMMA TotalStays ==
  ASSUME NEW c, NEW K, NEW h, NEW h1, NEW n, NEW n1,
         NEW r, NEW from, NEW to, NEW got, NEW sent,
         HeldStep(c, h, h1, r), NetStep(c, K, n, n1, r, from, to, got, sent),
         r \in c => Size(h1[r], K) + sent = Size(h[r], K) + got
  PROVE  Total(c, K, h1, n1) = Total(c, K, h, n)
<1> DEFINE f == HeldSum(c, K, h)   f1 == HeldSum(c, K, h1)
           g == SentSum(c, K, n)   g1 == SentSum(c, K, n1)
           a == Size(h[r], K)   b == Size(h1[r], K)
<1>1. /\ f + Tally(r, c, b) = f1 + Tally(r, c, a) /\ f \in Nat /\ f1 \in Nat
      /\ a \in Nat /\ b \in Nat
  BY HeldMoves
<1>2. g + Tally(r, c, sent) = g1 + Tally(r, c, got) /\ g \in Nat /\ g1 \in Nat
  BY SentMoves
<1>3. (r \in c => b + sent = a + got) /\ sent \in Nat /\ got \in Nat
  BY DEF NetStep
<1>4. Total(c, K, h1, n1) = f1 + g1 /\ Total(c, K, h, n) = f + g
  BY DEF Total
<1> HIDE DEF f, f1, g, g1, a, b
<1>5. f1 + g1 = f + g
  BY <1>1, <1>2, <1>3 DEF Tally
<1> QED BY <1>4, <1>5

----------------------------------------------------------------------------
(* The second invariant *)

HeldBy == [r \in Procs |-> Held(r)]

\* how many of the keys K the processes c have
Load(c, K) == Total(c, K, HeldBy, net)

LowerKeys(k) == {v \in Keys : v < k}

\* Members of a communicator are in a round together.
Abreast == \A r \in Procs : pc[r] \in Round => \A s \in comm[r] : pc[s] \in Round

\* A block of the extra partner that is not merged is empty.
Extras ==
  \A r \in Procs :
    /\ pc[r] \in {"size", "extraSize", "data", "extraData"} => rbuff_ext[r] = <<>>
    /\ pc[r] = "merge" => rbuff_ext[r] = <<>> \/ ext_rsize[r] > 0

\* Each key is there as often as at the start; totSize counts those of the
\* communicator until the merge, then those of the half; and the position of
\* the split key is the number of the keys below it.
Kept == \A v \in Keys : Load(Procs, {v}) = HeldSum(Procs, {v}, arr0)
Counting == {"sort", "sample"} \cup (Round \ {"split"})
Counted(r) ==
  /\ pc[r] \in Counting => totSize[r] = Load(comm[r], Keys)
  /\ pc[r] \in Round => split[r].disp = Load(comm[r], LowerKeys(split[r].key))
  /\ pc[r] = "split" => totSize[r] = IF Upper(r) THEN Load(comm[r], Keys) - split[r].disp
                                     ELSE split[r].disp

Balance ==
  /\ arr0 \in [Procs -> Seq(Keys)] /\ DOMAIN totSize = Procs
  /\ Abreast /\ Extras /\ Kept /\ \A r \in Procs : Counted(r)

----------------------------------------------------------------------------
(* What a process holds *)

LEMMA HeldIs ==
  ASSUME NEW r \in Procs, lbuff(r) \in Seq(Keys), arr[r] \in Seq(Keys),
         rbuff[r] \in Seq(Keys), rbuff_ext[r] \in Seq(Keys)
  PROVE  Held(r) \in Seq(Keys)
<1>1. lbuff(r) \o rbuff[r] \in Seq(Keys)
  OBVIOUS
<1>2. lbuff(r) \o rbuff[r] \o rbuff_ext[r] \in Seq(Keys)
  BY <1>1
<1> HIDE DEF Keys
<1>3. CASE pc[r] = "data"
  BY <1>3 DEF Held
<1>4. CASE pc[r] = "extraData"
  BY <1>1, <1>4 DEF Held
<1>5. CASE pc[r] = "merge"
  BY <1>2, <1>5 DEF Held
<1>6. CASE pc[r] \notin {"data", "extraData", "merge"}
  BY <1>6 DEF Held
<1> QED BY <1>3, <1>4, <1>5, <1>6

LEMMA AllHeldAre ==
  ASSUME IInv
  PROVE  \A r \in Procs : Held(r) \in Seq(Keys) /\ HeldBy[r] = Held(r)
<1>1. Values
  BY DEF IInv
<1> SUFFICES ASSUME NEW r \in Procs PROVE Held(r) \in Seq(Keys)
  BY DEF HeldBy
<1>2. /\ arr[r] \in Seq(Keys) /\ rbuff[r] \in Seq(Keys) /\ rbuff_ext[r] \in Seq(Keys)
  BY <1>1 DEF Values
<1>3. CASE pc[r] \in {"data", "extraData", "merge"}
  <2>1. Ascending(arr[r])
    BY <1>3 DEF IInv, Sorted
  <2>2. lbuff(r) \in Seq(Keys)
    BY <1>1, <2>1, BlockCut
  <2> QED BY <1>2, <2>2, HeldIs
<1>4. CASE pc[r] \notin {"data", "extraData", "merge"}
  BY <1>2, <1>4 DEF Held
<1> QED BY <1>3, <1>4

\* A split key cuts the block in two.
LEMMA CutSizes ==
  ASSUME IInv, NEW r \in Procs, pc[r] \in Round, NEW K
  PROVE  /\ lbuff(r) \in Seq(Keys) /\ sbuff(r) \in Seq(Keys) /\ arr[r] \in Seq(Keys)
         /\ Size(arr[r], K) = Size(lbuff(r), K) + Size(sbuff(r), K)
         /\ Size(lbuff(r), K) \in Nat /\ Size(sbuff(r), K) \in Nat
<1> DEFINE a == arr[r]
           k == split[r].key
           n == LowerBound(a, k)
<1>1. Ascending(arr[r]) /\ Values /\ a \in Seq(Int) /\ k \in Int
  BY DEF IInv, Sorted, Round, Values, Keys
<1>2. lbuff(r) \in Seq(Keys) /\ sbuff(r) \in Seq(Keys) /\ arr[r] \in Seq(Keys)
  BY <1>1, BlockCut DEF Keys
<1>3. n \in 0..Len(a)
  <2> HIDE DEF k
  <2> QED BY <1>1, LowerBoundCuts
<1>4. Below(r) = SubSeq(a, 1, n) /\ Above(r) = SubSeq(a, n + 1, Len(a))
  BY DEF Below, Above, split_indx
<1> HIDE DEF n
<1>5. Size(a, K) = Size(SubSeq(a, 1, n), K) + Size(SubSeq(a, n + 1, Len(a)), K)
  BY <1>2, <1>3, SizeOfCut
<1>6. Size(lbuff(r), K) \in Nat /\ Size(sbuff(r), K) \in Nat
  BY <1>2, SizeIs
<1>7. \/ lbuff(r) = Above(r) /\ sbuff(r) = Below(r)
      \/ lbuff(r) = Below(r) /\ sbuff(r) = Above(r)
  BY DEF lbuff, sbuff
<1>8. Size(a, K) = Size(Below(r), K) + Size(Above(r), K)
  BY <1>4, <1>5
<1> HIDE DEF a
<1>9. Size(a, K) = Size(lbuff(r), K) + Size(sbuff(r), K)
  <2>1. CASE lbuff(r) = Above(r) /\ sbuff(r) = Below(r)
    BY <1>6, <1>8, <2>1
  <2>2. CASE lbuff(r) = Below(r) /\ sbuff(r) = Above(r)
    BY <1>8, <2>2
  <2> QED BY <1>7, <2>1, <2>2
<1> QED BY <1>2, <1>6, <1>9 DEF a

\* All processes, or all members of a communicator.
Closed(c) == c = Procs \/ \E s \in Procs : c = comm[s]

LEMMA ClosedIs ==
  ASSUME IInv, NEW c, Closed(c)
  PROVE  /\ IsFiniteSet(c) /\ c \subseteq Procs
         /\ \A s, d \in Procs : Linked(s, d) /\ npes[s] > 1 => (s \in c <=> d \in c)
<1>1. Numbered /\ Groups
  BY DEF IInv
<1>2. IsFiniteSet(Procs)
  <2>1. PICK p \in Nat : Procs = 0..p-1
    BY <1>1 DEF Numbered
  <2>2. 0 \in Int /\ p - 1 \in Int
    OBVIOUS
  <2>3. IsFiniteSet(0..p-1)
    BY <2>2, FS_Interval
  <2> QED BY <2>1, <2>3
<1>3. c \in SUBSET Procs
  BY <1>1, GroupFacts DEF Closed
<1>4. IsFiniteSet(c)
  BY <1>2, <1>3, FS_Subset
<1>5. ASSUME NEW s \in Procs, NEW d \in Procs, Linked(s, d), npes[s] > 1
      PROVE  s \in c <=> d \in c
  <2>1. d \in comm[s]
    BY <1>1, <1>5, LinksMatch
  <2>2. comm[d] = comm[s] /\ s \in comm[s]
    BY <1>1, <2>1, GroupFacts
  <2>3. ASSUME NEW x \in Procs, c = comm[x] PROVE s \in c <=> d \in c
    <3>1. \A y \in comm[x] : comm[y] = comm[x]
      BY <1>1, GroupFacts
    <3>2. d \in comm[d]
      BY <1>1, GroupFacts
    <3> QED BY <2>1, <2>2, <2>3, <3>1, <3>2
  <2> QED BY <2>3 DEF Closed
<1> QED BY <1>3, <1>4, <1>5

\* The first message of a channel.
LEMMA HeadCarries ==
  ASSUME IInv, NEW s \in Procs, NEW d \in Procs, net[s][d] # <<>>, NEW K
  PROVE  /\ Cardinality(WhereSent(net[s][d], K))
              = Cardinality(WhereSent(Tail(net[s][d]), K)) + Carried(Head(net[s][d]), K)
         /\ Carried(Head(net[s][d]), K) \in Nat
         /\ TakenBy(d, s) = 0 => Carried(Head(net[s][d]), K) = 0
         /\ TakenBy(d, s) = 1 => Carried(Head(net[s][d]), K) = Size(Head(net[s][d]).body, K)
<1> DEFINE q == net[s][d]
           M == Messages
<1>1. /\ q \in Seq(M) /\ \A m \in M : m.body \in Seq(Keys)
      /\ Len(q) = SentBy(s, d) - TakenBy(d, s)
      /\ \A i \in 1..Len(q) : q[i].kind = IF TakenBy(d, s) + i = 1 THEN "size" ELSE "data"
  BY DEF IInv, Values, Traffic, Channel, Messages
<1>2. SentBy(s, d) \in 0..2 /\ TakenBy(d, s) \in 0..2
  BY CountTypes
<1>3. Len(q) \in {1, 2} /\ Head(q) = q[1]
  BY <1>1, <1>2
<1> HIDE DEF q, M
<1>4. /\ q[1].kind = IF TakenBy(d, s) = 0 THEN "size" ELSE "data"
      /\ Len(q) = 2 => q[2].kind = "data"
  <2>1. 1 \in 1..Len(q) /\ (Len(q) = 2 => 2 \in 1..Len(q))
    BY <1>3
  <2> QED BY <1>1, <1>2, <2>1
<1>5. TakenBy(d, s) # 0 => Len(q) = 1
  BY <1>1, <1>2, <1>3
<1>6. /\ Cardinality(WhereSent(q, K)) = Cardinality(WhereSent(Tail(q), K)) + Carried(Head(q), K)
      /\ Carried(Head(q), K) \in Nat
  <2>1. SizeFirst(q)
    BY <1>3, <1>4, <1>5 DEF SizeFirst
  <2>2. q \in Seq(M) /\ \A m \in M : m.body \in Seq(Keys)
    BY <1>1
  <2> QED BY <2>1, <2>2, SentTakes
<1> QED BY <1>3, <1>4, <1>6 DEF Carried, q

----------------------------------------------------------------------------
(* Steps of the exchange *)

\* c has as many of the keys K after a step as before.
Steady(c, K) == Total(c, K, HeldBy', net') = Total(c, K, HeldBy, net)

\* only r changes what it holds, from h to h1
Shifts(r, h, h1) ==
  /\ h = HeldBy[r] /\ h1 = HeldBy'[r] /\ h1 \in Seq(Keys)
  /\ \A s \in Procs \ {r} : HeldBy'[s] = HeldBy[s]

\* r takes a message and sends one, or none
Relays(r, from, to, m) ==
  /\ Exchanges(r, from, to, m) /\ net' \in [Procs -> [Procs -> Seq(Messages)]]
  /\ from \in Procs => Linked(r, from)
  /\ to \in Procs => Linked(r, to)

\* how many of the keys K it takes, and how many it sends
Got(r, from, K) == IF from \in Procs THEN Carried(Head(net[from][r]), K) ELSE 0
Gone(to, m, K) == IF to \in Procs THEN Carried(m, K) ELSE 0

LEMMA ExchangeSteady ==
  ASSUME IInv, NEW r \in Procs, npes[r] > 1, NEW from, NEW to, NEW m, Relays(r, from, to, m),
         NEW h, NEW h1, Shifts(r, h, h1), NEW c, Closed(c), NEW K, Gone(to, m, K) \in Nat,
         Size(h1, K) + Gone(to, m, K) = Size(h, K) + Got(r, from, K)
  PROVE  Steady(c, K)
<1> DEFINE got == Got(r, from, K)
           sent == Gone(to, m, K)
<1>1. /\ got = IF from \in Procs THEN Carried(Head(net[from][r]), K) ELSE 0
      /\ sent = IF to \in Procs THEN Carried(m, K) ELSE 0
      /\ sent \in Nat /\ Size(h1, K) + sent = Size(h, K) + got
  BY DEF Got, Gone
<1>2. /\ from \in Procs => Linked(r, from)
      /\ to \in Procs => Linked(r, to)
      /\ Exchanges(r, from, to, m) /\ net' \in [Procs -> [Procs -> Seq(Messages)]]
  BY DEF Relays
<1> HIDE DEF got, sent
<1>3. /\ IsFiniteSet(c) /\ c \subseteq Procs
      /\ \A s, d \in Procs : Linked(s, d) /\ npes[s] > 1 => (s \in c <=> d \in c)
  BY ClosedIs
<1>4. HeldStep(c, HeldBy, HeldBy', r)
  <2>1. \A s \in Procs : HeldBy[s] \in Seq(Keys)
    BY AllHeldAre
  <2>2. HeldBy'[r] \in Seq(Keys) /\ \A s \in Procs \ {r} : HeldBy'[s] = HeldBy[s]
    BY DEF Shifts
  <2> HIDE DEF Keys, HeldBy
  <2>3. \A s \in Procs : HeldBy'[s] \in Seq(Keys)
    BY <2>1, <2>2
  <2> QED BY <1>3, <2>1, <2>2, <2>3 DEF HeldStep
<1>5. /\ \A s, d \in Procs :
           net'[s][d] = IF s = from /\ d = r THEN Tail(net[s][d])
                        ELSE IF s = r /\ d = to THEN Append(net[s][d], m) ELSE net[s][d]
      /\ from \in Procs => from # r /\ net[from][r] # <<>>
      /\ to \in Procs => to # r /\ m \in Messages
  BY <1>2 DEF Exchanges
<1>6. from # r /\ to # r
  BY <1>5
<1>7. net \in [Procs -> [Procs -> Seq(Messages)]] /\ \A x \in Messages : x.body \in Seq(Keys)
  BY DEF IInv, Values, Messages
<1>8. \A s, d \in Procs : IsFiniteSet(WhereSent(net[s][d], K)) /\ IsFiniteSet(WhereSent(net'[s][d], K))
  <2> SUFFICES ASSUME NEW s \in Procs, NEW d \in Procs
               PROVE  IsFiniteSet(WhereSent(net[s][d], K)) /\ IsFiniteSet(WhereSent(net'[s][d], K))
    OBVIOUS
  <2> DEFINE M == Messages
             q == net[s][d]
             p == net'[s][d]
  <2>1. q \in Seq(M) /\ p \in Seq(M) /\ \A x \in M : x.body \in Seq(Keys)
    BY <1>2, <1>7
  <2> HIDE DEF M, q, p
  <2>2. IsFiniteSet(WhereSent(q, K)) /\ IsFiniteSet(WhereSent(p, K))
    BY <2>1, SentFinite
  <2> QED BY <2>2 DEF p, q
<1>9. ASSUME from \in Procs
      PROVE  /\ Cardinality(WhereSent(net[from][r], K))
                   = Cardinality(WhereSent(Tail(net[from][r]), K)) + Carried(Head(net[from][r]), K)
             /\ Carried(Head(net[from][r]), K) \in Nat
  <2>1. net[from][r] # <<>>
    BY <1>9, <1>5
  <2>2. PICK s \in Procs : s = from
    BY <1>9
  <2>3. /\ Cardinality(WhereSent(net[s][r], K))
              = Cardinality(WhereSent(Tail(net[s][r]), K)) + Carried(Head(net[s][r]), K)
        /\ Carried(Head(net[s][r]), K) \in Nat
    BY <2>1, <2>2, HeadCarries
  <2> QED BY <2>2, <2>3
<1>10. ASSUME r \in c, from \in c
      PROVE  Cardinality(WhereSent(net[from][r], K))
               = Cardinality(WhereSent(net'[from][r], K)) + got
  <2>1. from \in Procs /\ net'[from][r] = Tail(net[from][r]) /\ net[from][r] # <<>>
    BY <1>3, <1>5, <1>10
  <2>2. got = Carried(Head(net[from][r]), K)
    BY <1>1, <2>1
  <2> QED BY <1>9, <2>1, <2>2
<1>11. ASSUME r \in c, to \in c
      PROVE  Cardinality(WhereSent(net'[r][to], K))
               = Cardinality(WhereSent(net[r][to], K)) + sent
  <2> DEFINE M == Messages
             q == net[r][to]
  <2>1. to \in Procs /\ net'[r][to] = Append(q, m) /\ m \in M
    BY <1>3, <1>5, <1>6, <1>11
  <2>2. sent = Carried(m, K)
    BY <1>1, <2>1
  <2>3. q \in Seq(M) /\ \A x \in M : x.body \in Seq(Keys)
    BY <1>7, <2>1
  <2> HIDE DEF M, q
  <2>4. Cardinality(WhereSent(Append(q, m), K)) = Cardinality(WhereSent(q, K)) + Carried(m, K)
    <3>1. m \in M
      BY <2>1
    <3>2. q \in Seq(M)
      BY <2>3
    <3>3. Bodied(M)
      BY <2>3 DEF Bodied
    <3> QED BY <3>1, <3>2, <3>3, SentAppends
  <2> QED BY <2>1, <2>2, <2>4 DEF q
<1>12. /\ r \in c /\ from \notin c => got = 0
       /\ r \in c /\ to \notin c => sent = 0
  <2>1. ASSUME r \in c, from \notin c PROVE from \notin Procs
    BY <1>2, <1>3, <2>1
  <2>2. ASSUME r \in c, to \notin c PROVE to \notin Procs
    BY <1>2, <1>3, <2>2
  <2> QED BY <1>1, <2>1, <2>2
<1>13. got \in Nat
  <2>1. CASE from \in Procs
    <3>1. got = Carried(Head(net[from][r]), K)
      BY <1>1, <2>1
    <3> QED BY <1>9, <2>1, <3>1
  <2>2. CASE from \notin Procs
    BY <1>1, <2>2
  <2> QED BY <2>1, <2>2
<1>14. \A s, d \in c : ~(s = from /\ d = r) /\ ~(s = r /\ d = to) => net'[s][d] = net[s][d]
  BY <1>3, <1>5
<1>15. NetStep(c, K, net, net', r, from, to, got, sent)
  <2>1. \A s, d \in c : IsFiniteSet(WhereSent(net[s][d], K)) /\ IsFiniteSet(WhereSent(net'[s][d], K))
    BY <1>3, <1>8
  <2>2. sent \in Nat
    BY <1>1
  <2>3. IsFiniteSet(c) /\ from # r /\ to # r /\ got \in Nat /\ sent \in Nat
    BY <1>3, <1>6, <1>13, <2>2
  <2>4. r \in c /\ from \in c => Cardinality(WhereSent(net[from][r], K))
                                  = Cardinality(WhereSent(net'[from][r], K)) + got
    BY <1>10
  <2>5. r \in c /\ to \in c => Cardinality(WhereSent(net'[r][to], K))
                                = Cardinality(WhereSent(net[r][to], K)) + sent
    BY <1>11
  <2>6. (r \in c /\ from \notin c => got = 0) /\ (r \in c /\ to \notin c => sent = 0)
    BY <1>12
  <2> QED BY <1>14, <2>1, <2>3, <2>4, <2>5, <2>6, Zenon DEF NetStep
<1>16. Size(HeldBy'[r], K) + sent = Size(HeldBy[r], K) + got
  BY <1>1 DEF Shifts
<1> DEFINE f == HeldBy
           g == HeldBy'
           n == net
           n1 == net'
<1> HIDE DEF f, g, n, n1
<1>17. HeldStep(c, f, g, r) /\ NetStep(c, K, n, n1, r, from, to, got, sent)
       /\ Size(g[r], K) + sent = Size(f[r], K) + got
  BY <1>4, <1>15, <1>16 DEF f, g, n, n1
<1>18. Total(c, K, g, n1) = Total(c, K, f, n)
  BY <1>17, TotalStays
<1> QED BY <1>18 DEF Steady, f, g, n, n1

\* What the others hold when one goes on.
LEMMA OthersHold ==
  ASSUME NEW r \in Procs, UNCHANGED <<given, group, split>>,
         \A s \in Procs \ {r} : /\ pc'[s] = pc[s] /\ arr'[s] = arr[s]
                                /\ rbuff'[s] = rbuff[s] /\ rbuff_ext'[s] = rbuff_ext[s]
  PROVE  /\ \A s \in Procs \ {r} : HeldBy'[s] = HeldBy[s]
         /\ HeldBy'[r] = Held(r)' /\ HeldBy[r] = Held(r)
<1>1. Procs' = Procs
  BY DEF given, Procs
<1>2. ASSUME NEW s \in Procs \ {r} PROVE Held(s)' = Held(s)
  <2>1. lbuff(s)' = lbuff(s)
    BY <1>2, SameBlocks DEF group
  <2> QED BY <1>2, <2>1 DEF Held
<1> QED BY <1>1, <1>2 DEF HeldBy

\* A step in which nothing is lost or added keeps the books.
LEMMA BooksKept ==
  ASSUME IInv, Balance, NEW r \in Procs, UNCHANGED <<given, group, split>>,
         \A s \in Procs \ {r} : pc'[s] = pc[s] /\ totSize'[s] = totSize[s],
         DOMAIN totSize' = Procs,
         \A v \in Keys : Steady(Procs, {v}),
         \A s \in Procs : Steady(comm[s], Keys),
         \A s \in Procs : pc[s] \in Round => Steady(comm[s], LowerKeys(split[s].key)),
         pc'[r] \in Counting => pc[r] \in Counting /\ totSize'[r] = totSize[r],
         pc'[r] \in Round <=> pc[r] \in Round,
         pc'[r] = "split" => pc[r] = "merge" /\ totSize'[r] = TotSizeNew(r),
         Extras'
  PROVE  Balance'
<1>1. /\ Procs' = Procs /\ comm' = comm /\ split' = split /\ arr0' = arr0
      /\ Keys' = Keys
  BY DEF given, group, Procs, Keys
<1>2. \A s \in Procs : Upper(s)' = Upper(s)
  BY SameView DEF group
<1>3. \A c, K : Load(c, K) = Total(c, K, HeldBy, net)
  BY DEF Load
<1>4. Kept'
  <2>1. Kept' = \A v \in Keys : Total(Procs, {v}, HeldBy', net') = HeldSum(Procs, {v}, arr0)
    BY <1>1 DEF Kept, Load
  <2>2. \A v \in Keys : Total(Procs, {v}, HeldBy, net) = HeldSum(Procs, {v}, arr0)
    BY DEF Balance, Kept, Load
  <2> QED BY <2>1, <2>2 DEF Steady
<1>5. ASSUME NEW s \in Procs PROVE Counted(s)'
  <2>1. Counted(s)' =
          /\ pc'[s] \in Counting => totSize'[s] = Total(comm[s], Keys, HeldBy', net')
          /\ pc'[s] \in Round =>
               split[s].disp = Total(comm[s], LowerKeys(split[s].key), HeldBy', net')
          /\ pc'[s] = "split" =>
               totSize'[s] = IF Upper(s) THEN Total(comm[s], Keys, HeldBy', net') - split[s].disp
                             ELSE split[s].disp
    BY <1>1, <1>2 DEF Counted, Load, LowerKeys, Keys, Counting, Round
  <2>2. Steady(comm[s], Keys) /\ (pc[s] \in Round => Steady(comm[s], LowerKeys(split[s].key)))
    OBVIOUS
  <2>3. /\ pc[s] \in Counting => totSize[s] = Total(comm[s], Keys, HeldBy, net)
        /\ pc[s] \in Round => split[s].disp = Total(comm[s], LowerKeys(split[s].key), HeldBy, net)
        /\ pc[s] = "split" =>
             totSize[s] = IF Upper(s) THEN Total(comm[s], Keys, HeldBy, net) - split[s].disp
                          ELSE split[s].disp
    BY DEF Balance, Counted, Load
  <2>4. /\ pc'[s] \in Counting => pc[s] \in Counting /\ totSize'[s] = totSize[s]
        /\ pc'[s] \in Round => pc[s] \in Round
        /\ pc'[s] = "split" => \/ pc[s] = "split" /\ totSize'[s] = totSize[s]
                               \/ pc[s] = "merge" /\ totSize'[s] = TotSizeNew(s)
    OBVIOUS
  <2>5. pc[s] = "merge" => pc[s] \in Counting
    BY DEF Counting, Round
  <2>6. CASE pc'[s] # "split"
    BY <2>1, <2>2, <2>3, <2>4, <2>6 DEF Steady
  <2>7. CASE pc'[s] = "split"
    <3>1. "split" \notin Counting /\ "split" \in Round
      BY DEF Counting, Round
    <3>2. totSize'[s] = IF Upper(s) THEN Total(comm[s], Keys, HeldBy', net') - split[s].disp
                        ELSE split[s].disp
      <4>1. CASE pc[s] = "split"
        BY <2>2, <2>3, <2>4, <2>7, <4>1 DEF Steady
      <4>2. CASE pc[s] # "split"
        BY <2>2, <2>3, <2>4, <2>5, <2>7, <4>2 DEF Steady, TotSizeNew
      <4> QED BY <4>1, <4>2
    <3> QED BY <2>1, <2>2, <2>3, <2>4, <2>7, <3>1, <3>2 DEF Steady
  <2> QED BY <2>6, <2>7
<1>6. Abreast'
  <2>1. \A s \in Procs : pc'[s] \in Round <=> pc[s] \in Round
    OBVIOUS
  <2>2. \A s \in Procs : comm[s] \subseteq Procs
    BY DEF IInv, Groups
  <2> QED BY <1>1, <2>1, <2>2 DEF Balance, Abreast, Round
<1>7. arr0' \in [Procs' -> Seq(Keys')]
  BY <1>1 DEF Balance
<1> QED BY <1>1, <1>4, <1>5, <1>6, <1>7 DEF Balance

\* What the process takes it has, until it goes.
Balanced(r, from, to, m, h, h1) ==
  \A K : Size(h1, K) + Gone(to, m, K) = Size(h, K) + Got(r, from, K)

LEMMA ExchangeBooks ==
  ASSUME IInv, Balance, NEW r \in Procs, NEW from, NEW to, NEW m, Relays(r, from, to, m),
         NEW l \in Round \ {"exchange", "split"}, pc[r] \in Round \ {"split"},
         pc' = [pc EXCEPT ![r] = l], UNCHANGED <<given, group, arr, split, totSize>>,
         \A s \in Procs \ {r} : rbuff'[s] = rbuff[s] /\ rbuff_ext'[s] = rbuff_ext[s],
         NEW h1 \in Seq(Keys), h1 = Held(r)', Balanced(r, from, to, m, Held(r), h1),
         Extras'
  PROVE  Balance'
<1>1. to \in Procs => m \in Messages
  BY DEF Relays, Exchanges
<1>2. pc \in [Procs -> Labels] /\ npes[r] > 1
  BY DEF IInv, Places
<1>3. pc'[r] = l /\ \A s \in Procs \ {r} : pc'[s] = pc[s]
  BY <1>2
<1>4. UNCHANGED <<given, group, split>> /\ arr' = arr /\ totSize' = totSize
  OBVIOUS
<1>5. /\ \A s \in Procs \ {r} : HeldBy'[s] = HeldBy[s]
      /\ HeldBy'[r] = Held(r)' /\ HeldBy[r] = Held(r)
  BY <1>3, <1>4, OthersHold
<1>6. Shifts(r, Held(r), h1)
  BY <1>5 DEF Shifts
<1>7. \A K : Gone(to, m, K) \in Nat
  <2> SUFFICES ASSUME NEW K PROVE Gone(to, m, K) \in Nat
    OBVIOUS
  <2>1. CASE to \in Procs
    <3>1. m.body \in Seq(Keys)
      BY <1>1, <2>1 DEF Messages
    <3>2. Size(m.body, K) \in Nat
      BY <3>1, SizeIs
    <3> QED BY <2>1, <3>2 DEF Gone, Carried
  <2>2. CASE to \notin Procs
    BY <2>2 DEF Gone
  <2> QED BY <2>1, <2>2
<1>8. ASSUME NEW c, Closed(c), NEW K PROVE Steady(c, K)
  <2> DEFINE h == Held(r)
  <2>1. Gone(to, m, K) \in Nat /\ Size(h1, K) + Gone(to, m, K) = Size(h, K) + Got(r, from, K)
    BY <1>7 DEF Balanced
  <2>2. Shifts(r, h, h1)
    BY <1>6
  <2> HIDE DEF h
  <2> QED BY <1>2, <1>8, <2>1, <2>2, ExchangeSteady
<1>9. Closed(Procs) /\ \A s \in Procs : Closed(comm[s])
  BY DEF Closed
<1>10. /\ pc[r] \in Counting /\ pc[r] \in Round /\ pc'[r] \in Round /\ pc'[r] # "split"
  BY <1>3 DEF Counting
<1>11. DOMAIN totSize' = Procs
  BY <1>4 DEF Balance
<1>12. \A s \in Procs \ {r} : pc'[s] = pc[s] /\ totSize'[s] = totSize[s]
  BY <1>3, <1>4
<1>13. /\ \A v \in Keys : Steady(Procs, {v})
       /\ \A s \in Procs : Steady(comm[s], Keys)
       /\ \A s \in Procs : pc[s] \in Round => Steady(comm[s], LowerKeys(split[s].key))
  BY <1>8, <1>9
<1> QED BY <1>4, <1>10, <1>11, <1>12, <1>13, BooksKept

LEMMA ExtrasStay ==
  ASSUME Balance, NEW r \in Procs, UNCHANGED given,
         \A s \in Procs \ {r} : /\ pc'[s] = pc[s] /\ rbuff_ext'[s] = rbuff_ext[s]
                                /\ ext_rsize'[s] = ext_rsize[s],
         pc'[r] \in {"size", "extraSize", "data", "extraData"} => rbuff_ext'[r] = <<>>,
         pc'[r] = "merge" => rbuff_ext'[r] = <<>> \/ ext_rsize'[r] > 0
  PROVE  Extras'
<1>1. Procs' = Procs
  BY DEF given, Procs
<1> QED BY <1>1 DEF Balance, Extras

\* What a process is about to hold, in terms of its blocks.
LEMMA HeldNext ==
  ASSUME NEW r \in Procs, UNCHANGED <<given, group, arr, split>>
  PROVE  /\ lbuff(r)' = lbuff(r)
         /\ pc'[r] \in {"size", "extraSize"} => Held(r)' = arr[r]
         /\ pc'[r] = "data" => Held(r)' = lbuff(r)
         /\ pc'[r] = "extraData" => Held(r)' = lbuff(r) \o rbuff'[r]
         /\ pc'[r] = "merge" => Held(r)' = lbuff(r) \o rbuff'[r] \o rbuff_ext'[r]
<1>1. lbuff(r)' = lbuff(r)
  BY SameBlocks DEF group
<1> QED BY <1>1 DEF Held

LEMMA SendSizeBooks ==
  ASSUME IInv, Balance, NEW r \in Procs, SendSize(r)
  PROVE  Balance'
<1> DEFINE d == Partner(r)
           m == Message(r, "size", <<Len(sbuff(r))>>)
<1>1. pc[r] = "exchange" /\ pc[r] \in Round \ {"split"} /\ "size" \in Round \ {"exchange", "split"}
  BY DEF SendSize, Round
<1>2. d \in Procs /\ d # r /\ Linked(r, d) /\ m \in Messages /\ Nobody \notin Procs
  BY <1>1, InRound
<1>3. /\ net \in [Procs -> [Procs -> Seq(Messages)]] /\ arr[r] \in Seq(Keys)
      /\ rbuff \in [Procs -> Seq(Keys)] /\ rbuff_ext \in [Procs -> Seq(Keys)]
      /\ DOMAIN ext_rsize = Procs /\ pc \in [Procs -> Labels]
  BY DEF IInv, Values, Places
<1>4. /\ pc' = [pc EXCEPT ![r] = "size"] /\ rbuff' = [rbuff EXCEPT ![r] = <<>>]
      /\ rbuff_ext' = [rbuff_ext EXCEPT ![r] = <<>>] /\ ext_rsize' = [ext_rsize EXCEPT ![r] = 0]
      /\ UNCHANGED <<given, group, arr, split, totSize>>
      /\ net' = [net EXCEPT ![r][d] = Append(net[r][d], m)]
  BY DEF SendSize, Send
<1>5. Relays(r, Nobody, d, m)
  <2> HIDE DEF d, m
  <2>1. Append(net[r][d], m) \in Seq(Messages)
    BY <1>2, <1>3
  <2>2. /\ net' \in [Procs -> [Procs -> Seq(Messages)]]
        /\ \A s, t \in Procs :
             net'[s][t] = IF s = r /\ t = d THEN Append(net[r][d], m) ELSE net[s][t]
    BY <1>2, <1>3, <1>4, <2>1, NetIs
  <2> QED BY <1>2, <2>2 DEF Relays, Exchanges
<1>6. pc'[r] = "size" /\ rbuff_ext'[r] = <<>>
  BY <1>3, <1>4
<1>7. \A s \in Procs \ {r} : /\ pc'[s] = pc[s] /\ rbuff'[s] = rbuff[s]
                             /\ rbuff_ext'[s] = rbuff_ext[s] /\ ext_rsize'[s] = ext_rsize[s]
  BY <1>3, <1>4
<1>8. Extras'
  BY <1>4, <1>6, <1>7, ExtrasStay
<1>9. arr[r] = Held(r)' /\ Held(r) = arr[r]
  BY <1>1, <1>4, <1>6, HeldNext DEF Held
<1>10. Balanced(r, Nobody, d, m, Held(r), arr[r])
  <2>1. ASSUME NEW K PROVE Gone(d, m, K) = 0 /\ Got(r, Nobody, K) = 0
    BY <1>2 DEF Gone, Got, Carried, Message
  <2> HIDE DEF d, m
  <2> QED BY <1>9, <2>1 DEF Balanced
<1> HIDE DEF d, m
<1> QED BY <1>1, <1>3, <1>4, <1>5, <1>7, <1>8, <1>9, <1>10, ExchangeBooks

\* The sizes are in: r keeps its part of the block and sends the other.
LEMMA PartsGo ==
  ASSUME IInv, NEW r \in Procs, pc[r] \in {"size", "extraSize"}, NEW d \in Procs, NEW x \in Procs,
         net[x][r] # <<>>, TakenBy(r, x) = 0
  PROVE  /\ Balanced(r, x, d, Message(r, "data", sbuff(r)), Held(r), lbuff(r))
         /\ lbuff(r) \in Seq(Keys)
         /\ Balanced(r, x, d, Message(r, "size", <<0>>), Held(r), arr[r])
<1>1. pc[r] \in Round /\ Held(r) = arr[r]
  BY DEF Round, Held
<1>2. \A K : Got(r, x, K) = 0
  BY HeadCarries DEF Got
<1>3. \A K : /\ Gone(d, Message(r, "data", sbuff(r)), K) = Size(sbuff(r), K)
             /\ Gone(d, Message(r, "size", <<0>>), K) = 0
  BY DEF Gone, Carried, Message
<1>4. \A K : /\ Size(arr[r], K) = Size(lbuff(r), K) + Size(sbuff(r), K)
             /\ Size(lbuff(r), K) \in Nat /\ Size(sbuff(r), K) \in Nat
  BY <1>1, CutSizes
<1>5. lbuff(r) \in Seq(Keys)
  BY <1>1, CutSizes
<1>6. Balanced(r, x, d, Message(r, "data", sbuff(r)), Held(r), lbuff(r))
  BY <1>1, <1>2, <1>3, <1>4 DEF Balanced
<1>7. Balanced(r, x, d, Message(r, "size", <<0>>), Held(r), arr[r])
  BY <1>1, <1>2, <1>3 DEF Balanced
<1> QED BY <1>5, <1>6, <1>7

LEMMA RecvSizeBooks ==
  ASSUME IInv, Balance, NEW r \in Procs, RecvSize(r)
  PROVE  Balance'
<1> DEFINE d == Partner(r)
           x == ExtraPartner(r)
           m == Head(net[d][r])
<1>1. pc[r] = "size" /\ pc[r] \in Round \ {"split"} /\ pc[r] \in Round
  BY DEF RecvSize, Round
<1>2. /\ d \in Procs /\ d # r /\ Linked(r, d)
      /\ extra_partner(r) => x \in Procs /\ x \notin {r, d} /\ Linked(r, x)
  BY <1>1, InRound
<1>3. Values /\ arr[r] \in Seq(Keys) /\ pc \in [Procs -> Labels] /\ rbuff_ext[r] = <<>>
  BY <1>1 DEF IInv, Values, Places, Balance, Extras
<1>4. /\ ext_rsize' = ext_rsize /\ rbuff' = rbuff /\ rbuff_ext' = rbuff_ext
      /\ UNCHANGED <<given, group, arr, split, totSize>> /\ UNCHANGED <<given, group, arr, split>>
      /\ net[d][r] # <<>>
  BY DEF RecvSize, buffers, TakeAndSend
<1>5. TakenBy(r, d) = 0
  BY <1>1 DEF TakenBy, MainTaken, ExtraSent
<1>6. CASE extra_partner(r)
  <2> DEFINE n == Message(r, "size", <<0>>)
  <2>1. TakeAndSend(r, d, m, x, <<n>>) /\ pc' = [pc EXCEPT ![r] = "extraSize"]
    BY <1>6 DEF RecvSize
  <2>2. n \in Messages /\ "extraSize" \in Round \ {"exchange", "split"}
    BY <1>1, InRound DEF Round
  <2>3. Relays(r, d, x, n)
    <3> HIDE DEF d, x, m, n
    <3>1. Exchanges(r, d, x, n) /\ net' \in [Procs -> [Procs -> Seq(Messages)]]
      BY <1>2, <1>3, <1>6, <2>1, <2>2, TakeAndSendIs
    <3> QED BY <1>2, <1>6, <3>1 DEF Relays
  <2>4. pc'[r] = "extraSize" /\ \A s \in Procs \ {r} : pc'[s] = pc[s]
    BY <1>3, <2>1
  <2>5. Extras'
    BY <1>3, <1>4, <2>4, ExtrasStay
  <2>6. arr[r] = Held(r)'
    BY <1>4, <2>4, HeldNext
  <2>7. Balanced(r, d, x, n, Held(r), arr[r])
    BY <1>1, <1>2, <1>4, <1>5, <1>6, PartsGo
  <2> HIDE DEF d, x, m, n
  <2> QED BY <1>1, <1>3, <1>4, <2>1, <2>2, <2>3, <2>5, <2>6, <2>7, ExchangeBooks
<1>7. CASE ~extra_partner(r)
  <2> DEFINE n == Message(r, "data", sbuff(r))
  <2>1. TakeAndSend(r, d, m, d, <<n>>) /\ pc' = [pc EXCEPT ![r] = "data"]
    BY <1>7 DEF RecvSize
  <2>2. n \in Messages /\ "data" \in Round \ {"exchange", "split"}
    BY <1>1, InRound DEF Round
  <2>3. Relays(r, d, d, n)
    <3> HIDE DEF d, x, m, n
    <3>1. Exchanges(r, d, d, n) /\ net' \in [Procs -> [Procs -> Seq(Messages)]]
      BY <1>2, <1>3, <2>1, <2>2, TakeAndSendIs
    <3> QED BY <1>2, <3>1 DEF Relays
  <2>4. pc'[r] = "data" /\ \A s \in Procs \ {r} : pc'[s] = pc[s]
    BY <1>3, <2>1
  <2>5. Extras'
    BY <1>3, <1>4, <2>4, ExtrasStay
  <2>6. lbuff(r) = Held(r)'
    BY <1>4, <2>4, HeldNext
  <2>7. Balanced(r, d, d, n, Held(r), lbuff(r)) /\ lbuff(r) \in Seq(Keys)
    BY <1>1, <1>2, <1>4, <1>5, PartsGo
  <2> HIDE DEF d, x, m, n
  <2> QED BY <1>1, <1>3, <1>4, <2>1, <2>2, <2>3, <2>5, <2>6, <2>7, ExchangeBooks
<1> QED BY <1>6, <1>7

LEMMA RecvExtraSizeBooks ==
  ASSUME IInv, Balance, NEW r \in Procs, RecvExtraSize(r)
  PROVE  Balance'
<1> DEFINE d == Partner(r)
           x == ExtraPartner(r)
           m == Head(net[x][r])
           n == Message(r, "data", sbuff(r))
<1>1. /\ pc[r] = "extraSize" /\ pc[r] \in Round \ {"split"} /\ pc[r] \in Round
      /\ extra_partner(r) /\ "data" \in Round \ {"exchange", "split"}
  BY DEF RecvExtraSize, Round, IInv, Places
<1>2. /\ d \in Procs /\ d # r /\ Linked(r, d) /\ x \in Procs /\ x \notin {r, d} /\ Linked(r, x)
      /\ n \in Messages
  BY <1>1, InRound
<1>3. Values /\ DOMAIN ext_rsize = Procs /\ pc \in [Procs -> Labels] /\ rbuff_ext[r] = <<>>
  BY <1>1 DEF IInv, Values, Places, Balance, Extras
<1>4. /\ ext_rsize' = [ext_rsize EXCEPT ![r] = m.body[1]] /\ rbuff' = rbuff
      /\ rbuff_ext' = rbuff_ext
      /\ UNCHANGED <<given, group, arr, split, totSize>> /\ UNCHANGED <<given, group, arr, split>>
      /\ TakeAndSend(r, x, m, d, <<n>>) /\ net[x][r] # <<>> /\ pc' = [pc EXCEPT ![r] = "data"]
  BY DEF RecvExtraSize, buffers, TakeAndSend
<1>5. TakenBy(r, x) = 0
  BY <1>1, <1>2 DEF TakenBy, ExtraTaken
<1>6. Relays(r, x, d, n)
  <2> HIDE DEF d, x, m, n
  <2>1. Exchanges(r, x, d, n) /\ net' \in [Procs -> [Procs -> Seq(Messages)]]
    BY <1>2, <1>3, <1>4, TakeAndSendIs
  <2> QED BY <1>2, <2>1 DEF Relays
<1>7. /\ pc'[r] = "data"
      /\ \A s \in Procs \ {r} : pc'[s] = pc[s] /\ ext_rsize'[s] = ext_rsize[s]
  BY <1>3, <1>4
<1>8. Extras'
  BY <1>3, <1>4, <1>7, ExtrasStay
<1>9. lbuff(r) = Held(r)'
  BY <1>4, <1>7, HeldNext
<1>10. Balanced(r, x, d, n, Held(r), lbuff(r)) /\ lbuff(r) \in Seq(Keys)
  BY <1>1, <1>2, <1>4, <1>5, PartsGo
<1> HIDE DEF d, x, m, n
<1> QED BY <1>1, <1>3, <1>4, <1>6, <1>8, <1>9, <1>10, ExchangeBooks

\* A block is in: r holds what it takes.
LEMMA BlockComes ==
  ASSUME IInv, NEW r \in Procs, NEW x \in Procs, net[x][r] # <<>>, TakenBy(r, x) = 1,
         NEW h \in Seq(Keys), NEW to, NEW m, NEW b, b = Head(net[x][r]).body,
         \A K : Gone(to, m, K) = 0
  PROVE  Balanced(r, x, to, m, h, h \o b) /\ b \in Seq(Keys) /\ h \o b \in Seq(Keys)
<1>1. b \in Seq(Keys)
  BY HeadIs
<1>2. ASSUME NEW K PROVE Got(r, x, K) = Size(b, K)
  BY HeadCarries DEF Got
<1>3. h \o b \in Seq(Keys) /\ \A K : Size(h \o b, K) = Size(h, K) + Size(b, K)
  BY <1>1, SizeOfConcat
<1>4. \A K : Size(h \o b, K) \in Nat
  BY <1>3, SizeIs
<1> QED BY <1>1, <1>2, <1>3, <1>4 DEF Balanced

LEMMA ConcatNone == ASSUME NEW s \in Seq(Keys) PROVE s \o <<>> = s
  OBVIOUS

LEMMA RecvDataBooks ==
  ASSUME IInv, Balance, NEW r \in Procs, RecvData(r)
  PROVE  Balance'
<1> DEFINE d == Partner(r)
           x == ExtraPartner(r)
           m == Head(net[d][r])
           h == lbuff(r) \o m.body
<1>1. pc[r] = "data" /\ pc[r] \in Round \ {"split"} /\ pc[r] \in Round
  BY DEF RecvData, Round
<1>2. /\ d \in Procs /\ d # r /\ Linked(r, d) /\ Nobody \notin Procs
      /\ extra_partner(r) => x \in Procs /\ x \notin {r, d} /\ Linked(r, x)
  BY <1>1, InRound
<1>3. /\ Values /\ Numbered /\ rbuff \in [Procs -> Seq(Keys)] /\ pc \in [Procs -> Labels]
      /\ rbuff_ext[r] = <<>>
  BY <1>1 DEF IInv, Values, Places, Balance, Extras
<1>4. /\ ext_rsize' = ext_rsize /\ rbuff' = [rbuff EXCEPT ![r] = m.body]
      /\ rbuff_ext' = rbuff_ext
      /\ UNCHANGED <<given, group, arr, split, totSize>> /\ UNCHANGED <<given, group, arr, split>>
      /\ net[d][r] # <<>>
  BY DEF RecvData, sizes, TakeAndSend
<1>5. TakenBy(r, d) = 1
  BY <1>1 DEF TakenBy, MainTaken, ExtraSent
<1>6. rbuff'[r] = m.body /\ rbuff_ext'[r] = <<>> /\ \A s \in Procs \ {r} : rbuff'[s] = rbuff[s]
  BY <1>3, <1>4
<1>7. Held(r) = lbuff(r) /\ lbuff(r) \in Seq(Keys)
  BY <1>1, CutSizes DEF Held
<1>8. ASSUME NEW to, NEW n, \A K : Gone(to, n, K) = 0
      PROVE  Balanced(r, d, to, n, Held(r), h) /\ h \in Seq(Keys)
  <2> DEFINE l == lbuff(r)
             b == m.body
  <2>1. l \in Seq(Keys) /\ Held(r) = l
    BY <1>7
  <2> HIDE DEF l, b
  <2>2. Balanced(r, d, to, n, l, l \o b) /\ l \o b \in Seq(Keys)
    BY <1>2, <1>4, <1>5, <1>8, <2>1, BlockComes DEF b
  <2> QED BY <2>1, <2>2 DEF l, b
<1>9. CASE extra_partner(r)
  <2> DEFINE n == Message(r, "data", <<>>)
  <2>1. TakeAndSend(r, d, m, x, <<n>>) /\ pc' = [pc EXCEPT ![r] = "extraData"]
    BY <1>9 DEF RecvData
  <2>2. n \in Messages /\ "extraData" \in Round \ {"exchange", "split"}
    BY <1>1, InRound DEF Round
  <2>3. Relays(r, d, x, n)
    <3> HIDE DEF d, x, m, n
    <3>1. Exchanges(r, d, x, n) /\ net' \in [Procs -> [Procs -> Seq(Messages)]]
      BY <1>2, <1>3, <1>9, <2>1, <2>2, TakeAndSendIs
    <3> QED BY <1>2, <1>9, <3>1 DEF Relays
  <2>4. pc'[r] = "extraData" /\ \A s \in Procs \ {r} : pc'[s] = pc[s]
    BY <1>3, <2>1
  <2>5. Extras'
    BY <1>4, <1>6, <2>4, ExtrasStay
  <2>6. h = Held(r)'
    BY <1>4, <1>6, <2>4, HeldNext
  <2>7. Balanced(r, d, x, n, Held(r), h) /\ h \in Seq(Keys)
    <3>1. \A K : Gone(x, n, K) = 0
      BY SizeOfNone DEF Gone, Carried, Message
    <3> HIDE DEF d, x, m, n, h
    <3> QED BY <1>8, <3>1
  <2> HIDE DEF d, x, m, n, h
  <2> QED BY <1>1, <1>4, <1>6, <2>1, <2>2, <2>3, <2>5, <2>6, <2>7, ExchangeBooks
<1>10. CASE ~extra_partner(r)
  <2>1. TakeAndSend(r, d, m, d, <<>>) /\ pc' = [pc EXCEPT ![r] = "merge"]
        /\ "merge" \in Round \ {"exchange", "split"}
    BY <1>10 DEF RecvData, Round
  <2>2. Relays(r, d, Nobody, m)
    <3> HIDE DEF d, m
    <3>1. Exchanges(r, d, Nobody, m) /\ net' \in [Procs -> [Procs -> Seq(Messages)]]
      BY <1>2, <1>3, <2>1, TakeIs
    <3> QED BY <1>2, <3>1 DEF Relays
  <2>3. pc'[r] = "merge" /\ \A s \in Procs \ {r} : pc'[s] = pc[s]
    BY <1>3, <2>1
  <2>4. Extras'
    BY <1>4, <1>6, <2>3, ExtrasStay
  <2>5. Balanced(r, d, Nobody, m, Held(r), h) /\ h \in Seq(Keys)
    <3>1. \A K : Gone(Nobody, m, K) = 0
      BY <1>2 DEF Gone
    <3> HIDE DEF d, m, h
    <3> QED BY <1>8, <3>1
  <2>6. h = Held(r)'
    <3>1. Held(r)' = h \o rbuff_ext'[r]
      BY <1>4, <1>6, <2>3, HeldNext
    <3> HIDE DEF h
    <3> QED BY <1>6, <2>5, <3>1, ConcatNone
  <2> HIDE DEF d, m, h
  <2> QED BY <1>1, <1>4, <1>6, <2>1, <2>2, <2>4, <2>5, <2>6, ExchangeBooks
<1> QED BY <1>9, <1>10

LEMMA RecvExtraDataBooks ==
  ASSUME IInv, Balance, NEW r \in Procs, RecvExtraData(r)
  PROVE  Balance'
<1> DEFINE x == ExtraPartner(r)
           m == Head(net[x][r])
           l == lbuff(r) \o rbuff[r]
           h == l \o m.body
<1>1. /\ pc[r] = "extraData" /\ pc[r] \in Round \ {"split"} /\ pc[r] \in Round /\ extra_partner(r)
      /\ "merge" \in Round \ {"exchange", "split"}
  BY DEF RecvExtraData, Round, IInv, Places
<1>2. x \in Procs /\ x \notin {r, Partner(r)} /\ Linked(r, x) /\ Nobody \notin Procs
  BY <1>1, InRound
<1>3. /\ Values /\ Numbered /\ rbuff_ext \in [Procs -> Seq(Keys)] /\ pc \in [Procs -> Labels]
      /\ rbuff[r] \in Seq(Keys)
  BY DEF IInv, Values, Places
<1>4. /\ ext_rsize' = ext_rsize /\ rbuff_ext' = [rbuff_ext EXCEPT ![r] = m.body]
      /\ rbuff' = rbuff
      /\ UNCHANGED <<given, group, arr, split, totSize>> /\ UNCHANGED <<given, group, arr, split>>
      /\ TakeAndSend(r, x, m, x, <<>>) /\ net[x][r] # <<>> /\ pc' = [pc EXCEPT ![r] = "merge"]
  BY DEF RecvExtraData, sizes, TakeAndSend
<1>5. TakenBy(r, x) = 1
  BY <1>1, <1>2 DEF TakenBy, ExtraTaken
<1>6. /\ rbuff_ext'[r] = m.body /\ pc'[r] = "merge"
      /\ \A s \in Procs \ {r} : rbuff_ext'[s] = rbuff_ext[s] /\ pc'[s] = pc[s]
  BY <1>3, <1>4
<1>7. Held(r) = l /\ l \in Seq(Keys)
  <2>1. lbuff(r) \in Seq(Keys)
    BY <1>1, CutSizes
  <2>2. Held(r) = l
    BY <1>1 DEF Held
  <2> QED BY <1>3, <2>1, <2>2, SizeOfConcat
<1>8. m.body \in Seq(Keys)
  BY <1>2, <1>4, HeadIs
<1>9. ASSUME NEW to, NEW n, \A K : Gone(to, n, K) = 0
      PROVE  Balanced(r, x, to, n, Held(r), h) /\ h \in Seq(Keys)
  <2> DEFINE b == m.body
  <2>1. l \in Seq(Keys) /\ Held(r) = l
    BY <1>7
  <2> HIDE DEF l, b
  <2>2. Balanced(r, x, to, n, l, l \o b) /\ l \o b \in Seq(Keys)
    BY <1>2, <1>4, <1>5, <1>9, <2>1, BlockComes DEF b
  <2> QED BY <2>1, <2>2 DEF l, b
<1>10. Balanced(r, x, Nobody, m, Held(r), h) /\ h \in Seq(Keys) /\ m.body \in Seq(Keys)
  <2>1. \A K : Gone(Nobody, m, K) = 0
    BY <1>2 DEF Gone
  <2> HIDE DEF x, m, l, h
  <2> QED BY <1>8, <1>9, <2>1
<1>11. Extras'
  <2>1. Len(m.body) = ext_rsize[r]
    <3>1. MessagesMatch
      BY TrafficMatches DEF IInv
    <3>2. x \in Awaited(r)
      BY <1>1 DEF Awaited
    <3> HIDE DEF x
    <3> QED BY <1>1, <1>4, <3>1, <3>2 DEF MessagesMatch, Announced
  <2>2. m.body = <<>> \/ ext_rsize[r] > 0
    <3> DEFINE b == m.body
    <3>1. b \in Seq(Keys) /\ Len(b) = ext_rsize[r]
      BY <1>10, <2>1
    <3> HIDE DEF b
    <3>2. b = <<>> \/ Len(b) > 0
      BY <3>1
    <3> QED BY <3>1, <3>2 DEF b
  <2> QED BY <1>4, <1>6, <2>2, ExtrasStay
<1>12. h = Held(r)'
  BY <1>4, <1>6, HeldNext
<1>13. Relays(r, x, Nobody, m)
  <2> HIDE DEF x, m
  <2>1. Exchanges(r, x, Nobody, m) /\ net' \in [Procs -> [Procs -> Seq(Messages)]]
    BY <1>2, <1>3, <1>4, TakeIs
  <2> QED BY <1>2, <2>1 DEF Relays
<1> HIDE DEF x, m, l, h
<1> QED BY <1>1, <1>4, <1>6, <1>10, <1>11, <1>12, <1>13, ExchangeBooks

----------------------------------------------------------------------------
(* The other steps of one process *)

LEMMA SortSteady ==
  ASSUME IInv, NEW r \in Procs, net' = net, NEW h, NEW h1, Shifts(r, h, h1),
         NEW c, Closed(c), NEW K, r \in c => Size(h1, K) = Size(h, K)
  PROVE  Steady(c, K)
<1>1. IsFiniteSet(c) /\ c \subseteq Procs
  BY ClosedIs
<1>2. HeldStep(c, HeldBy, HeldBy', r)
  <2>1. \A s \in Procs : HeldBy[s] \in Seq(Keys)
    BY AllHeldAre
  <2>2. HeldBy'[r] \in Seq(Keys) /\ \A s \in Procs \ {r} : HeldBy'[s] = HeldBy[s]
    BY DEF Shifts
  <2> HIDE DEF Keys, HeldBy
  <2>3. \A s \in Procs : HeldBy'[s] \in Seq(Keys)
    BY <2>1, <2>2
  <2> QED BY <1>1, <2>1, <2>2, <2>3 DEF HeldStep
<1>3. \A s, d \in Procs : IsFiniteSet(WhereSent(net[s][d], K))
  <2> SUFFICES ASSUME NEW s \in Procs, NEW d \in Procs PROVE IsFiniteSet(WhereSent(net[s][d], K))
    OBVIOUS
  <2> DEFINE M == Messages
             q == net[s][d]
  <2>1. q \in Seq(M) /\ \A x \in M : x.body \in Seq(Keys)
    BY DEF IInv, Values, Messages
  <2> HIDE DEF M, q
  <2>2. IsFiniteSet(WhereSent(q, K))
    BY <2>1, SentFinite
  <2> QED BY <2>2 DEF q
<1>4. Nobody # r /\ Nobody \notin c
  BY <1>1, NobodyIs DEF IInv
<1>5. NetStep(c, K, net, net', r, Nobody, Nobody, 0, 0)
  BY <1>1, <1>3, <1>4 DEF NetStep
<1>6. r \in c => Size(HeldBy'[r], K) + 0 = Size(HeldBy[r], K) + 0
  BY DEF Shifts
<1> DEFINE f == HeldBy
           g == HeldBy'
           n == net
           n1 == net'
<1> HIDE DEF f, g, n, n1
<1>7. /\ HeldStep(c, f, g, r) /\ NetStep(c, K, n, n1, r, Nobody, Nobody, 0, 0)
      /\ r \in c => Size(g[r], K) + 0 = Size(f[r], K) + 0
  BY <1>2, <1>5, <1>6 DEF f, g, n, n1
<1>8. Total(c, K, g, n1) = Total(c, K, f, n)
  BY <1>7, TotalStays
<1> QED BY <1>8 DEF Steady, f, g, n, n1

\* Process r sorts what it holds; below the split keys that count nothing changes.
LEMMA SortBooks ==
  ASSUME IInv, Balance, NEW r \in Procs, NEW a, a \in SortedCopies(Held(r)),
         NEW l \in Labels \ {"data", "extraData", "merge"},
         pc' = [pc EXCEPT ![r] = l], arr' = [arr EXCEPT ![r] = a],
         UNCHANGED <<given, group, split, sizes, buffers, net>>,
         \A s \in Procs : pc[s] \in Round /\ r \in comm[s] =>
           Size(a, LowerKeys(split[s].key)) = Size(Held(r), LowerKeys(split[s].key)),
         DOMAIN totSize' = Procs, \A s \in Procs \ {r} : totSize'[s] = totSize[s],
         l \in Counting => pc[r] \in Counting /\ totSize'[r] = totSize[r],
         l \in Round <=> pc[r] \in Round, l \notin {"size", "extraSize"},
         l = "split" => pc[r] = "merge" /\ totSize'[r] = TotSizeNew(r)
  PROVE  Balance'
<1>1. pc \in [Procs -> Labels] /\ arr \in [Procs -> Seq(Keys)]
  BY DEF IInv, Places, Values
<1>2. /\ pc'[r] = l /\ arr'[r] = a
      /\ \A s \in Procs \ {r} : pc'[s] = pc[s] /\ arr'[s] = arr[s]
  BY <1>1
<1>3. /\ rbuff' = rbuff /\ rbuff_ext' = rbuff_ext /\ ext_rsize' = ext_rsize
      /\ UNCHANGED <<given, group, split>> /\ net' = net
  BY DEF sizes, buffers
<1>4. /\ \A s \in Procs \ {r} : HeldBy'[s] = HeldBy[s]
      /\ HeldBy'[r] = Held(r)' /\ HeldBy[r] = Held(r)
  BY <1>2, <1>3, OthersHold
<1>5. Held(r)' = a
  BY <1>2 DEF Held
<1>6. Held(r) \in Seq(Int)
  BY AllHeldAre DEF Keys
<1>7. a \in Seq(Keys)
  BY <1>6, SortedCopiesAre DEF Keys
<1>8. Shifts(r, Held(r), a)
  BY <1>4, <1>5, <1>7 DEF Shifts
<1>9. Size(a, Keys) = Size(Held(r), Keys) /\ \A v \in Keys : Size(a, {v}) = Size(Held(r), {v})
  <2> DEFINE s == Held(r)
  <2>1. s \in Seq(Int) /\ a \in SortedCopies(s)
    BY <1>6
  <2> HIDE DEF s
  <2>2. (\A v \in Int : Size(a, {v}) = Size(s, {v})) /\ Size(a, Keys) = Size(s, Keys)
    BY <2>1, SortedSizes
  <2> QED BY <2>2 DEF s, Keys
<1>10. Closed(Procs) /\ \A s \in Procs : Closed(comm[s])
  BY DEF Closed
<1>11. ASSUME NEW v \in Keys PROVE Steady(Procs, {v})
  BY <1>3, <1>8, <1>9, <1>10, SortSteady
<1>12. ASSUME NEW s \in Procs PROVE Steady(comm[s], Keys)
  BY <1>3, <1>8, <1>9, <1>10, SortSteady
<1>13. ASSUME NEW s \in Procs, pc[s] \in Round PROVE Steady(comm[s], LowerKeys(split[s].key))
  <2> DEFINE c == comm[s]
             K == LowerKeys(split[s].key)
  <2>1. Closed(c) /\ (r \in c => Size(a, K) = Size(Held(r), K))
    BY <1>10, <1>13
  <2> HIDE DEF c, K
  <2>2. Steady(c, K)
    BY <1>3, <1>8, <2>1, SortSteady
  <2> QED BY <2>2 DEF c, K
<1>14. Extras'
  BY <1>2, <1>3, ExtrasStay
<1>15. /\ pc'[r] \in Counting => pc[r] \in Counting /\ totSize'[r] = totSize[r]
       /\ pc'[r] \in Round <=> pc[r] \in Round
       /\ pc'[r] = "split" => pc[r] = "merge" /\ totSize'[r] = TotSizeNew(r)
       /\ \A s \in Procs \ {r} : pc'[s] = pc[s] /\ totSize'[s] = totSize[s]
  BY <1>2
<1> QED BY <1>3, <1>11, <1>12, <1>13, <1>14, <1>15, BooksKept

LEMMA LocalSortBooks ==
  ASSUME IInv, Balance, NEW r \in Procs, LocalSort(r)
  PROVE  Balance'
<1> DEFINE l == LoopTest(npes[r], totSize[r])
<1>1. pc[r] = "sort" /\ pc[r] \notin Round /\ pc[r] \in Counting /\ Held(r) = arr[r]
  BY DEF LocalSort, Round, Counting, Held
<1>2. PICK a \in SortedCopies(Held(r)) : arr' = [arr EXCEPT ![r] = a]
  BY <1>1 DEF LocalSort
<1>3. /\ l \in {"sample", "partition"} /\ l \in Labels \ {"data", "extraData", "merge"}
      /\ l \notin Round
  BY DEF LoopTest, Labels, Round
<1>4. /\ pc' = [pc EXCEPT ![r] = l] /\ totSize' = totSize
      /\ UNCHANGED <<given, group, split, sizes, buffers, net>>
  BY DEF LocalSort
<1>5. ASSUME NEW s \in Procs, pc[s] \in Round, r \in comm[s] PROVE FALSE
  BY <1>1, <1>5 DEF Balance, Abreast
<1>6. DOMAIN totSize' = Procs /\ \A s \in Procs \ {r} : totSize'[s] = totSize[s]
  BY <1>4 DEF Balance
<1>7. /\ l \in Counting => pc[r] \in Counting /\ totSize'[r] = totSize[r]
      /\ l \in Round <=> pc[r] \in Round
      /\ l \notin {"size", "extraSize"} /\ l # "split"
  BY <1>1, <1>3, <1>4 DEF Counting, Round
<1> HIDE DEF l
<1> QED BY <1>2, <1>3, <1>4, <1>5, <1>6, <1>7, SortBooks

LEMMA MergeBooks ==
  ASSUME IInv, Balance, NEW r \in Procs, Merge(r)
  PROVE  Balance'
<1> DEFINE ext == IF ext_rsize[r] > 0 THEN rbuff_ext[r] ELSE <<>>
           k == split[r].key
<1>1. /\ pc[r] = "merge" /\ pc[r] \in Round /\ pc' = [pc EXCEPT ![r] = "split"]
      /\ Held(r) = lbuff(r) \o rbuff[r] \o rbuff_ext[r]
  BY DEF Merge, Round, Held
<1>2. PICK a \in SortedCopies(lbuff(r) \o rbuff[r] \o ext) : arr' = [arr EXCEPT ![r] = a]
  BY DEF Merge
<1>3. rbuff_ext[r] = ext
  <2>1. rbuff_ext[r] = <<>> \/ ext_rsize[r] > 0
    BY <1>1 DEF Balance, Extras
  <2> QED BY <2>1
<1>4. a \in SortedCopies(Held(r))
  BY <1>1, <1>2, <1>3
<1>5. /\ UNCHANGED <<given, group, split, sizes, buffers, net>>
      /\ totSize' = [totSize EXCEPT ![r] = TotSizeNew(r)] /\ DOMAIN totSize = Procs
  BY DEF Merge, Balance
<1>6. /\ DOMAIN totSize' = Procs /\ totSize'[r] = TotSizeNew(r)
      /\ \A s \in Procs \ {r} : totSize'[s] = totSize[s]
  BY <1>5
<1>7. Held(r) \in Seq(Keys) /\ Held(r) \in Seq(Int)
  BY AllHeldAre DEF Keys
<1>8. a \in Seq(Keys) /\ Range(a) \subseteq Range(Held(r)) /\ Size(a, Keys) = Size(Held(r), Keys)
  <2> DEFINE h == Held(r)
  <2>1. h \in Seq(Int) /\ a \in SortedCopies(h)
    BY <1>4, <1>7
  <2> HIDE DEF h
  <2>2. a \in Seq(Int) /\ Range(a) \subseteq Range(h)
    BY <2>1, SortedCopiesAre
  <2>3. Size(a, Keys) = Size(h, Keys)
    BY <2>1, SortedSizes
  <2> QED BY <2>2, <2>3 DEF h, Keys
<1>9. \A v \in Range(Held(r)) : Side(r, v)
  <2>1. Values /\ Ascending(arr[r])
    BY <1>1 DEF IInv, Sorted
  <2>2. lbuff(r) \in Seq(Int) /\ \A v \in Range(lbuff(r)) : Side(r, v)
    BY <2>1, BlockCut DEF Keys
  <2>3. rbuff[r] \in Seq(Int) /\ rbuff_ext[r] \in Seq(Int)
    BY DEF IInv, Values, Keys
  <2>4. \A v \in Range(rbuff[r]) \cup Range(rbuff_ext[r]) : Side(r, v)
    BY <1>1 DEF IInv, Sides
  <2>5. /\ lbuff(r) \o rbuff[r] \in Seq(Int)
        /\ Range(lbuff(r) \o rbuff[r]) \subseteq Range(lbuff(r)) \cup Range(rbuff[r])
    BY <2>2, <2>3, RangeOfConcat
  <2>6. Range((lbuff(r) \o rbuff[r]) \o rbuff_ext[r])
          \subseteq Range(lbuff(r) \o rbuff[r]) \cup Range(rbuff_ext[r])
    BY <2>3, <2>5, RangeOfConcat
  <2> QED BY <1>1, <2>2, <2>4, <2>5, <2>6
<1>10. Size(a, LowerKeys(k)) = Size(Held(r), LowerKeys(k))
  <2>1. k \in Int
    BY DEF IInv, Values, Keys
  <2>2. Range(Held(r)) \subseteq Int
    BY <1>7 DEF Range
  <2>3. CASE Upper(r)
    <3>1. \A v \in Range(Held(r)) : v \notin LowerKeys(k)
      BY <1>9, <2>2, <2>1, <2>3 DEF Side, LowerKeys
    <3>2. \A v \in Range(a) : v \notin LowerKeys(k)
      BY <1>8, <3>1
    <3>3. Size(Held(r), LowerKeys(k)) = 0
      BY <1>7, <3>1, SizeOfWhole
    <3>4. Size(a, LowerKeys(k)) = 0
      BY <1>8, <3>2, SizeOfWhole
    <3> QED BY <3>3, <3>4
  <2>4. CASE ~Upper(r)
    <3>1. \A v \in Range(Held(r)) : v \in LowerKeys(k)
      BY <1>9, <2>2, <2>4 DEF Side, LowerKeys, Keys
    <3>2. \A v \in Range(a) : v \in LowerKeys(k)
      BY <1>8, <3>1
    <3>3. Size(Held(r), LowerKeys(k)) = Size(Held(r), Keys)
      BY <1>7, <3>1, SizeOfWhole
    <3>4. Size(a, LowerKeys(k)) = Size(a, Keys)
      BY <1>8, <3>2, SizeOfWhole
    <3> QED BY <1>8, <3>3, <3>4
  <2> QED BY <2>3, <2>4
<1>11. ASSUME NEW s \in Procs, pc[s] \in Round, r \in comm[s]
       PROVE  Size(a, LowerKeys(split[s].key)) = Size(Held(r), LowerKeys(split[s].key))
  <2>1. split[r] = split[s]
    BY <1>11 DEF IInv, Sorted
  <2> QED BY <1>10, <2>1
<1>12. /\ "split" \in Labels \ {"data", "extraData", "merge"} /\ "split" \in Round
       /\ "split" \notin Counting /\ "split" \notin {"size", "extraSize"}
  BY DEF Labels, Round, Counting
<1> HIDE DEF ext, k
<1> QED BY <1>1, <1>2, <1>4, <1>5, <1>6, <1>11, <1>12, SortBooks

----------------------------------------------------------------------------
(* Sums over a communicator, and over its halves *)

LEMMA Silent ==
  ASSUME NEW c, NEW K, NEW n, \A s, d \in c : n[s][d] = <<>>
  PROVE  SentSum(c, K, n) = 0
<1> DEFINE f == [e \in c \X c |-> WhereSent(n[e[1]][e[2]], K)]
<1>1. WhereSent(<<>>, K) = {}
  BY SentNone
<1>2. ASSUME NEW x \in DOMAIN f PROVE f[x] = {}
  <2>1. x[1] \in c /\ x[2] \in c
    OBVIOUS
  <2>2. n[x[1]][x[2]] = <<>>
    BY <2>1
  <2> QED BY <1>1, <2>2
<1> HIDE DEF f
<1>3. Together(f) = 0
  BY <1>2, TogetherNone
<1> QED BY <1>3 DEF SentSum, f

LEMMA HeldSplits ==
  ASSUME NEW A, NEW B, A \cap B = {}, IsFiniteSet(A), IsFiniteSet(B), NEW K,
         NEW h, \A s \in A \cup B : h[s] \in Seq(Keys)
  PROVE  /\ HeldSum(A \cup B, K, h) = HeldSum(A, K, h) + HeldSum(B, K, h)
         /\ HeldSum(A, K, h) \in Nat /\ HeldSum(B, K, h) \in Nat
<1> DEFINE f == [s \in A \cup B |-> Where(h[s], K)]
<1>1. DOMAIN f = A \cup B /\ \A x \in DOMAIN f : IsFiniteSet(f[x])
  <2>1. ASSUME NEW x \in A \cup B PROVE IsFiniteSet(Where(h[x], K))
    BY SizeIs
  <2> QED BY <2>1
<1>2. /\ [x \in A |-> f[x]] = [x \in A |-> Where(h[x], K)]
      /\ [x \in B |-> f[x]] = [x \in B |-> Where(h[x], K)]
  OBVIOUS
<1> HIDE DEF f
<1>3. /\ Together(f) = Together([x \in A |-> f[x]]) + Together([x \in B |-> f[x]])
      /\ Together([x \in A |-> f[x]]) \in Nat /\ Together([x \in B |-> f[x]]) \in Nat
  BY <1>1, TogetherSplits
<1> QED BY <1>2, <1>3 DEF HeldSum, f

LEMMA HeldNone ==
  ASSUME NEW c, NEW K, NEW h, \A s \in c : Where(h[s], K) = {}
  PROVE  HeldSum(c, K, h) = 0
<1> DEFINE f == [s \in c |-> Where(h[s], K)]
<1>1. \A x \in DOMAIN f : f[x] = {}
  OBVIOUS
<1> HIDE DEF f
<1>2. Together(f) = 0
  BY <1>1, TogetherNone
<1> QED BY <1>2 DEF HeldSum, f

\* In a quiet communicator what its members hold is all there is.
LEMMA QuietLoad ==
  ASSUME IInv, NEW r \in Procs,
         (\A s \in comm[r] : pc[s] = "sample") \/ (\A s \in comm[r] : pc[s] = "split"),
         NEW c \in SUBSET comm[r], NEW K
  PROVE  Load(c, K) = HeldSum(c, K, HeldBy) /\ HeldSum(c, K, HeldBy) \in Nat
<1>1. IsFiniteSet(comm[r]) /\ comm[r] \subseteq Procs
  BY ClosedIs DEF Closed
<1>2. ASSUME NEW s \in c, NEW d \in c PROVE net[s][d] = <<>>
  BY <1>1, Quiet
<1>3. SentSum(c, K, net) = 0
  <2> DEFINE n == net
  <2>1. \A s, d \in c : n[s][d] = <<>>
    BY <1>2
  <2> HIDE DEF n
  <2>2. SentSum(c, K, n) = 0
    BY <2>1, Silent
  <2> QED BY <2>2 DEF n
<1>4. HeldSum(c, K, HeldBy) \in Nat
  <2> DEFINE h == HeldBy
  <2>1. IsFiniteSet(c)
    BY <1>1, FS_Subset
  <2>2. \A s \in c : h[s] \in Seq(Keys)
    BY <1>1, AllHeldAre
  <2>3. IsFiniteSet({})
    BY FS_EmptySet
  <2> HIDE DEF h
  <2>4. HeldSum(c, K, h) \in Nat
    <3>1. c \cap {} = {} /\ \A s \in c \cup {} : h[s] \in Seq(Keys)
      BY <2>2
    <3> HIDE DEF Keys
    <3> QED BY <2>1, <2>3, <3>1, HeldSplits
  <2> QED BY <2>4 DEF h
<1> QED BY <1>3, <1>4 DEF Load, Total

----------------------------------------------------------------------------
(* The collective calls *)

\* A call that leaves the blocks where they are.
Calls ==
  /\ UNCHANGED <<given, arr, sizes, buffers, net>> /\ DOMAIN totSize' = Procs
  /\ \A s \in Procs :
       \/ /\ pc'[s] = pc[s] /\ comm'[s] = comm[s] /\ npes'[s] = npes[s] /\ myrank'[s] = myrank[s]
          /\ split'[s] = split[s] /\ totSize'[s] = totSize[s]
       \/ {pc[s], pc'[s]} \cap {"size", "extraSize", "data", "extraData", "merge"} = {}

LEMMA HeldSame == ASSUME Calls PROVE HeldBy' = HeldBy
<1>1. Procs' = Procs /\ arr' = arr /\ rbuff' = rbuff /\ rbuff_ext' = rbuff_ext
  BY DEF Calls, given, buffers, Procs
<1>2. ASSUME NEW s \in Procs PROVE Held(s)' = Held(s)
  <2>1. CASE {pc[s], pc'[s]} \cap {"size", "extraSize", "data", "extraData", "merge"} = {}
    <3>1. /\ pc[s] \notin {"data", "extraData", "merge"}
          /\ pc'[s] \notin {"data", "extraData", "merge"}
      BY <2>1
    <3> QED BY <1>1, <3>1 DEF Held
  <2>2. CASE ~({pc[s], pc'[s]} \cap {"size", "extraSize", "data", "extraData", "merge"} = {})
    <3>1. /\ pc'[s] = pc[s] /\ comm'[s] = comm[s] /\ npes'[s] = npes[s] /\ myrank'[s] = myrank[s]
          /\ split'[s] = split[s]
      BY <2>2 DEF Calls
    <3>2. lbuff(s)' = lbuff(s)
      BY <1>1, <3>1, SameBlocks
    <3> QED BY <1>1, <3>1, <3>2 DEF Held
  <2> QED BY <2>1, <2>2
<1> QED BY <1>1, <1>2 DEF HeldBy

LEMMA CallBooks ==
  ASSUME Balance, Calls, Abreast', \A s \in Procs : Counted(s)'
  PROVE  Balance'
<1>1. /\ Procs' = Procs /\ arr0' = arr0 /\ net' = net /\ Keys' = Keys
      /\ rbuff_ext' = rbuff_ext /\ ext_rsize' = ext_rsize /\ DOMAIN totSize' = Procs
  BY DEF Calls, given, sizes, buffers, Procs, Keys
<1>2. HeldBy' = HeldBy
  BY HeldSame
<1>3. Kept'
  BY <1>1, <1>2 DEF Balance, Kept, Load
<1>4. Extras'
  <2> SUFFICES ASSUME NEW s \in Procs
               PROVE  /\ pc'[s] \in {"size", "extraSize", "data", "extraData"} => rbuff_ext[s] = <<>>
                      /\ pc'[s] = "merge" => rbuff_ext[s] = <<>> \/ ext_rsize[s] > 0
    BY <1>1 DEF Extras
  <2>1. \/ pc'[s] = pc[s]
        \/ pc'[s] \notin {"size", "extraSize", "data", "extraData", "merge"}
    BY DEF Calls
  <2> QED BY <2>1 DEF Balance, Extras
<1> QED BY <1>1, <1>3, <1>4 DEF Balance

\* What is counted stays so where the call changes nothing.
LEMMA CountedStays ==
  ASSUME Balance, Calls, NEW s \in Procs, pc'[s] = pc[s], comm'[s] = comm[s], npes'[s] = npes[s],
         myrank'[s] = myrank[s], split'[s] = split[s], totSize'[s] = totSize[s]
  PROVE  Counted(s)'
<1>1. Upper(s)' = Upper(s)
  BY SameView
<1>2. HeldBy' = HeldBy /\ net' = net
  BY HeldSame DEF Calls
<1>3. Counted(s)
  BY DEF Balance
<1> QED BY <1>1, <1>2, <1>3 DEF Counted, Load, LowerKeys, Keys, Counting, Round

LEMMA StutterBooks ==
  ASSUME Balance, UNCHANGED vars
  PROVE  Balance'
<1>1. /\ Calls
      /\ \A s \in Procs : /\ pc'[s] = pc[s] /\ comm'[s] = comm[s] /\ npes'[s] = npes[s]
                          /\ myrank'[s] = myrank[s] /\ split'[s] = split[s]
                          /\ totSize'[s] = totSize[s]
      /\ Procs' = Procs /\ pc' = pc /\ comm' = comm
  BY DEF Calls, vars, group, Balance, given, Procs
<1>2. \A s \in Procs : Counted(s)'
  BY <1>1, CountedStays
<1>3. Abreast'
  BY <1>1 DEF Balance, Abreast, Round
<1> QED BY <1>1, <1>2, <1>3, CallBooks

LEMMA PartitionBooks ==
  ASSUME Balance, PartitionW
  PROVE  Balance'
<1>1. /\ \A s \in Procs : pc[s] = "partition" /\ pc'[s] = "done"
      /\ UNCHANGED <<given, group, arr, totSize, split, sizes, buffers, net>>
  BY DEF PartitionW, Goto
<1>2. Calls /\ Procs' = Procs
  BY <1>1 DEF Calls, Balance, given, Procs
<1>3. \A s \in Procs : pc'[s] \notin Counting \cup Round \cup {"split"}
  BY <1>1 DEF Counting, Round
<1>4. Abreast'
  BY <1>2, <1>3 DEF Abreast, Round
<1>5. \A s \in Procs : Counted(s)'
  BY <1>3 DEF Counted, Counting, Round
<1> QED BY <1>2, <1>4, <1>5, CallBooks

LEMMA SumSizesBooks ==
  ASSUME IInv, Balance, SumSizes
  PROVE  Balance'
<1>1. /\ \A s \in Procs : pc[s] = "allreduce" /\ comm[s] = Procs /\ pc'[s] = "sort"
      /\ totSize' = [r \in Procs |-> Together([s \in Procs |-> DOMAIN arr[s]])]
      /\ UNCHANGED <<given, group, arr, split, sizes, buffers, net>>
  BY DEF SumSizes, Goto, AllAt
<1>2. Calls /\ Procs' = Procs /\ comm' = comm /\ net' = net
  BY <1>1 DEF Calls, given, group, Procs
<1>3. \A s \in Procs : pc'[s] \notin Round
  BY <1>1 DEF Round
<1>4. Abreast'
  BY <1>2, <1>3 DEF Abreast, Round
<1>5. ASSUME NEW s \in Procs, NEW d \in Procs PROVE net[s][d] = <<>>
  <2>1. SentBy(s, d) = 0 /\ TakenBy(d, s) = 0
    BY <1>1 DEF SentBy, TakenBy, MainSent, ExtraSent, MainTaken, ExtraTaken
  <2>2. net[s][d] \in Seq(Messages) /\ Len(net[s][d]) = 0
    BY <2>1 DEF IInv, Values, Traffic, Channel
  <2> QED BY <2>2
<1>6. SentSum(Procs, Keys, net) = 0
  <2> DEFINE c == Procs
             n == net
  <2>1. \A s, d \in c : n[s][d] = <<>>
    BY <1>5
  <2> HIDE DEF c, n
  <2>2. SentSum(c, Keys, n) = 0
    BY <2>1, Silent
  <2> QED BY <2>2 DEF c, n
<1>7. Together([s \in Procs |-> DOMAIN arr[s]]) = HeldSum(Procs, Keys, HeldBy)
  <2>1. ASSUME NEW s \in Procs PROVE DOMAIN arr[s] = Where(HeldBy[s], Keys)
    <3>1. HeldBy[s] = arr[s] /\ arr[s] \in Seq(Keys)
      <4>1. Held(s) = arr[s]
        BY <1>1 DEF Held
      <4> QED BY <4>1, AllHeldAre
    <3> QED BY <3>1 DEF Where
  <2>2. [s \in Procs |-> DOMAIN arr[s]] = [s \in Procs |-> Where(HeldBy[s], Keys)]
    BY <2>1
  <2> QED BY <2>2 DEF HeldSum
<1>8. HeldSum(Procs, Keys, HeldBy) \in Nat
  <2>1. HeldSum(Procs, Keys, HeldBy) = Together([s \in Procs |-> Where(HeldBy[s], Keys)])
    BY DEF HeldSum
  <2> DEFINE f == [s \in Procs |-> Where(HeldBy[s], Keys)]
  <2>2. IsFiniteSet(DOMAIN f) /\ \A x \in DOMAIN f : IsFiniteSet(f[x])
    <3>1. IsFiniteSet(Procs)
      BY ClosedIs DEF Closed
    <3>2. ASSUME NEW s \in Procs PROVE IsFiniteSet(Where(HeldBy[s], Keys))
      <4>1. HeldBy[s] \in Seq(Keys)
        BY AllHeldAre
      <4> QED BY <4>1, SizeIs
    <3> QED BY <3>1, <3>2
  <2> HIDE DEF f
  <2>3. Together(f) \in Nat
    BY <2>2, PartsFinite
  <2> QED BY <2>1, <2>3 DEF f
<1>9. \A s \in Procs : totSize'[s] = Total(Procs, Keys, HeldBy, net)
  BY <1>1, <1>6, <1>7, <1>8 DEF Total
<1>10. ASSUME NEW s \in Procs PROVE Counted(s)'
  <2>1. pc'[s] \notin Round /\ pc'[s] # "split" /\ comm'[s] = Procs
    BY <1>1, <1>2, <1>3
  <2>2. HeldBy' = HeldBy
    BY <1>2, HeldSame
  <2>3. totSize'[s] = Load(comm[s], Keys)'
    BY <1>2, <1>9, <2>1, <2>2 DEF Load, Keys
  <2> QED BY <2>1, <2>3 DEF Counted, Counting, Round
<1> QED BY <1>2, <1>4, <1>10, CallBooks

\* No process of another communicator has a member here.
LEMMA Outside ==
  ASSUME IInv, NEW r \in Procs
  PROVE  /\ comm[r] \subseteq Procs /\ r \in comm[r]
         /\ \A s \in comm[r] : comm[s] = comm[r]
         /\ \A s \in Procs : s \in comm[s] /\ (s \notin comm[r] => comm[s] \cap comm[r] = {})
<1>1. Numbered /\ Groups
  BY DEF IInv
<1>2. ASSUME NEW s \in Procs, s \notin comm[r] PROVE comm[s] \cap comm[r] = {}
  <2> SUFFICES ASSUME NEW t \in comm[s], t \in comm[r] PROVE FALSE
    OBVIOUS
  <2>1. comm[t] = comm[s] /\ comm[t] = comm[r] /\ s \in comm[s]
    BY <1>1, GroupFacts
  <2> QED BY <1>2, <2>1
<1> QED BY <1>1, <1>2, GroupFacts

LEMMA ChooseSplitBooks ==
  ASSUME IInv, Balance, NEW r \in Procs, ChooseSplit(comm[r])
  PROVE  Balance'
<1> DEFINE c == comm[r]
<1>1. PICK v \in UNION {Range(arr[x]) : x \in c} :
        split' = [s \in Procs |-> IF s \in c THEN [key |-> v, disp |-> GlbDisp(c, v)] ELSE split[s]]
  BY DEF ChooseSplit
<1>2. /\ \A s \in c : pc[s] = "sample" /\ comm[s] = c
      /\ pc' = [s \in Procs |-> IF s \in c THEN "exchange" ELSE pc[s]]
      /\ UNCHANGED <<given, group, arr, totSize, sizes, buffers, net>>
  BY DEF ChooseSplit, AllAt, Goto
<1>3. /\ c \subseteq Procs /\ r \in c
      /\ \A s \in Procs : s \in comm[s] /\ (s \notin c => comm[s] \cap c = {})
  BY Outside
<1>4. /\ \A s \in c : /\ pc'[s] = "exchange" /\ split'[s].key = v
                      /\ split'[s].disp = GlbDisp(c, v)
      /\ \A s \in Procs \ c : pc'[s] = pc[s] /\ split'[s] = split[s]
  <2> HIDE DEF c
  <2> QED BY <1>1, <1>2, <1>3
<1>5. /\ comm' = comm /\ npes' = npes /\ myrank' = myrank /\ totSize' = totSize /\ net' = net
      /\ DOMAIN totSize = Procs /\ Procs' = Procs
  BY <1>2 DEF group, given, Balance, Procs
<1>6. Calls
  <2>1. \A s \in c : {pc[s], pc'[s]} \cap {"size", "extraSize", "data", "extraData", "merge"} = {}
    BY <1>2, <1>4
  <2> HIDE DEF c
  <2> QED BY <1>2, <1>4, <1>5, <2>1 DEF Calls
<1>7. Abreast'
  <2> SUFFICES ASSUME NEW s \in Procs, pc'[s] \in Round, NEW t \in comm[s]
               PROVE  pc'[t] \in Round
    BY <1>5 DEF Abreast, Round
  <2>1. CASE s \in c
    <3>1. t \in c
      BY <1>2, <2>1
    <3> QED BY <1>4, <3>1 DEF Round
  <2>2. CASE s \notin c
    <3>1. t \notin c /\ t \in Procs
      BY <1>3, <2>2, Outside
    <3>2. pc[t] \in Round
      BY <1>4, <2>2 DEF Balance, Abreast
    <3> QED BY <1>4, <3>1, <3>2
  <2> QED BY <2>1, <2>2
<1>8. HeldBy' = HeldBy
  BY <1>6, HeldSame
<1>9. GlbDisp(c, v) = Load(c, LowerKeys(v))
  <2>1. ASSUME NEW s \in c PROVE Smaller(arr[s], v) = Where(HeldBy[s], LowerKeys(v))
    <3>1. Held(s) = arr[s] /\ s \in Procs
      BY <1>2, <1>3, <2>1 DEF Held
    <3>2. HeldBy[s] = arr[s] /\ arr[s] \in Seq(Int)
      BY <3>1, AllHeldAre DEF Keys
    <3> QED BY <3>2 DEF Smaller, Where, LowerKeys, Keys
  <2>2. [s \in c |-> Smaller(arr[s], v)] = [s \in c |-> Where(HeldBy[s], LowerKeys(v))]
    <3> HIDE DEF c
    <3> QED BY <2>1
  <2>3. GlbDisp(c, v) = HeldSum(c, LowerKeys(v), HeldBy)
    BY <2>2 DEF GlbDisp, HeldSum
  <2>4. Load(c, LowerKeys(v)) = HeldSum(c, LowerKeys(v), HeldBy)
    BY <1>2, QuietLoad
  <2> QED BY <2>3, <2>4
<1>10. ASSUME NEW s \in Procs PROVE Counted(s)'
  <2>1. CASE s \in c
    <3>1. totSize[s] = Load(c, Keys)
      <4>1. pc[s] \in Counting /\ comm[s] = c
        BY <1>2, <2>1 DEF Counting
      <4> QED BY <4>1 DEF Balance, Counted
    <3>2. pc'[s] # "split" /\ comm'[s] = c
      BY <1>2, <1>4, <1>5, <2>1
    <3>3. totSize'[s] = Total(c, Keys, HeldBy', net')
      BY <1>5, <1>8, <3>1 DEF Load
    <3>4. split'[s].disp = Total(c, LowerKeys(split'[s].key), HeldBy', net')
      BY <1>4, <1>5, <1>8, <1>9, <2>1 DEF Load
    <3> QED BY <3>2, <3>3, <3>4 DEF Counted, Load, LowerKeys, Keys
  <2>2. CASE s \notin c
    <3>1. pc'[s] = pc[s] /\ split'[s] = split[s]
      BY <1>4, <2>2
    <3> QED BY <1>5, <1>6, <3>1, CountedStays
  <2> QED BY <2>1, <2>2
<1> QED BY <1>6, <1>7, <1>10, CallBooks

\* Before a communicator is split the totals of its members are those of their
\* halves.
LEMMA HalvesCount ==
  ASSUME IInv, Balance, NEW r \in Procs, \A s \in comm[r] : pc[s] = "split",
         NEW s \in comm[r]
  PROVE  totSize[s] = Load({t \in comm[r] : Upper(t) = Upper(s)}, Keys)
<1> DEFINE c == comm[r]
           A == {t \in c : ~Upper(t)}
           B == {t \in c : Upper(t)}
           k == split[s].key
           L == LowerKeys(k)
           h == HeldBy
<1>1. c \subseteq Procs /\ s \in Procs /\ comm[s] = c
  BY Outside
<1>2. A \in SUBSET c /\ B \in SUBSET c /\ c \in SUBSET c /\ A \cap B = {} /\ A \cup B = c
  OBVIOUS
<1>3. \A D \in SUBSET c : \A K : Load(D, K) = HeldSum(D, K, h) /\ HeldSum(D, K, h) \in Nat
  BY QuietLoad
<1>4. IsFiniteSet(A) /\ IsFiniteSet(B)
  <2>1. IsFiniteSet(c)
    BY ClosedIs DEF Closed
  <2> HIDE DEF c
  <2> QED BY <2>1, FS_Subset
<1>5. ASSUME NEW t \in c
      PROVE  /\ h[t] \in Seq(Keys)
             /\ ~Upper(t) => Where(h[t], L) = Where(h[t], Keys)
             /\ Upper(t) => Where(h[t], L) = {}
  <2>1. t \in Procs /\ pc[t] = "split" /\ pc[t] \in Round /\ pc[s] \in Round
    BY <1>1 DEF Round
  <2>2. split[t] = split[s]
    BY <1>1, <2>1 DEF IInv, Sorted
  <2>3. h[t] = arr[t] /\ arr[t] \in Seq(Keys)
    <3>1. Held(t) = arr[t]
      BY <2>1 DEF Held
    <3> QED BY <2>1, <3>1, AllHeldAre
  <2>4. \A v \in Range(arr[t]) : IF Upper(t) THEN v >= k ELSE v < k
    BY <2>1, <2>2 DEF IInv, Sides, Side
  <2>5. Range(arr[t]) \subseteq Int /\ k \in Int
    BY <1>1, <2>3 DEF Range, Keys, IInv, Values
  <2>6. /\ ~Upper(t) => \A v \in Range(arr[t]) : v \in L
        /\ Upper(t) => \A v \in Range(arr[t]) : v \notin L
    BY <2>4, <2>5 DEF LowerKeys, Keys
  <2> HIDE DEF k, L, h
  <2> QED BY <2>3, <2>6, SizeOfWhole
<1> HIDE DEF h, L
<1>6. HeldSum(c, Keys, h) = HeldSum(A, Keys, h) + HeldSum(B, Keys, h)
  <2>1. \A t \in A \cup B : h[t] \in Seq(Keys)
    BY <1>5
  <2> HIDE DEF A, B, Keys
  <2>2. HeldSum(A \cup B, Keys, h) = HeldSum(A, Keys, h) + HeldSum(B, Keys, h)
    BY <1>2, <1>4, <2>1, HeldSplits
  <2> QED BY <1>2, <2>2
<1>7. HeldSum(c, L, h) = HeldSum(A, L, h) + HeldSum(B, L, h)
  <2>1. \A t \in A \cup B : h[t] \in Seq(Keys)
    BY <1>5
  <2> HIDE DEF A, B, Keys
  <2>2. HeldSum(A \cup B, L, h) = HeldSum(A, L, h) + HeldSum(B, L, h)
    BY <1>2, <1>4, <2>1, HeldSplits
  <2> QED BY <1>2, <2>2
<1>8. HeldSum(A, L, h) = HeldSum(A, Keys, h)
  <2>1. [t \in A |-> Where(h[t], L)] = [t \in A |-> Where(h[t], Keys)]
    BY <1>5
  <2> QED BY <2>1 DEF HeldSum
<1>9. HeldSum(B, L, h) = 0
  <2>1. \A t \in B : Where(h[t], L) = {}
    BY <1>5
  <2> HIDE DEF B
  <2> QED BY <2>1, HeldNone
<1>10. split[s].disp = HeldSum(A, Keys, h)
  <2>1. pc[s] \in Round
    BY DEF Round
  <2>2. split[s].disp = Load(c, L)
    BY <1>1, <2>1 DEF Balance, Counted, L
  <2>3. Load(c, L) = HeldSum(c, L, h) /\ HeldSum(A, L, h) \in Nat
    BY <1>2, <1>3
  <2> HIDE DEF A, B, c
  <2> QED BY <1>7, <1>8, <1>9, <2>2, <2>3
<1>11. totSize[s] = IF Upper(s) THEN Load(c, Keys) - split[s].disp ELSE split[s].disp
  BY <1>1 DEF Balance, Counted
<1>12. Load(c, Keys) - split[s].disp = HeldSum(B, Keys, h)
  <2>1. /\ Load(c, Keys) = HeldSum(c, Keys, h)
        /\ HeldSum(A, Keys, h) \in Nat /\ HeldSum(B, Keys, h) \in Nat
    BY <1>2, <1>3
  <2> HIDE DEF A, B, c
  <2> QED BY <1>6, <1>10, <2>1
<1>13. {t \in c : Upper(t) = Upper(s)} = IF Upper(s) THEN B ELSE A
  <2>1. \A t \in c : (Upper(t) <=> Upper(s)) => Upper(t) = Upper(s)
    BY DEF Upper
  <2> QED BY <2>1, Zenon
<1>14. Load(A, Keys) = HeldSum(A, Keys, h) /\ Load(B, Keys) = HeldSum(B, Keys, h)
  BY <1>2, <1>3
<1> HIDE DEF A, B, c
<1>15. totSize[s] = Load(IF Upper(s) THEN B ELSE A, Keys)
  BY <1>10, <1>11, <1>12, <1>14
<1> QED BY <1>13, <1>15 DEF c

LEMMA CommSplitBooks ==
  ASSUME IInv, Balance, NEW r \in Procs, CommSplit(comm[r])
  PROVE  Balance'
<1> DEFINE c == comm[r]
<1>1. /\ Procs' = Procs
      /\ \A s \in Procs \ c : /\ comm'[s] = comm[s] /\ npes'[s] = npes[s]
                              /\ myrank'[s] = myrank[s] /\ pc'[s] = pc[s]
      /\ \A s \in c : /\ pc[s] = "split"
                      /\ (npes'[s] > 1 /\ pc'[s] = "sample") \/ pc'[s] = "partition"
                      /\ comm'[s] = {t \in c : Upper(t) = Upper(s)}
  BY SplitGroups DEF IInv
<1>2. /\ UNCHANGED <<given, arr, sizes, buffers, net>> /\ totSize' = totSize /\ split' = split
      /\ net' = net /\ DOMAIN totSize = Procs
  BY DEF CommSplit, Balance
<1>3. /\ c \subseteq Procs /\ \A s \in c : comm[s] = c
      /\ \A s \in Procs : s \in comm[s] /\ (s \notin c => comm[s] \cap c = {})
  BY Outside
<1>4. \A s \in c : pc[s] = "split" /\ pc'[s] \in {"sample", "partition"}
  <2> HIDE DEF c
  <2> QED BY <1>1
<1>5. Calls
  <2>1. \A s \in c : {pc[s], pc'[s]} \cap {"size", "extraSize", "data", "extraData", "merge"} = {}
    <3> HIDE DEF c
    <3> QED BY <1>4
  <2> HIDE DEF c
  <2> QED BY <1>1, <1>2, <2>1 DEF Calls
<1>6. HeldBy' = HeldBy
  BY <1>5, HeldSame
<1>7. Abreast'
  <2> SUFFICES ASSUME NEW s \in Procs, pc'[s] \in Round, NEW t \in comm'[s]
               PROVE  pc'[t] \in Round
    BY <1>1 DEF Abreast, Round
  <2>1. s \notin c
    BY <1>4 DEF Round
  <2>2. t \in comm[s] /\ t \notin c /\ t \in Procs
    BY <1>1, <1>3, <2>1, Outside
  <2>3. pc[t] \in Round
    BY <1>1, <2>1, <2>2 DEF Balance, Abreast
  <2> QED BY <1>1, <2>2, <2>3
<1>8. ASSUME NEW s \in Procs PROVE Counted(s)'
  <2>1. CASE s \in c
    <3>1. totSize[s] = Load(comm'[s], Keys)
      BY <1>1, <1>4, <2>1, HalvesCount
    <3>2. totSize'[s] = Total(comm'[s], Keys, HeldBy', net')
      BY <1>2, <1>6, <3>1 DEF Load
    <3>3. pc'[s] \notin Round /\ pc'[s] # "split"
      BY <1>4, <2>1 DEF Round
    <3> QED BY <3>2, <3>3 DEF Counted, Load, Keys, Round
  <2>2. CASE s \notin c
    <3>1. /\ comm'[s] = comm[s] /\ npes'[s] = npes[s] /\ myrank'[s] = myrank[s]
          /\ pc'[s] = pc[s] /\ split'[s] = split[s] /\ totSize'[s] = totSize[s]
      BY <1>1, <1>2, <2>2
    <3> QED BY <1>5, <3>1, CountedStays
  <2> QED BY <2>1, <2>2
<1> QED BY <1>5, <1>7, <1>8, CallBooks

----------------------------------------------------------------------------
(* The second invariant and what follows from it *)

LEMMA InitBalance == Init => Balance
<1> SUFFICES ASSUME Init PROVE Balance
  OBVIOUS
<1>1. IInv
  BY InitInv
<1>2. /\ \A r \in Procs : pc[r] = "allreduce" /\ rbuff_ext[r] = <<>>
      /\ arr = arr0 /\ DOMAIN totSize = Procs
      /\ \A s, d \in Procs : net[s][d] = <<>>
  BY DEF Init
<1>3. arr0 \in [Procs -> Seq(Keys)]
  BY <1>1, <1>2 DEF IInv, Values
<1>4. Abreast /\ Extras /\ \A r \in Procs : Counted(r)
  BY <1>2 DEF Abreast, Extras, Counted, Round, Counting
<1>5. ASSUME NEW v \in Keys PROVE Load(Procs, {v}) = HeldSum(Procs, {v}, arr0)
  <2>1. HeldBy = arr0
    <3>1. \A r \in Procs : Held(r) = arr0[r]
      BY <1>2 DEF Held
    <3> QED BY <1>3, <3>1 DEF HeldBy
  <2> DEFINE c == Procs
             n == net
             h == arr0
             K == {v}
  <2>2. \A s, d \in c : n[s][d] = <<>>
    BY <1>2
  <2>3. IsFiniteSet(c)
    BY <1>1, ClosedIs DEF Closed
  <2>4. \A s \in c : h[s] \in Seq(Keys)
    BY <1>3
  <2>5. Load(Procs, {v}) = HeldSum(c, K, h) + SentSum(c, K, n)
    BY <2>1 DEF Load, Total
  <2> HIDE DEF c, n, h, K
  <2>6. SentSum(c, K, n) = 0
    BY <2>2, Silent
  <2>7. HeldSum(c, K, h) \in Nat
    <3>1. IsFiniteSet({})
      BY FS_EmptySet
    <3>2. c \cap {} = {} /\ \A s \in c \cup {} : h[s] \in Seq(Keys)
      BY <2>4
    <3> HIDE DEF Keys
    <3> QED BY <2>3, <3>1, <3>2, HeldSplits
  <2> QED BY <2>5, <2>6, <2>7 DEF c, h, K
<1> QED BY <1>2, <1>3, <1>4, <1>5 DEF Balance, Kept

LEMMA NextBalance == IInv /\ Balance /\ [Next]_vars => Balance'
<1> SUFFICES ASSUME IInv, Balance, [Next]_vars PROVE Balance'
  OBVIOUS
<1>1. CASE SumSizes
  BY <1>1, SumSizesBooks
<1>2. CASE PartitionW
  BY <1>2, PartitionBooks
<1>3. CASE Returned \/ UNCHANGED vars
  BY <1>3, StutterBooks DEF Returned
<1>4. CASE \E r \in Procs : Local(r)
  <2>1. PICK r \in Procs : Local(r)
    BY <1>4
  <2>2. CASE LocalSort(r)
    BY <2>2, LocalSortBooks
  <2>3. CASE SendSize(r)
    BY <2>3, SendSizeBooks
  <2>4. CASE RecvSize(r)
    BY <2>4, RecvSizeBooks
  <2>5. CASE RecvExtraSize(r)
    BY <2>5, RecvExtraSizeBooks
  <2>6. CASE RecvData(r)
    BY <2>6, RecvDataBooks
  <2>7. CASE RecvExtraData(r)
    BY <2>7, RecvExtraDataBooks
  <2>8. CASE Merge(r)
    BY <2>8, MergeBooks
  <2> QED BY <2>1, <2>2, <2>3, <2>4, <2>5, <2>6, <2>7, <2>8 DEF Local
<1>5. CASE \E r \in Procs : Collective(r)
  BY <1>5, ChooseSplitBooks, CommSplitBooks DEF Collective
<1> QED BY <1>1, <1>2, <1>3, <1>4, <1>5 DEF Next

LEMMA BalanceConserves == IInv /\ Balance => KeysConserved
<1> SUFFICES ASSUME IInv, Balance PROVE KeysConserved
  OBVIOUS
<1>1. ASSUME NEW v \in UNION {Range(arr0[r]) : r \in Procs}
      PROVE  Together([r \in Procs |-> Where(arr0[r], {v})]) =
               Together([r \in Procs |-> Where(Held(r), {v})]) +
               Together([e \in Procs \X Procs |-> WhereSent(net[e[1]][e[2]], {v})])
  <2>1. v \in Keys
    <3>1. PICK r \in Procs : v \in Range(arr0[r])
      OBVIOUS
    <3>2. arr0[r] \in Seq(Keys)
      BY DEF Balance
    <3> QED BY <3>1, <3>2 DEF Range
  <2>2. Load(Procs, {v}) = HeldSum(Procs, {v}, arr0)
    BY <2>1 DEF Balance, Kept
  <2>3. [s \in Procs |-> Where(HeldBy[s], {v})] = [r \in Procs |-> Where(Held(r), {v})]
    BY DEF HeldBy
  <2> QED BY <2>2, <2>3 DEF Load, Total, HeldSum, SentSum
<1>2. ASSUME NEW r \in Procs, AllAt(comm[r], "sample")
      PROVE  totSize[r] = Together([s \in comm[r] |-> DOMAIN arr[s]])
  <2>1. comm[r] \subseteq Procs /\ r \in comm[r]
    BY Outside
  <2>2. \A s \in comm[r] : pc[s] = "sample"
    BY <1>2 DEF AllAt
  <2>3. totSize[r] = Load(comm[r], Keys)
    BY <2>1, <2>2 DEF Balance, Counted, Counting
  <2>4. Load(comm[r], Keys) = HeldSum(comm[r], Keys, HeldBy)
    BY <2>2, QuietLoad
  <2>5. ASSUME NEW s \in comm[r] PROVE DOMAIN arr[s] = Where(HeldBy[s], Keys)
    <3>1. Held(s) = arr[s] /\ s \in Procs
      BY <2>1, <2>2 DEF Held
    <3>2. HeldBy[s] = arr[s] /\ arr[s] \in Seq(Keys)
      BY <3>1, AllHeldAre
    <3> QED BY <3>2 DEF Where
  <2>6. [s \in comm[r] |-> DOMAIN arr[s]] = [s \in comm[r] |-> Where(HeldBy[s], Keys)]
    BY <2>5
  <2> QED BY <2>3, <2>4, <2>6 DEF HeldSum
<1> QED BY <1>1, <1>2 DEF KeysConserved

\* Whatever the interleaving, no key is lost, doubled or made up on the way from
\* the input to the last round: each is held by one process or on its way
\* between two as often as in the input; and totSize, which a process derives
\* from the position of the split key and never checks, is the number of keys in
\* its communicator when a round starts.
THEOREM KeysAlwaysConserved == Spec => []KeysConserved
<1>1. Init => IInv /\ Balance
  BY InitInv, InitBalance
<1>2. IInv /\ Balance /\ [Next]_vars => IInv' /\ Balance'
  BY NextInv, NextBalance
<1>3. IInv /\ Balance => KeysConserved
  BY BalanceConserves
<1> QED BY <1>1, <1>2, <1>3, PTL DEF Spec
=============================================================================
