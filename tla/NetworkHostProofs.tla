------------------------- MODULE NetworkHostProofs -------------------------
(***************************************************************************)
(* Proofs about the window and the machine's network, for any adapters,    *)
(* bind addresses, firewalls and bounds: how an address is chosen and what *)
(* the ranking of the adapters shows; that the share bundle and the admin  *)
(* page agree about the address; and that what a report says of the        *)
(* machine is so.                                                          *)
(***************************************************************************)
EXTENDS NetworkHost, FiniteSetTheorems, TLAPS

-----------------------------------------------------------------------------
(* The members of a finite set, put one after the other. *)

\* The members that come before x, in the order R.
Precede(R, S, x) == {y \in S : <<y, x>> \in R}
\* Of two members one comes before the other, and never both.
StrictOrder(R, S) ==
  /\ \A x \in S : <<x, x>> \notin R
  /\ \A x, y \in S : x # y => <<x, y>> \in R \/ <<y, x>> \in R
  /\ \A x, y, z \in S : <<x, y>> \in R /\ <<y, z>> \in R => <<x, z>> \in R

\* A member has a rank: how many come before it.
LEMMA RankInRange ==
  ASSUME NEW S, IsFiniteSet(S), NEW R, StrictOrder(R, S), NEW x \in S
  PROVE  IsFiniteSet(Precede(R, S, x)) /\ Cardinality(Precede(R, S, x)) \in 0..(Cardinality(S) - 1)
<1> DEFINE P == Precede(R, S, x)
<1>1. P \in SUBSET (S \ {x})
  BY DEF Precede, StrictOrder
<1>2. IsFiniteSet(S \ {x}) /\ Cardinality(S \ {x}) = Cardinality(S) - 1
  BY FS_RemoveElement
<1> HIDE DEF P
<1>3. IsFiniteSet(P) /\ Cardinality(P) <= Cardinality(S \ {x})
  BY <1>1, <1>2, FS_Subset
<1>4. Cardinality(P) \in Nat /\ Cardinality(S) \in Nat
  BY <1>3, FS_CardinalityType
<1> QED BY <1>2, <1>3, <1>4 DEF P

\* A later member has a higher rank.
LEMMA RankGrows ==
  ASSUME NEW S, IsFiniteSet(S), NEW R, StrictOrder(R, S), NEW x \in S, NEW y \in S, <<x, y>> \in R
  PROVE  Cardinality(Precede(R, S, x)) < Cardinality(Precede(R, S, y))
<1> DEFINE P == Precede(R, S, x)
           Q == Precede(R, S, y)
<1>1. P \in SUBSET Q /\ x \in Q /\ x \notin P
  BY DEF Precede, StrictOrder
<1>2. IsFiniteSet(P) /\ IsFiniteSet(Q) /\ Cardinality(P) \in Int /\ Cardinality(Q) \in Int
  BY RankInRange
<1> HIDE DEF P, Q
<1>3. Cardinality(P) <= Cardinality(Q) /\ (Cardinality(Q) = Cardinality(P) => Q = P)
  BY <1>1, <1>2, FS_Subset
<1> QED BY <1>1, <1>2, <1>3 DEF P, Q

\* Every rank is some member's.
LEMMA RanksTaken ==
  ASSUME NEW S, IsFiniteSet(S), NEW R, StrictOrder(R, S)
  PROVE  \A k \in 1..Cardinality(S) : \E x \in S : Cardinality(Precede(R, S, x)) = k - 1
<1> DEFINE n == Cardinality(S)
           T == 0..(n - 1)
           rank == [x \in S |-> Cardinality(Precede(R, S, x))]
<1>1. n \in Nat
  BY FS_CardinalityType
<1>2. rank \in [S -> T]
  BY RankInRange
<1>3. ASSUME NEW x \in S, NEW y \in S, rank[x] = rank[y] PROVE x = y
  <2>1. Cardinality(Precede(R, S, x)) \in Int /\ Cardinality(Precede(R, S, y)) \in Int
    BY RankInRange
  <2>2. <<x, y>> \notin R /\ <<y, x>> \notin R
    BY <1>3, <2>1, RankGrows
  <2> QED BY <2>2 DEF StrictOrder
<1>4. rank \in Injection(S, T)
  BY <1>2, <1>3 DEF Injection, IsInjective
<1>5. IsFiniteSet(T) /\ Cardinality(T) = n
  BY <1>1, FS_Interval
<1> HIDE DEF rank, T
<1>6. rank \in Surjection(S, T)
  BY <1>4, <1>5, FS_Injection DEF n
<1> QED
  <2> SUFFICES ASSUME NEW k \in 1..n PROVE \E x \in S : rank[x] = k - 1
    BY DEF rank
  <2>1. k - 1 \in T
    BY <1>1 DEF T
  <2> QED BY <1>6, <2>1 DEF Surjection

\* The k-th of the list f has the rank k - 1.
RanksIn(f, R, S) == \A k \in 1..Cardinality(S) : Cardinality(Precede(R, S, f[k])) = k - 1

\* A list in which each member has its place by how many precede it.
LEMMA RankedIsSorted ==
  ASSUME NEW S, IsFiniteSet(S), NEW R, StrictOrder(R, S), NEW f \in [1..Cardinality(S) -> S],
         RanksIn(f, R, S)
  PROVE  /\ \A k, l \in 1..Cardinality(S) : k < l => <<f[k], f[l]>> \in R
         /\ \A x \in S : \E k \in 1..Cardinality(S) : f[k] = x
<1> DEFINE n == Cardinality(S)
<1>1. n \in Nat
  BY FS_CardinalityType
<1>2. ASSUME NEW k \in 1..n, NEW l \in 1..n, k < l PROVE <<f[k], f[l]>> \in R
  <2>1. f[k] # f[l] /\ <<f[l], f[k]>> \notin R
    BY <1>1, <1>2, RankGrows DEF RanksIn
  <2> QED BY <2>1 DEF StrictOrder
<1>3. ASSUME NEW x \in S PROVE \E k \in 1..n : f[k] = x
  <2> DEFINE k == Cardinality(Precede(R, S, x)) + 1
  <2>1. k \in 1..n /\ Cardinality(Precede(R, S, x)) = k - 1
    BY <1>1, RankInRange
  <2> HIDE DEF k
  <2>2. <<f[k], x>> \notin R /\ <<x, f[k]>> \notin R
    BY <1>1, <2>1, RankGrows DEF RanksIn
  <2> QED BY <2>1, <2>2 DEF StrictOrder
<1> QED BY <1>2, <1>3

\* A set that is not empty has a member before all the others.
LEMMA LeastExists ==
  ASSUME NEW S, IsFiniteSet(S), S # {}, NEW R, StrictOrder(R, S)
  PROVE  \E x \in S : \A y \in S \ {x} : <<x, y>> \in R
<1>1. 1 \in 1..Cardinality(S)
  BY FS_EmptySet, FS_CardinalityType
<1>2. PICK x \in S : Cardinality(Precede(R, S, x)) = 0
  BY <1>1, RanksTaken
<1>3. Precede(R, S, x) = {}
  BY <1>2, RankInRange, FS_EmptySet
<1> QED BY <1>3 DEF Precede, StrictOrder

\* Min, of numbers, is one of them and the least.
LEMMA MinIsLeast ==
  ASSUME NEW S, S \subseteq Nat, IsFiniteSet(S), S # {}
  PROVE  Min(S) \in S /\ \A y \in S : Min(S) <= y
<1> DEFINE R == {p \in S \X S : p[1] < p[2]}
<1>1. StrictOrder(R, S)
  BY DEF StrictOrder
<1>2. \A x, y \in S : <<x, y>> \in R => x < y
  OBVIOUS
<1> HIDE DEF R
<1>3. PICK x \in S : \A y \in S \ {x} : <<x, y>> \in R
  BY <1>1, LeastExists
<1>4. ASSUME NEW y \in S PROVE x <= y
  <2>1. x \in Nat /\ y \in Nat
    OBVIOUS
  <2>2. CASE x = y
    BY <2>1, <2>2
  <2>3. CASE x # y
    <3>1. <<x, y>> \in R
      BY <2>3, <1>3
    <3>2. x < y
      BY <3>1, <1>2
    <3> QED BY <2>1, <3>2
  <2> QED BY <2>2, <2>3
<1> QED BY <1>4 DEF Min

\* Numbers in order: each once, the smaller ones first.
LEMMA InOrderOfNumbers ==
  ASSUME NEW S, S \subseteq Nat, IsFiniteSet(S)
  PROVE  LET s == InOrder(S, <)
         IN  /\ s \in [1..Cardinality(S) -> S]
             /\ \A k, l \in 1..Cardinality(S) : k < l => s[k] < s[l]
             /\ \A x \in S : \E k \in 1..Cardinality(S) : s[k] = x
<1> DEFINE R == {p \in S \X S : p[1] < p[2]}
           n == Cardinality(S)
           s == InOrder(S, <)
<1>1. StrictOrder(R, S)
  BY DEF StrictOrder
<1>2. \A x \in S : Precede(R, S, x) = {y \in S : y < x}
  BY DEF Precede
<1>3. ASSUME NEW k \in 1..n PROVE \E x \in S : Cardinality({y \in S : y < x}) = k - 1
  <2> HIDE DEF R
  <2>1. PICK x \in S : Cardinality(Precede(R, S, x)) = k - 1
    BY <1>1, <1>3, RanksTaken
  <2> QED BY <1>2, <2>1
<1>4. s = [k \in 1..n |-> CHOOSE x \in S : Cardinality({y \in S : y < x}) = k - 1]
  BY DEF InOrder
<1>5. \A k \in 1..n : s[k] \in S /\ Cardinality({y \in S : y < s[k]}) = k - 1
  BY <1>3, <1>4
<1>6. s \in [1..n -> S]
  BY <1>4, <1>5
<1>7. RanksIn(s, R, S)
  BY <1>2, <1>5 DEF RanksIn
<1> HIDE DEF R, s
<1>8. /\ \A k, l \in 1..n : k < l => <<s[k], s[l]>> \in R
      /\ \A x \in S : \E k \in 1..n : s[k] = x
  BY <1>1, <1>6, <1>7, RankedIsSorted
<1> QED BY <1>6, <1>8 DEF R, s

\* The members of a list at some places: those and no others.
LEMMA KeptList ==
  ASSUME NEW T, NEW list \in Seq(T), NEW places, places \subseteq DOMAIN list
  PROVE  /\ Kept(list, places) \in Seq(T)
         /\ \A k \in DOMAIN Kept(list, places) : \E i \in places : Kept(list, places)[k] = list[i]
         /\ \A i \in places : \E k \in DOMAIN Kept(list, places) : Kept(list, places)[k] = list[i]
         /\ Kept(list, places) = <<>> <=> places = {}
<1> DEFINE s == InOrder(places, <)
           n == Cardinality(places)
           kept == [k \in DOMAIN s |-> list[s[k]]]
<1>1. DOMAIN list = 1..Len(list) /\ Len(list) \in Nat
  OBVIOUS
<1>2. IsFiniteSet(places) /\ places \subseteq Nat
  <2>1. IsFiniteSet(1..Len(list))
    BY <1>1, FS_Interval
  <2> QED BY <1>1, <2>1, FS_Subset
<1>3. n \in Nat /\ (n = 0 <=> places = {})
  BY <1>2, FS_CardinalityType, FS_EmptySet
<1>4. s \in [1..n -> places] /\ \A x \in places : \E k \in 1..n : s[k] = x
  BY <1>2, InOrderOfNumbers
<1>5. Kept(list, places) = kept
  BY DEF Kept
<1> HIDE DEF s, n
<1>6. kept \in [1..n -> T]
  BY <1>4
<1>7. kept \in Seq(T) /\ DOMAIN kept = 1..n
  BY <1>3, <1>6
<1>8. \A k \in DOMAIN kept : \E i \in places : kept[k] = list[i]
  BY <1>4, <1>7
<1>9. \A i \in places : \E k \in DOMAIN kept : kept[k] = list[i]
  BY <1>4, <1>7
<1>10. kept = <<>> <=> places = {}
  BY <1>3, <1>7
<1> QED BY <1>5, <1>7, <1>8, <1>9, <1>10

-----------------------------------------------------------------------------
(* The ranking of the adapters. *)

\* A list of the machine's adapters, as the probe of them brings it.
AdapterList(up) == up \in Seq(Range(Adapters))

\* An adapter has an address, and a score in both rankings.
LEMMA AdapterFacts ==
  ASSUME NEW a \in Range(Adapters)
  PROVE  a.ip \in Nat \ {0} /\ a.ip \in Ips /\ WindowScore(a) \in Int /\ ScoreEndpointProbeCandidate(a) \in Int
<1>1. PICK i \in DOMAIN Adapters : a = Adapters[i]
  BY DEF Range
<1>2. IsAdapter(a)
  BY <1>1, NetworkAssumption
<1>3. a.ip \in Nat \ {0} /\ a.ip \in Ips
  BY <1>1, <1>2 DEF IsAdapter, Ips
<1>4. \A t, p : p \in Int => If(t, p) \in Int
  BY DEF If
<1>5. WindowScore(a) \in Int
  BY <1>4 DEF WindowScore
<1>6. ScoreEndpointProbeCandidate(a) \in Int
  BY <1>4 DEF ScoreEndpointProbeCandidate
<1> QED BY <1>3, <1>5, <1>6

\* The window's ranking decides between any two adapters.
LEMMA AheadIsOrder ==
  ASSUME NEW up, AdapterList(up), NEW S, S \subseteq DOMAIN up
  PROVE  StrictOrder({p \in S \X S : Ahead(up, p[1], p[2])}, S)
<1> DEFINE R == {p \in S \X S : Ahead(up, p[1], p[2])}
<1>1. \A x \in S : x \in Nat /\ up[x].ip \in Int /\ WindowScore(up[x]) \in Int
  <2>1. \A x \in S : x \in Nat /\ up[x] \in Range(Adapters)
    BY DEF AdapterList
  <2> QED BY <2>1, AdapterFacts
<1>2. \A x, y \in S : <<x, y>> \in R <=> Ahead(up, x, y)
  OBVIOUS
<1> HIDE DEF R
<1>3. \A x \in S : ~Ahead(up, x, x)
  BY <1>1 DEF Ahead, Better
<1>4. \A x, y \in S : x # y => Ahead(up, x, y) \/ Ahead(up, y, x)
  BY <1>1 DEF Ahead, Better
<1>5. \A x, y, z \in S : Ahead(up, x, y) /\ Ahead(up, y, z) => Ahead(up, x, z)
  BY <1>1 DEF Ahead, Better
<1>6. StrictOrder(R, S)
  BY <1>2, <1>3, <1>4, <1>5 DEF StrictOrder
<1> QED BY <1>6 DEF R

\* Adapters sorted by it: each once, the better one first.
LEMMA InOrderAhead ==
  ASSUME NEW up, AdapterList(up), NEW S, S \subseteq DOMAIN up
  PROVE  LET s == Sorted(up, S)
         IN  /\ IsFiniteSet(S) /\ s \in [1..Cardinality(S) -> S]
             /\ \A k, l \in 1..Cardinality(S) : k < l => Ahead(up, s[k], s[l])
             /\ \A x \in S : \E k \in 1..Cardinality(S) : s[k] = x
<1> DEFINE R == {p \in S \X S : Ahead(up, p[1], p[2])}
           n == Cardinality(S)
           s == Sorted(up, S)
<1>0. IsFiniteSet(S)
  <2>1. DOMAIN up = 1..Len(up) /\ Len(up) \in Nat
    BY DEF AdapterList
  <2>2. IsFiniteSet(DOMAIN up)
    BY <2>1, FS_Interval
  <2> QED BY <2>2, FS_Subset
<1>1. StrictOrder(R, S)
  BY AheadIsOrder
<1>2. \A x \in S : Precede(R, S, x) = {y \in S : Ahead(up, y, x)}
  BY DEF Precede
<1>3. ASSUME NEW k \in 1..n PROVE \E x \in S : Cardinality({y \in S : Ahead(up, y, x)}) = k - 1
  <2> HIDE DEF R
  <2>1. PICK x \in S : Cardinality(Precede(R, S, x)) = k - 1
    BY <1>0, <1>1, <1>3, RanksTaken
  <2> QED BY <1>2, <2>1
<1>4. s = [k \in 1..n |-> CHOOSE x \in S : Cardinality({y \in S : Ahead(up, y, x)}) = k - 1]
  BY DEF Sorted, InOrder
<1>5. \A k \in 1..n : s[k] \in S /\ Cardinality({y \in S : Ahead(up, y, s[k])}) = k - 1
  BY <1>3, <1>4
<1>6. s \in [1..n -> S]
  BY <1>4, <1>5
<1>7. RanksIn(s, R, S)
  BY <1>2, <1>5 DEF RanksIn
<1> HIDE DEF R, s
<1>8. /\ \A k, l \in 1..n : k < l => <<s[k], s[l]>> \in R
      /\ \A x \in S : \E k \in 1..n : s[k] = x
  BY <1>0, <1>1, <1>6, <1>7, RankedIsSorted
<1> QED BY <1>0, <1>6, <1>8 DEF R, s

\* Of every address that is shown, one entry is kept (MainWindow.cpp:349-358).
LEMMA EachAddressIsKept ==
  ASSUME NEW up, AdapterList(up), NEW i \in Shown(up)
  PROVE  \E u \in Unique(up) : up[u].ip = up[i].ip
<1> DEFINE S == {j \in Shown(up) : up[j].ip = up[i].ip}
           R == {p \in S \X S : Ahead(up, p[1], p[2])}
<1>1. S \subseteq DOMAIN up /\ S # {}
  BY DEF Shown
<1>2. \A x, y \in S : <<x, y>> \in R => Ahead(up, x, y)
  OBVIOUS
<1>3. \A x \in S : x \in Shown(up) /\ up[x].ip = up[i].ip
  OBVIOUS
<1>4. \A x \in Shown(up) : up[x].ip = up[i].ip => x \in S
  OBVIOUS
<1>5. StrictOrder(R, S) /\ IsFiniteSet(S)
  BY <1>1, AheadIsOrder, InOrderAhead
<1> HIDE DEF S, R
<1>6. PICK x \in S : \A y \in S \ {x} : <<x, y>> \in R
  BY <1>1, <1>5, LeastExists
<1> QED BY <1>2, <1>3, <1>4, <1>6 DEF Unique

\* An entry of the list that the window shows.
AdapterTypes == {"Wi-Fi", "Hotspot / Hosted", "Virtual / Overlay", "Ethernet / Other"}
Listed == [ip : Ips, type : AdapterTypes, recommended : BOOLEAN]

\* The list of adapters that the window shows and probes has the address of
\* every active adapter that is no tunnel and has no APIPA address, each once,
\* a better one (by score, then by address) before a worse one, and recommends
\* the first and no other, whatever adapters the machine has
\* (CollectActiveIpv4Candidates, MainWindow.cpp).
THEOREM CandidatesAreRanked ==
  ASSUME NEW up, AdapterList(up)
  PROVE  LET listed == CollectActiveIpv4Candidates(up)
         IN  /\ listed \in Seq(Listed)
             /\ \A i \in Shown(up) : \E k \in DOMAIN listed : listed[k].ip = up[i].ip
             /\ \A k, l \in DOMAIN listed : k < l =>
                  \E i, j \in Shown(up) : /\ listed[k].ip = up[i].ip /\ listed[l].ip = up[j].ip
                                          /\ Better(up[i], up[j]) /\ up[i].ip # up[j].ip
             /\ \A k \in DOMAIN listed : listed[k].recommended <=> k = 1
<1> DEFINE S == Unique(up)
           n == Cardinality(S)
           s == Sorted(up, S)
           Entry(k) == [ip |-> up[s[k]].ip, type |-> GuessAdapterType(up[s[k]]), recommended |-> k = 1]
           listed == [k \in DOMAIN s |-> Entry(k)]
<1>1. S \subseteq Shown(up) /\ S \subseteq DOMAIN up
  BY DEF Unique, Shown
<1> HIDE DEF S
<1>2. /\ IsFiniteSet(S) /\ s \in [1..n -> S]
      /\ \A k, l \in 1..n : k < l => Ahead(up, s[k], s[l])
      /\ \A x \in S : \E k \in 1..n : s[k] = x
  BY <1>1, InOrderAhead
<1>3. n \in Nat
  BY <1>2, FS_CardinalityType
<1>4. CollectActiveIpv4Candidates(up) = listed
  BY DEF CollectActiveIpv4Candidates, S
<1> HIDE DEF s, n
<1>5. DOMAIN listed = 1..n /\ \A k \in 1..n : s[k] \in S /\ listed[k] = Entry(k)
  BY <1>2
<1>6. \A i \in S : up[i] \in Range(Adapters) /\ i \in Nat
  BY <1>1 DEF AdapterList
<1>7. ASSUME NEW k \in 1..n PROVE listed[k] \in Listed /\ (listed[k].recommended <=> k = 1) /\ listed[k].ip = up[s[k]].ip
  <2>1. up[s[k]].ip \in Ips
    BY <1>5, <1>6, AdapterFacts
  <2>2. GuessAdapterType(up[s[k]]) \in AdapterTypes
    <3>1. ASSUME NEW a PROVE GuessAdapterType(a) \in AdapterTypes
      BY DEF GuessAdapterType, AdapterTypes
    <3> QED BY <3>1
  <2>3. Entry(k) \in Listed /\ (Entry(k).recommended <=> k = 1) /\ Entry(k).ip = up[s[k]].ip
    BY <2>1, <2>2 DEF Listed
  <2> QED BY <1>5, <2>3
<1> HIDE DEF Entry
<1>8. listed \in Seq(Listed)
  BY <1>3, <1>5, <1>7
<1> HIDE DEF listed
<1>9. ASSUME NEW i \in Shown(up) PROVE \E k \in DOMAIN listed : listed[k].ip = up[i].ip
  <2>1. PICK u \in S : up[u].ip = up[i].ip
    BY EachAddressIsKept DEF S
  <2> QED BY <2>1, <1>2, <1>5, <1>7
<1>10. ASSUME NEW k \in 1..n, NEW l \in 1..n, k < l
       PROVE  \E i, j \in Shown(up) : /\ listed[k].ip = up[i].ip /\ listed[l].ip = up[j].ip
                                      /\ Better(up[i], up[j]) /\ up[i].ip # up[j].ip
  <2> DEFINE i == s[k]
             j == s[l]
  <2>1. i \in S /\ j \in S /\ Ahead(up, i, j)
    BY <1>2, <1>5, <1>10
  <2>2. ~Ahead(up, j, i) /\ i # j
    <3>1. /\ i \in Nat /\ j \in Nat /\ up[i].ip \in Nat /\ up[j].ip \in Nat
          /\ WindowScore(up[i]) \in Int /\ WindowScore(up[j]) \in Int
      BY <2>1, <1>6, AdapterFacts
    <3> HIDE DEF i, j
    <3> QED BY <2>1, <3>1 DEF Ahead, Better
  <2>3. up[i].ip # up[j].ip
    BY <2>1, <2>2, <1>1 DEF S, Unique
  <2>4. Better(up[i], up[j])
    <3>1. /\ i \in Nat /\ j \in Nat /\ up[i].ip \in Nat /\ up[j].ip \in Nat
          /\ WindowScore(up[i]) \in Int /\ WindowScore(up[j]) \in Int
      BY <2>1, <1>6, AdapterFacts
    <3> HIDE DEF i, j
    <3> QED BY <2>1, <2>2, <2>3, <3>1 DEF Ahead, Better
  <2> QED BY <2>1, <2>3, <2>4, <1>1, <1>7
<1> QED BY <1>4, <1>5, <1>7, <1>8, <1>9, <1>10

\* Of the adapters that are probed the service takes one that none outscores.
LEMMA FirstOfTheBest ==
  ASSUME NEW c \in Seq(Range(Adapters)), c # <<>>
  PROVE  \E i \in DOMAIN c :
           /\ SelectPreferredNetworkInfo(c) = [hostIp |-> c[i].ip, mode |-> GuessMode(c[i])]
           /\ \A j \in DOMAIN c : ScoreEndpointProbeCandidate(c[j]) <= ScoreEndpointProbeCandidate(c[i])
<1> DEFINE S == 1..Len(c)
           score(i) == ScoreEndpointProbeCandidate(c[i])
           Best(i) == /\ \A j \in 1..Len(c) : score(j) <= score(i)
                      /\ \A j \in 1..(i - 1) : score(j) < score(i)
           R == {p \in S \X S : score(p[1]) > score(p[2]) \/ (score(p[1]) = score(p[2]) /\ p[1] < p[2])}
<1>1. S = DOMAIN c /\ S # {} /\ S \subseteq Nat /\ Len(c) \in Nat
  <2>1. DOMAIN c = 1..Len(c) /\ Len(c) \in Nat /\ Len(c) # 0
    OBVIOUS
  <2>2. 1 \in S
    BY <2>1
  <2> QED BY <2>1, <2>2
<1>2. \A i \in S : score(i) \in Int
  <2>1. \A i \in S : c[i] \in Range(Adapters)
    OBVIOUS
  <2> QED BY <2>1, AdapterFacts
<1>3. IsFiniteSet(S)
  BY <1>1, FS_Interval
<1> HIDE DEF score
<1>4. StrictOrder(R, S)
  BY <1>1, <1>2 DEF StrictOrder
<1>5. \A x, y \in S : <<x, y>> \in R <=> score(x) > score(y) \/ (score(x) = score(y) /\ x < y)
  OBVIOUS
<1> HIDE DEF R
<1>6. PICK x \in S : \A y \in S \ {x} : <<x, y>> \in R
  <2> HIDE DEF S
  <2> QED BY <1>1, <1>3, <1>4, LeastExists
<1>7. ASSUME NEW y \in S, y # x
      PROVE  score(y) <= score(x) /\ (y < x => score(y) < score(x))
  <2>1. <<x, y>> \in R /\ x \in Nat /\ y \in Nat /\ score(x) \in Int /\ score(y) \in Int
    BY <1>1, <1>2, <1>6, <1>7
  <2> QED BY <2>1, <1>5
<1>8. Best(x)
  <2>1. \A j \in 1..Len(c) : score(j) <= score(x)
    BY <1>2, <1>7
  <2>2. ASSUME NEW j \in 1..(x - 1) PROVE score(j) < score(x)
    <3>1. j \in S /\ j # x /\ j < x
      BY <1>1
    <3> QED BY <3>1, <1>7
  <2> QED BY <2>1, <2>2
<1> DEFINE best == CHOOSE i \in 1..Len(c) : Best(i)
<1>9. best \in S /\ Best(best)
  <2> HIDE DEF Best
  <2> QED BY <1>8
<1>10. SelectPreferredNetworkInfo(c) = [hostIp |-> c[best].ip, mode |-> GuessMode(c[best])]
  BY DEF SelectPreferredNetworkInfo, score
<1> HIDE DEF best
<1>11. \A j \in DOMAIN c : score(j) <= score(best)
  BY <1>1, <1>9
<1> QED BY <1>1, <1>9, <1>10, <1>11 DEF score

\* The network service finds no address only if every active adapter is a
\* tunnel, and otherwise takes the address and the mode of one adapter that no
\* other, tunnels aside, outscores: not even when two adapters have the same
\* score does it take nothing (GetCurrentNetworkInfo and
\* SelectPreferredNetworkInfo, endpoint_selection.cpp).
THEOREM ServiceChoosesTheBest ==
  ASSUME NEW up, AdapterList(up)
  PROVE  LET info == GetCurrentNetworkInfo(up)
         IN  \/ info.hostIp = NoIp /\ \A i \in DOMAIN up : up[i].kind = "tunnel"
             \/ /\ info.hostIp \in Ips \ {NoIp}
                /\ \E i \in DOMAIN up :
                     /\ up[i].kind # "tunnel" /\ info = [hostIp |-> up[i].ip, mode |-> GuessMode(up[i])]
                     /\ \A j \in DOMAIN up : up[j].kind # "tunnel" =>
                          ScoreEndpointProbeCandidate(up[j]) <= ScoreEndpointProbeCandidate(up[i])
<1> DEFINE places == {i \in DOMAIN up : up[i].kind # "tunnel"}
           c == Kept(up, places)
           info == GetCurrentNetworkInfo(up)
<1>1. places \subseteq DOMAIN up /\ up \in Seq(Range(Adapters))
  BY DEF AdapterList
<1>2. ProbeNetworkInterfaces(up) = c
  BY DEF ProbeNetworkInterfaces
<1>3. info = IF c = <<>> THEN [hostIp |-> NoIp, mode |-> "none"] ELSE SelectPreferredNetworkInfo(c)
  BY <1>2 DEF GetCurrentNetworkInfo
<1>4. \A i \in DOMAIN up : i \in places <=> up[i].kind # "tunnel"
  OBVIOUS
<1> HIDE DEF places, c, info
<1>5. /\ c \in Seq(Range(Adapters)) /\ (c = <<>> <=> places = {})
      /\ \A k \in DOMAIN c : \E i \in places : c[k] = up[i]
      /\ \A i \in places : \E k \in DOMAIN c : c[k] = up[i]
  BY <1>1, KeptList DEF c
<1>6. CASE c = <<>>
  BY <1>3, <1>4, <1>5, <1>6 DEF info
<1>7. CASE c # <<>>
  <2>1. PICK k \in DOMAIN c :
          /\ info = [hostIp |-> c[k].ip, mode |-> GuessMode(c[k])]
          /\ \A l \in DOMAIN c : ScoreEndpointProbeCandidate(c[l]) <= ScoreEndpointProbeCandidate(c[k])
    BY <1>3, <1>5, <1>7, FirstOfTheBest
  <2>2. PICK i \in places : c[k] = up[i]
    BY <1>5
  <2>3. i \in DOMAIN up /\ up[i].kind # "tunnel" /\ up[i] \in Range(Adapters)
    BY <1>1, <1>4
  <2>4. info = [hostIp |-> up[i].ip, mode |-> GuessMode(up[i])] /\ info.hostIp \in Ips \ {NoIp}
    <3>1. up[i].ip \in Ips \ {NoIp}
      BY <2>3, AdapterFacts DEF NoIp
    <3> QED BY <2>1, <2>2, <3>1
  <2>5. ASSUME NEW j \in DOMAIN up, up[j].kind # "tunnel"
        PROVE  ScoreEndpointProbeCandidate(up[j]) <= ScoreEndpointProbeCandidate(up[i])
    BY <2>1, <2>2, <2>5, <1>4, <1>5
  <2> QED BY <2>3, <2>4, <2>5 DEF info
<1> QED BY <1>6, <1>7

\* The window's own rule finds an address of the machine, or none.
LEMMA WindowDetects ==
  ASSUME NEW up, AdapterList(up)
  PROVE  DetectBestIPv4(up) \in Ips
<1> DEFINE places == {i \in DOMAIN up : up[i].private}
           private == Kept(up, places)
<1>1. private \in Seq(Range(Adapters)) /\ up \in Seq(Range(Adapters))
  BY KeptList DEF AdapterList
<1>2. DetectBestIPv4(up) = IF private # <<>> THEN Head(private).ip ELSE IF up # <<>> THEN Head(up).ip ELSE NoIp
  BY DEF DetectBestIPv4
<1> HIDE DEF private
<1>3. \A s \in Seq(Range(Adapters)) : s # <<>> => Head(s) \in Range(Adapters)
  OBVIOUS
<1>4. \A s \in Seq(Range(Adapters)) : s # <<>> => Head(s).ip \in Ips
  BY <1>3, AdapterFacts
<1>5. NoIp \in Ips
  BY DEF Ips
<1> QED BY <1>1, <1>2, <1>4, <1>5

\* The adapters that are up are a list of the machine's.
LEMMA AdaptersThatAreUp ==
  ASSUME NEW m, m.up \in SUBSET DOMAIN Adapters
  PROVE  AdapterList(UpAdapters(m))
<1>1. Adapters \in Seq(Range(Adapters))
  BY NetworkAssumption
<1>2. UpAdapters(m) = Kept(Adapters, m.up)
  BY DEF UpAdapters, AdaptersAt
<1> QED BY <1>1, <1>2, KeptList DEF AdapterList

-----------------------------------------------------------------------------
(* A diagnosis. *)

Probed == [ip : Ips, recommended : BOOLEAN, selected : BOOLEAN, ready : BOOLEAN]
Diagnoses ==
  [candidates : Seq(Listed), running : BOOLEAN, portReady : BOOLEAN, lanBind : BOOLEAN, localHealth : BOOLEAN,
   probes : Seq(Probed), reachable : BOOLEAN, firewall : BOOLEAN, calm : BOOLEAN,
   fresh : BOOLEAN]
\* Whether the window probes the addresses at all.
Should(d) == d.running /\ d.localHealth /\ d.lanBind

\* The probe of one address.
LEMMA OneProbe ==
  ASSUME NEW m, NEW ip, ip \in Ips, NEW recommended, recommended \in BOOLEAN, NEW should, should \in BOOLEAN
  PROVE  LET probe == ProbeCandidateHealth(m, ip, recommended, should)
         IN  /\ probe \in Probed /\ probe.ip = ip
             /\ probe.selected <=> win.hostIp # NoIp /\ ip = win.hostIp
             /\ probe.ready <=> should /\ Answers(m, ip)
  BY DEF ProbeCandidateHealth, Probed, Answers

\* A probe is ready exactly when its address answers and the window has reason
\* to ask, and the selected address is among the probes.
LEMMA ProbesTell ==
  ASSUME NEW m, NEW d \in Diagnoses, win.hostIp \in Ips
  PROVE  LET probes == ProbeAll(m, d)
         IN  /\ probes \in Seq(Probed)
             /\ \A i \in DOMAIN probes :
                  /\ probes[i].selected <=> win.hostIp # NoIp /\ probes[i].ip = win.hostIp
                  /\ probes[i].ready <=> Should(d) /\ Answers(m, probes[i].ip)
             /\ d.running /\ win.hostIp # NoIp => \E i \in DOMAIN probes : probes[i].selected
<1> DEFINE Tells(p) ==
             /\ p \in Probed
             /\ p.selected <=> win.hostIp # NoIp /\ p.ip = win.hostIp
             /\ p.ready <=> Should(d) /\ Answers(m, p.ip)
           n == IF Len(d.candidates) < MaxProbes THEN Len(d.candidates) ELSE MaxProbes
           listed == SubSeq(d.candidates, 1, n)
           first == [i \in DOMAIN listed |-> ProbeCandidateHealth(m, listed[i].ip, listed[i].recommended, Should(d))]
           seen == \E i \in DOMAIN first : first[i].selected
           last == ProbeCandidateHealth(m, win.hostIp, FALSE, d.localHealth /\ d.lanBind)
           more == IF ~seen /\ d.running /\ win.hostIp # NoIp THEN <<last>> ELSE <<>>
<1>1. ProbeAll(m, d) = first \o more
  BY DEF ProbeAll, Should
<1>2. Should(d) \in BOOLEAN /\ d.candidates \in Seq(Listed)
  BY DEF Should, Diagnoses
<1>3. n \in Nat /\ n <= Len(d.candidates)
  BY <1>2, NetworkAssumption
<1> HIDE DEF n
<1>4. DOMAIN listed = 1..n /\ \A i \in 1..n : listed[i] \in Listed
  <2>1. listed \in Seq(Listed) /\ Len(listed) = n
    BY <1>2, <1>3
  <2> HIDE DEF listed
  <2> QED BY <2>1
<1> HIDE DEF listed
<1>5. ASSUME NEW i \in 1..n PROVE Tells(first[i])
  <2>1. listed[i].ip \in Ips /\ listed[i].recommended \in BOOLEAN
    <3>1. listed[i] \in Listed
      BY <1>4
    <3> QED BY <3>1 DEF Listed
  <2>2. first[i] = ProbeCandidateHealth(m, listed[i].ip, listed[i].recommended, Should(d))
    BY <1>4
  <2> DEFINE ip == listed[i].ip
             recommended == listed[i].recommended
             should == Should(d)
             p == ProbeCandidateHealth(m, ip, recommended, should)
  <2> HIDE DEF ip, recommended, should
  <2>3. ip \in Ips /\ recommended \in BOOLEAN /\ should \in BOOLEAN
    BY <1>2, <2>1 DEF ip, recommended, should
  <2>4. /\ p \in Probed /\ p.ip = ip
        /\ p.selected <=> win.hostIp # NoIp /\ ip = win.hostIp
        /\ p.ready <=> should /\ Answers(m, ip)
    BY <2>3 DEF ProbeCandidateHealth, Probed, Answers
  <2> HIDE DEF p
  <2>5. Tells(p)
    BY <2>4 DEF should
  <2> QED BY <2>2, <2>5 DEF p, ip, recommended, should
<1>6. ASSUME d.running, win.hostIp # NoIp PROVE Tells(last) /\ last.selected
  <2>1. (d.localHealth /\ d.lanBind) \in BOOLEAN /\ ((d.localHealth /\ d.lanBind) <=> Should(d))
    BY <1>6 DEF Should
  <2> HIDE DEF last
  <2>2. /\ last \in Probed /\ last.ip = win.hostIp
        /\ last.selected <=> win.hostIp # NoIp /\ win.hostIp = win.hostIp
        /\ last.ready <=> (d.localHealth /\ d.lanBind) /\ Answers(m, win.hostIp)
    BY OneProbe DEF last
  <2> QED BY <2>1, <2>2, <1>6
<1> HIDE DEF last
<1>7. first \in Seq(Probed) /\ DOMAIN first = 1..n /\ Len(first) = n
  <2>1. DOMAIN first = 1..n /\ \A i \in 1..n : first[i] \in Probed
    BY <1>4, <1>5
  <2> HIDE DEF first
  <2>2. first = [i \in 1..n |-> first[i]]
    BY <2>1 DEF first
  <2>3. first \in [1..n -> Probed]
    BY <2>1, <2>2
  <2> QED BY <2>3, <1>3
<1> HIDE DEF first, Tells
<1>8. CASE ~seen /\ d.running /\ win.hostIp # NoIp
  <2>1. more = <<last>> /\ Tells(last) /\ last.selected
    BY <1>6, <1>8
  <2>2. last \in Probed
    BY <2>1 DEF Tells
  <2> DEFINE all == first \o <<last>>
  <2>3. /\ all \in Seq(Probed) /\ DOMAIN all = 1..(n + 1) /\ all[n + 1] = last
        /\ \A i \in 1..n : all[i] = first[i]
    BY <1>3, <1>7, <2>2
  <2> HIDE DEF all
  <2>4. \A i \in DOMAIN all : i \in 1..n \/ i = n + 1
    BY <1>3, <2>3
  <2>5. \A i \in DOMAIN all : Tells(all[i])
    BY <2>1, <2>3, <2>4, <1>5
  <2>6. n + 1 \in DOMAIN all
    BY <1>3, <2>3
  <2> QED BY <1>1, <2>1, <2>3, <2>5, <2>6 DEF all, Tells
<1>9. CASE ~(~seen /\ d.running /\ win.hostIp # NoIp)
  <2>1. first \o more = first
    BY <1>7, <1>9
  <2>2. \A i \in DOMAIN first : Tells(first[i])
    BY <1>5, <1>7
  <2>3. d.running /\ win.hostIp # NoIp => \E i \in DOMAIN first : first[i].selected
    BY <1>9
  <2> QED BY <1>1, <1>7, <2>1, <2>2, <2>3 DEF Tells
<1> QED BY <1>8, <1>9

\* The states of the machine and of the window.
Machines == [up : SUBSET DOMAIN Adapters, server : Servers, bind : Binds \cup {AnyBind}, firewall : Firewalls]
Windows ==
  [hostIp : Ips, mode : {"unknown", "lan", "wifi", "hotspot", "wifi-direct"}, bind : Binds \cup {AnyBind}, wifi : BOOLEAN,
   hotspotSupported : BOOLEAN, hotspotRunning : BOOLEAN,
   hotspotStatus : {"running", "stopped", "start failed", "system settings required"}]

\* What a diagnosis has before its probes.
LEMMA BeginTyped ==
  ASSUME NEW m \in Machines
  PROVE  BeginDiagnosis(m) \in Diagnoses
<1>1. Candidates(m) \in Seq(Listed)
  <2>1. AdapterList(UpAdapters(m))
    BY AdaptersThatAreUp DEF Machines
  <2>2. Candidates(m) = CollectActiveIpv4Candidates(UpAdapters(m))
    BY DEF Candidates, CandidatesAt, UpAdapters, Machines
  <2> QED BY <2>1, <2>2, CandidatesAreRanked
<1>2. <<>> \in Seq(Probed)
  OBVIOUS
<1> QED BY <1>1, <1>2 DEF BeginDiagnosis, Diagnoses, Running

\* What the probes find out beyond what was known when they began.
LEMMA ProbeTyped ==
  ASSUME NEW m, NEW d \in Diagnoses, win.hostIp \in Ips
  PROVE  /\ Probe(m, d) \in Diagnoses /\ Probe(m, d).fresh = TRUE
         /\ Probe(m, d) = [d EXCEPT !.probes = ProbeAll(m, d), !.reachable = Probe(m, d).reachable,
                                    !.firewall = Probe(m, d).firewall, !.fresh = TRUE]
         /\ Probe(m, d).reachable <=> Should(d) /\ win.hostIp # NoIp /\ Answers(m, win.hostIp)
         /\ Probe(m, d).firewall <=> d.running /\ ProbeFirewallReadiness(m.firewall, Exe, Port)
<1> DEFINE probes == ProbeAll(m, d)
           reachable == \E i \in DOMAIN probes : probes[i].selected /\ probes[i].ready
           firewall == d.running /\ ProbeFirewallReadiness(m.firewall, Exe, Port)
<1>1. Probe(m, d) = [d EXCEPT !.probes = probes, !.reachable = reachable, !.firewall = firewall, !.fresh = TRUE]
  BY DEF Probe
<1> HIDE DEF probes
<1>2. /\ probes \in Seq(Probed)
      /\ \A i \in DOMAIN probes :
           /\ probes[i].selected <=> win.hostIp # NoIp /\ probes[i].ip = win.hostIp
           /\ probes[i].ready <=> Should(d) /\ Answers(m, probes[i].ip)
      /\ d.running /\ win.hostIp # NoIp => \E i \in DOMAIN probes : probes[i].selected
  BY ProbesTell DEF probes
<1>3. reachable <=> Should(d) /\ win.hostIp # NoIp /\ Answers(m, win.hostIp)
  BY <1>2 DEF Should
<1>4. reachable \in BOOLEAN /\ firewall \in BOOLEAN
  BY DEF ProbeFirewallReadiness, Diagnoses
<1> HIDE DEF reachable, firewall
<1>5. [d EXCEPT !.probes = probes, !.reachable = reachable, !.firewall = firewall, !.fresh = TRUE] \in Diagnoses
  BY <1>2, <1>4 DEF Diagnoses
<1>6. Probe(m, d).reachable = reachable /\ Probe(m, d).firewall = firewall /\ Probe(m, d).fresh = TRUE
  BY <1>1 DEF Diagnoses
<1> QED BY <1>1, <1>3, <1>5, <1>6 DEF probes, firewall

-----------------------------------------------------------------------------
(* What is made of a diagnosis. *)

Typed == machine \in Machines /\ win \in Windows

\* What was known of the machine before the probes is so,
BegunTrue(d) ==
  /\ d.running <=> Running(machine)
  /\ d.portReady <=> Running(machine) \/ CanBindTcpPort(machine, win.bind)
  /\ d.localHealth <=> AnswersLocally(machine)
  /\ d.lanBind <=> win.bind \notin {Loopback, Localhost}
  /\ d.candidates = Candidates(machine)
\* and what the probes found, as far as the window had reason to ask.
ProbesTrue(d) ==
  /\ d.reachable <=> Should(d) /\ win.hostIp # NoIp /\ Answers(machine, win.hostIp)
  /\ d.firewall <=> d.running /\ ProbeFirewallReadiness(machine.firewall, Exe, Port)
  /\ \A i \in DOMAIN d.probes :
       /\ d.probes[i].selected <=> win.hostIp # NoIp /\ d.probes[i].ip = win.hostIp
       /\ d.probes[i].ready <=> Should(d) /\ Answers(machine, d.probes[i].ip)
  /\ d.running /\ win.hostIp # NoIp => \E i \in DOMAIN d.probes : d.probes[i].selected

\* A diagnosis that begins knows the machine as it is.
LEMMA BeginTells ==
  ASSUME Typed
  PROVE  BeginDiagnosis(machine) \in Diagnoses /\ BegunTrue(BeginDiagnosis(machine))
<1>1. AnswersLocally(machine) => Running(machine)
  BY DEF AnswersLocally, Running
<1>2. BegunTrue(BeginDiagnosis(machine))
  BY <1>1 DEF BeginDiagnosis, BegunTrue
<1> QED BY <1>2, BeginTyped DEF Typed

\* The probes find the machine as it is, whatever was known before them.
LEMMA ProbeTells ==
  ASSUME Typed, NEW d \in Diagnoses
  PROVE  LET seen == Probe(machine, d)
         IN  /\ seen \in Diagnoses /\ seen.fresh /\ seen.calm = d.calm
             /\ ProbesTrue(seen)
             /\ BegunTrue(d) => BegunTrue(seen)
<1> DEFINE seen == Probe(machine, d)
           probes == ProbeAll(machine, d)
<1>0. win.hostIp \in Ips
  BY DEF Typed, Windows
<1>1. /\ seen \in Diagnoses /\ seen.fresh = TRUE
      /\ seen = [d EXCEPT !.probes = probes, !.reachable = seen.reachable, !.firewall = seen.firewall, !.fresh = TRUE]
      /\ seen.reachable <=> Should(d) /\ win.hostIp # NoIp /\ Answers(machine, win.hostIp)
      /\ seen.firewall <=> d.running /\ ProbeFirewallReadiness(machine.firewall, Exe, Port)
  BY <1>0, ProbeTyped
<1>2. /\ \A i \in DOMAIN probes :
           /\ probes[i].selected <=> win.hostIp # NoIp /\ probes[i].ip = win.hostIp
           /\ probes[i].ready <=> Should(d) /\ Answers(machine, probes[i].ip)
      /\ d.running /\ win.hostIp # NoIp => \E i \in DOMAIN probes : probes[i].selected
  BY <1>0, ProbesTell
<1> HIDE DEF seen, probes
<1>3. /\ seen.running = d.running /\ seen.portReady = d.portReady /\ seen.localHealth = d.localHealth
      /\ seen.lanBind = d.lanBind /\ seen.candidates = d.candidates /\ seen.calm = d.calm /\ seen.probes = probes
  BY <1>1 DEF Diagnoses
<1>4. Should(seen) <=> Should(d)
  BY <1>3 DEF Should
<1>5. ProbesTrue(seen)
  BY <1>1, <1>2, <1>3, <1>4 DEF ProbesTrue
<1>6. BegunTrue(d) => BegunTrue(seen)
  BY <1>3 DEF BegunTrue
<1> QED BY <1>1, <1>3, <1>5, <1>6 DEF seen

\* An address that answers is one of the machine's.
LEMMA WhatAnswers ==
  ASSUME Typed, NEW ip, Answers(machine, ip)
  PROVE  ip # NoIp /\ machine.server = "serving" /\ Running(machine)
<1>1. PICK i \in DOMAIN Adapters : Adapters[i].ip = ip
  BY DEF Answers, HasIp, Typed, Machines
<1>2. ip # NoIp
  BY <1>1, NetworkAssumption DEF IsAdapter, NoIp
<1> QED BY <1>2 DEF Answers, Running

\* When the viewers' path is called ready.
LEMMA ReadyMeans ==
  ASSUME NEW d
  PROVE  RemoteViewerReady(Session, Health(d)) <=>
           /\ d.running /\ d.portReady /\ d.lanBind /\ d.reachable /\ d.firewall /\ win.hostIp # NoIp
           /\ Len(d.candidates) > 1 =>
                (win.hostIp # NoIp /\ d.candidates # <<>> => Head(d.candidates).ip = win.hostIp)
<1> DEFINE h == Health(d)
           recommended == win.hostIp # NoIp /\ d.candidates # <<>> => Head(d.candidates).ip = win.hostIp
<1>1. /\ h.running = d.running /\ h.portReady = d.portReady /\ h.lanBind = d.lanBind /\ h.reachable = d.reachable
      /\ h.active = Len(d.candidates) /\ h.firewall = d.firewall /\ (h.recommended <=> recommended)
      /\ Session.hostIp = win.hostIp
  BY DEF Health, Session
<1> HIDE DEF h, recommended
<1>2. FirewallReady(h) <=> h.running /\ h.firewall
  BY DEF FirewallReady
<1>3. RemoteViewerReady(Session, h) <=>
        /\ h.running /\ h.portReady /\ h.lanBind /\ Session.hostIp # NoIp
        /\ ~(h.active > 1 /\ ~h.recommended) /\ h.reachable /\ FirewallReady(h)
  BY DEF RemoteViewerReady, BuildNetworkDiagnosticsViewModel
<1> QED BY <1>1, <1>2, <1>3 DEF h, recommended

\* The viewers' path is called ready only if a viewer gets in.
LEMMA ReadyIsTrue ==
  ASSUME NEW d, ProbesTrue(d), RemoteViewerReady(Session, Health(d))
  PROVE  ViewerGetsIn
  BY ReadyMeans DEF ProbesTrue, ViewerGetsIn

\* A viewer who gets in is called ready, unless the report overlooks it.
LEMMA InIsReady ==
  ASSUME Typed, NEW d, BegunTrue(d), ProbesTrue(d), ViewerGetsIn, ~Overlooked
  PROVE  RemoteViewerReady(Session, Health(d))
<1>1. Answers(machine, win.hostIp) /\ ProbeFirewallReadiness(machine.firewall, Exe, Port)
  BY DEF ViewerGetsIn
<1>2. win.hostIp # NoIp /\ machine.server = "serving" /\ Running(machine)
  BY <1>1, WhatAnswers
<1>3. /\ win.bind \notin {Loopback, Localhost} /\ machine.bind = AnyBind
      /\ Len(Candidates(machine)) > 1 => Head(Candidates(machine)).ip = win.hostIp
  BY DEF Overlooked
<1>4. d.running /\ d.portReady /\ d.localHealth /\ d.lanBind /\ d.candidates = Candidates(machine)
  BY <1>2, <1>3 DEF BegunTrue, AnswersLocally
<1>5. d.reachable /\ d.firewall
  BY <1>1, <1>2, <1>4 DEF ProbesTrue, Should
<1> QED BY <1>2, <1>3, <1>4, <1>5, ReadyMeans

\* Among probes the first that fits a test is one of them.
LEMMA FirstOfThem ==
  ASSUME NEW probes \in Seq(Probed), NEW fits, fits \subseteq DOMAIN probes, fits # {}
  PROVE  Min(fits) \in fits
<1>1. DOMAIN probes = 1..Len(probes) /\ Len(probes) \in Nat
  OBVIOUS
<1>2. IsFiniteSet(fits) /\ fits \subseteq Nat
  <2>1. IsFiniteSet(1..Len(probes))
    BY <1>1, FS_Interval
  <2> QED BY <1>1, <2>1, FS_Subset
<1> QED BY <1>2, MinIsLeast

\* What the plan suggests when it suggests something.
LEMMA PlanSuggests ==
  ASSUME NEW probes, BuildRemoteProbePlan(probes).suggested # NoIp
  PROVE  LET plan == BuildRemoteProbePlan(probes)
             selected == FindSelected(probes)
             recommended == FindFirstReady(probes, TRUE, FALSE)
             alternate == FindFirstReady(probes, FALSE, TRUE)
             any == FindFirstReady(probes, FALSE, FALSE)
         IN  /\ ~(selected # NoIp /\ \E i \in DOMAIN probes : probes[i].ip = selected /\ probes[i].selected /\ probes[i].ready)
             /\ plan.suggested \in {recommended, alternate, any}
<1> DEFINE plan == BuildRemoteProbePlan(probes)
           selected == FindSelected(probes)
           answered == selected # NoIp /\ \E i \in DOMAIN probes : probes[i].ip = selected /\ probes[i].selected /\ probes[i].ready
           recommended == FindFirstReady(probes, TRUE, FALSE)
           alternate == FindFirstReady(probes, FALSE, TRUE)
           any == FindFirstReady(probes, FALSE, FALSE)
           Plan(label, also, suggested) == [label |-> label, alternate |-> also, suggested |-> suggested]
<1>1. plan =
        CASE probes = <<>> -> Plan("none", FALSE, NoIp)
          [] probes # <<>> /\ answered -> Plan("selected", alternate # NoIp, NoIp)
          [] probes # <<>> /\ ~answered /\ recommended # NoIp /\ recommended # selected ->
               Plan("recommended", TRUE, recommended)
          [] ~answered /\ recommended = NoIp /\ selected # NoIp /\ alternate # NoIp -> Plan("alternate", TRUE, alternate)
          [] ~answered /\ recommended = NoIp /\ selected = NoIp /\ any # NoIp -> Plan("any", TRUE, any)
          [] OTHER -> Plan("nobody", FALSE, NoIp)
  BY DEF BuildRemoteProbePlan
<1>2. plan.suggested # NoIp
  OBVIOUS
<1> HIDE DEF plan, selected, answered, recommended, alternate, any
<1>3. ~answered /\ plan.suggested \in {recommended, alternate, any}
  BY <1>1, <1>2
<1> QED BY <1>3 DEF plan, selected, answered, recommended, alternate, any

\* An address that the plan suggests answers, and the selected one does not.
LEMMA SuggestionIsTrue ==
  ASSUME Typed, NEW d \in Diagnoses, ProbesTrue(d), BuildRemoteProbePlan(d.probes).suggested # NoIp
  PROVE  Answers(machine, BuildRemoteProbePlan(d.probes).suggested) /\ ~Answers(machine, win.hostIp)
<1> DEFINE probes == d.probes
           plan == BuildRemoteProbePlan(probes)
           Marked == {i \in DOMAIN probes : probes[i].selected}
           Fit(r, a) == {i \in DOMAIN probes : probes[i].ready /\ (r => probes[i].recommended) /\ (a => ~probes[i].selected)}
           selected == FindSelected(probes)
           answered == selected # NoIp /\ \E i \in DOMAIN probes : probes[i].ip = selected /\ probes[i].selected /\ probes[i].ready
           recommended == FindFirstReady(probes, TRUE, FALSE)
           alternate == FindFirstReady(probes, FALSE, TRUE)
           any == FindFirstReady(probes, FALSE, FALSE)
<1>1. /\ probes \in Seq(Probed)
      /\ \A i \in DOMAIN probes :
           /\ probes[i].selected <=> win.hostIp # NoIp /\ probes[i].ip = win.hostIp
           /\ probes[i].ready <=> Should(d) /\ Answers(machine, probes[i].ip)
      /\ d.running /\ win.hostIp # NoIp => \E i \in DOMAIN probes : probes[i].selected
  BY DEF ProbesTrue, Diagnoses
<1>2. ~answered /\ plan.suggested \in {recommended, alternate, any} /\ plan.suggested # NoIp
  BY PlanSuggests
<1>3. /\ selected = IF Marked = {} THEN NoIp ELSE probes[Min(Marked)].ip
      /\ recommended = IF Fit(TRUE, FALSE) = {} THEN NoIp ELSE probes[Min(Fit(TRUE, FALSE))].ip
      /\ alternate = IF Fit(FALSE, TRUE) = {} THEN NoIp ELSE probes[Min(Fit(FALSE, TRUE))].ip
      /\ any = IF Fit(FALSE, FALSE) = {} THEN NoIp ELSE probes[Min(Fit(FALSE, FALSE))].ip
  BY DEF FindSelected, FindFirstReady, FirstOf
<1>4. plan.suggested = BuildRemoteProbePlan(d.probes).suggested
  OBVIOUS
<1> HIDE DEF probes, plan, selected, recommended, alternate, any
<1>5. PICK k \in DOMAIN probes : probes[k].ready /\ probes[k].ip = plan.suggested
  <2> DEFINE First == Fit(TRUE, FALSE)
             Other == Fit(FALSE, TRUE)
             Ready == Fit(FALSE, FALSE)
  <2>1. /\ First \subseteq DOMAIN probes /\ Other \subseteq DOMAIN probes /\ Ready \subseteq DOMAIN probes
        /\ \A i \in First \cup Other \cup Ready : probes[i].ready
        /\ recommended = IF First = {} THEN NoIp ELSE probes[Min(First)].ip
        /\ alternate = IF Other = {} THEN NoIp ELSE probes[Min(Other)].ip
        /\ any = IF Ready = {} THEN NoIp ELSE probes[Min(Ready)].ip
    BY <1>3
  <2> HIDE DEF First, Other, Ready
  <2>2. recommended # NoIp => \E i \in First : probes[i].ip = recommended
    BY <1>1, <2>1, FirstOfThem
  <2>3. any # NoIp => \E i \in Ready : probes[i].ip = any
    BY <1>1, <2>1, FirstOfThem
  <2>4. alternate # NoIp => \E i \in Other : probes[i].ip = alternate
    BY <1>1, <2>1, FirstOfThem
  <2> QED BY <1>2, <2>1, <2>2, <2>3, <2>4
<1>6. Should(d) /\ d.running /\ Answers(machine, plan.suggested)
  BY <1>1, <1>5 DEF Should
<1>7. ASSUME Answers(machine, win.hostIp) PROVE answered
  <2>1. win.hostIp # NoIp
    BY <1>7, WhatAnswers
  <2>2. PICK i \in DOMAIN probes : probes[i].selected
    BY <1>1, <1>6, <2>1
  <2>3. Marked # {} /\ \A j \in Marked : probes[j].ip = win.hostIp /\ probes[j].ip # NoIp
    BY <1>1, <2>1, <2>2
  <2>4. selected # NoIp /\ \E j \in Marked : probes[j].ip = selected
    <3>1. Marked \subseteq DOMAIN probes
      OBVIOUS
    <3> HIDE DEF Marked
    <3>2. selected = IF Marked = {} THEN NoIp ELSE probes[Min(Marked)].ip
      BY <1>3
    <3>3. /\ selected # NoIp => \E j \in Marked : probes[j].ip = selected
          /\ Marked # {} /\ (\A j \in Marked : probes[j].ip # NoIp) => selected # NoIp
      BY <1>1, <3>1, <3>2, FirstOfThem
    <3> QED BY <2>3, <3>3
  <2>5. PICK j \in DOMAIN probes : probes[j].selected /\ probes[j].ip = selected /\ probes[j].ip = win.hostIp
    BY <2>3, <2>4
  <2> QED BY <1>1, <1>6, <1>7, <2>4, <2>5
<1>8. ~Answers(machine, win.hostIp)
  BY <1>2, <1>7
<1> QED BY <1>4, <1>6, <1>8

\* Four entries are a list.
LEMMA FourItems ==
  ASSUME NEW a, NEW b, NEW c, NEW d
  PROVE  <<a, b, c, d>> \in Seq({a, b, c, d}) /\ Len(<<a, b, c, d>>) = 4
  OBVIOUS

\* A list of members of A is a list of members of any wider set.
LEMMA WiderSeq ==
  ASSUME NEW A, NEW B, A \subseteq B, NEW s, s \in Seq(A)
  PROVE  s \in Seq(B)
<1>1. Len(s) \in Nat /\ s = [i \in 1..Len(s) |-> s[i]] /\ \A i \in 1..Len(s) : s[i] \in A
  OBVIOUS
<1>2. \A i \in 1..Len(s) : s[i] \in B
  BY <1>1
<1>3. s \in [1..Len(s) -> B]
  BY <1>1, <1>2
<1> QED BY <1>1, <1>3

\* A list has finitely many places.
LEMMA PlacesAreFinite ==
  ASSUME NEW T, NEW s \in Seq(T)
  PROVE  IsFiniteSet(DOMAIN s)
<1>1. DOMAIN s = 1..Len(s) /\ Len(s) \in Nat
  OBVIOUS
<1> QED BY <1>1, FS_Interval

\* With no P0 check failed the server's health endpoint answered and there is
\* an address.
LEMMA NoUrgentCheck ==
  ASSUME NEW session, NEW health, BuildSelfCheckReport(session, health).p0 = 0
  PROVE  health.localHealth /\ session.hostIp # NoIp
<1> DEFINE checks == Checks(session, health)
           wireless == Wireless(session)
           items == checks \o wireless
           failed == {i \in DOMAIN items : ~items[i].ok /\ items[i].severity = "P0"}
<1>1. Cardinality(failed) = 0
  BY DEF BuildSelfCheckReport
<1>2. /\ checks[3].ok = health.localHealth /\ checks[3].severity = "P0"
      /\ (checks[11].ok <=> session.hostIp # NoIp) /\ checks[11].severity = "P0"
  BY DEF Checks, Item
<1> DEFINE w1 == Item("viewer-entry-url", TRUE, "P1", "sharing")
           w2 == Item("wifi-adapter", session.wifi, "P2", "network")
           w3 == Item("hotspot-control", session.hotspotSupported \/ session.hotspotRunning, "P2", "network")
           w4 == Item("live-bundle-refresh", TRUE, "P2", "sharing")
           U == {checks[i] : i \in 1..11} \cup {w1, w2, w3, w4}
<1>3. checks \in Seq(U) /\ Len(checks) = 11
  <2>1. checks \in Seq({checks[i] : i \in 1..11}) /\ Len(checks) = 11
    BY DEF Checks
  <2>2. {checks[i] : i \in 1..11} \subseteq U
    OBVIOUS
  <2> HIDE DEF checks, U
  <2> QED BY <2>1, <2>2, WiderSeq
<1>4. wireless \in Seq(U) /\ Len(wireless) = 4
  <2>1. wireless = <<w1, w2, w3, w4>>
    BY DEF Wireless
  <2> HIDE DEF w1, w2, w3, w4, wireless
  <2>2. wireless \in Seq({w1, w2, w3, w4}) /\ Len(wireless) = 4
    BY <2>1, FourItems
  <2>3. {w1, w2, w3, w4} \subseteq U
    OBVIOUS
  <2> HIDE DEF U
  <2> QED BY <2>2, <2>3, WiderSeq
<1> HIDE DEF checks, wireless, U
<1>5. checks \in Seq(U) /\ wireless \in Seq(U)
  BY <1>3, <1>4
<1>6. /\ items \in Seq(U)
      /\ DOMAIN items = 1..Len(items) /\ Len(items) = Len(checks) + Len(wireless)
      /\ \A i \in 1..Len(checks) : items[i] = checks[i]
  BY <1>5
<1> HIDE DEF items
<1>7. DOMAIN items = 1..15 /\ items[3] = checks[3] /\ items[11] = checks[11]
  BY <1>6, <1>3, <1>4
<1>8. failed = {}
  <2>1. IsFiniteSet(DOMAIN items)
    BY <1>6, PlacesAreFinite
  <2>2. failed \subseteq DOMAIN items
    OBVIOUS
  <2> HIDE DEF failed, items
  <2>3. IsFiniteSet(failed)
    BY <2>1, <2>2, FS_Subset
  <2> QED BY <1>1, <2>3, FS_EmptySet
<1> HIDE DEF items
<1>9. ~(~items[3].ok /\ items[3].severity = "P0") /\ ~(~items[11].ok /\ items[11].severity = "P0")
  BY <1>7, <1>8
<1> QED BY <1>2, <1>7, <1>9

\* A server that does not serve, or a window without an address, is not Ready.
LEMMA OverallIsTrue ==
  ASSUME NEW d, BegunTrue(d), ComputeDashboardOverallState(Session, Health(d)) = "Ready"
  PROVE  AnswersLocally(machine) /\ win.hostIp # NoIp
<1>1. Session.hostState = "ready" /\ Session.hostIp = win.hostIp /\ Health(d).localHealth = d.localHealth
  BY DEF Session, Health
<1>2. BuildSelfCheckReport(Session, Health(d)).p0 = 0
  BY <1>1 DEF ComputeDashboardOverallState, IsHostStateSharing
<1>3. Health(d).localHealth /\ Session.hostIp # NoIp
  BY <1>2, NoUrgentCheck
<1> QED BY <1>1, <1>3 DEF BegunTrue

\* The handoff is ready only with an address that answers.
LEMMA HandoffIsTrue ==
  ASSUME NEW d, ProbesTrue(d), BuildHandoffSummary(Session, Health(d)) = "ready-for-handoff"
  PROVE  Answers(machine, win.hostIp)
<1>1. Session.viewers = 0 /\ Session.delivered = FALSE /\ Session.started = TRUE /\ Health(d).reachable = d.reachable
  BY DEF Session, Health
<1>2. Health(d).reachable
  BY <1>1 DEF BuildHandoffSummary
<1> QED BY <1>1, <1>2 DEF ProbesTrue

-----------------------------------------------------------------------------
(* Handlers, and what is still to come in them. *)

Has(steps, step) == \E i \in DOMAIN steps : steps[i] = step

\* A handler that takes an address of its own choosing has the bundle written
\* and the page published after that.
HotspotIsFollowed(steps) ==
  \A i \in DOMAIN steps : steps[i] = "hotspot" =>
    /\ \E j \in DOMAIN steps : j > i /\ steps[j] = "write"
    /\ \E j \in DOMAIN steps : j > i /\ steps[j] = "publish"

Handler(steps) == steps \in Seq(Steps) /\ HotspotIsFollowed(steps)

FilesAgree ==
  /\ DOMAIN files = DOMAIN NoFiles
  /\ files.ok => /\ files.card = files.wizard /\ files.wizard = files.json
                 /\ files.json.hostIp = win.hostIp \/ Has(todo, "write")

PageAgrees ==
  /\ DOMAIN page = {"candidates", "snapshot"}
  /\ page.snapshot.hostIp = win.hostIp \/ Has(todo, "publish")

\* What is wrong will be made good by the handler that is running.
ArtifactsInv == Handler(todo) /\ FilesAgree /\ PageAgrees

-----------------------------------------------------------------------------
(* Handlers as sequences of steps. *)

LEMMA Joined ==
  ASSUME NEW s \in Seq(Steps), NEW t \in Seq(Steps)
  PROVE  /\ s \o t \in Seq(Steps) /\ Len(s) \in Nat /\ Len(t) \in Nat
         /\ DOMAIN s = 1..Len(s) /\ DOMAIN t = 1..Len(t) /\ DOMAIN (s \o t) = 1..(Len(s) + Len(t))
         /\ \A i \in DOMAIN s : i \in DOMAIN (s \o t) /\ (s \o t)[i] = s[i]
         /\ \A i \in DOMAIN t : i + Len(s) \in DOMAIN (s \o t) /\ (s \o t)[i + Len(s)] = t[i]
<1>1. /\ Len(s) \in Nat /\ Len(t) \in Nat /\ Len(s \o t) = Len(s) + Len(t)
      /\ DOMAIN s = 1..Len(s) /\ DOMAIN t = 1..Len(t) /\ DOMAIN (s \o t) = 1..Len(s \o t)
  OBVIOUS
<1>2. ASSUME NEW i \in DOMAIN s PROVE i \in DOMAIN (s \o t) /\ (s \o t)[i] = s[i]
  BY <1>1
<1>3. ASSUME NEW i \in DOMAIN t
      PROVE  i + Len(s) \in DOMAIN (s \o t) /\ (s \o t)[i + Len(s)] = t[i]
  BY <1>1
<1>4. s \o t \in Seq(Steps)
  OBVIOUS
<1> QED BY <1>1, <1>2, <1>3, <1>4

LEMMA HasKept ==
  ASSUME NEW s \in Seq(Steps), NEW t \in Seq(Steps), NEW x
  PROVE  /\ Has(s, x) => Has(s \o t, x)
         /\ Has(t, x) => Has(s \o t, x)
<1>1. ASSUME NEW i \in DOMAIN s, s[i] = x PROVE Has(s \o t, x)
  <2>1. i \in DOMAIN (s \o t) /\ (s \o t)[i] = x
    BY <1>1, Joined
  <2> QED BY <2>1 DEF Has
<1>2. ASSUME NEW i \in DOMAIN t, t[i] = x PROVE Has(s \o t, x)
  <2>1. i + Len(s) \in DOMAIN (s \o t) /\ (s \o t)[i + Len(s)] = x
    BY <1>2, Joined
  <2> QED BY <2>1 DEF Has
<1> QED BY <1>1, <1>2 DEF Has

\* Two handlers one after the other.
LEMMA HandlersJoin ==
  ASSUME NEW s, NEW t, Handler(s), Handler(t)
  PROVE  Handler(s \o t)
<1>0. s \in Seq(Steps) /\ t \in Seq(Steps)
  BY DEF Handler
<1>1. /\ s \o t \in Seq(Steps) /\ Len(s) \in Nat /\ Len(t) \in Nat
      /\ DOMAIN s = 1..Len(s) /\ DOMAIN t = 1..Len(t) /\ DOMAIN (s \o t) = 1..(Len(s) + Len(t))
  BY <1>0, Joined
<1>2. \A i \in DOMAIN s : i \in DOMAIN (s \o t) /\ (s \o t)[i] = s[i]
  BY <1>0, Joined
<1>3. \A i \in DOMAIN t : i + Len(s) \in DOMAIN (s \o t) /\ (s \o t)[i + Len(s)] = t[i]
  BY <1>0, Joined
<1>4. ASSUME NEW i \in DOMAIN (s \o t), (s \o t)[i] = "hotspot", NEW x \in {"write", "publish"}
      PROVE  \E j \in DOMAIN (s \o t) : j > i /\ (s \o t)[j] = x
  <2>1. CASE i \in DOMAIN s
    <3>1. PICK j \in DOMAIN s : j > i /\ s[j] = x
      BY <2>1, <1>2, <1>4 DEF Handler, HotspotIsFollowed
    <3> QED BY <3>1, <1>2
  <2>2. CASE i \notin DOMAIN s
    <3>1. i - Len(s) \in DOMAIN t /\ (i - Len(s)) + Len(s) = i
      BY <2>2, <1>1, <1>4
    <3>2. PICK j \in DOMAIN t : j > i - Len(s) /\ t[j] = x
      BY <3>1, <1>3, <1>4 DEF Handler, HotspotIsFollowed
    <3>3. j + Len(s) > i
      BY <3>2, <1>1
    <3> QED BY <3>2, <3>3, <1>3
  <2> QED BY <2>1, <2>2
<1> QED BY <1>1, <1>4 DEF Handler, HotspotIsFollowed

\* The rest of a handler, and what a handler has beside its first step.
LEMMA HandlerGoesOn ==
  ASSUME NEW s, Handler(s), s # <<>>
  PROVE  /\ Handler(Tail(s))
         /\ \A x : Has(s, x) /\ Head(s) # x => Has(Tail(s), x)
         /\ Head(s) = "hotspot" => Has(Tail(s), "write") /\ Has(Tail(s), "publish")
<1>0. s \in Seq(Steps)
  BY DEF Handler
<1>1. /\ Len(s) \in Nat \ {0} /\ DOMAIN s = 1..Len(s) /\ Tail(s) \in Seq(Steps)
      /\ DOMAIN Tail(s) = 1..(Len(s) - 1) /\ Head(s) = s[1]
  BY <1>0
<1>2. ASSUME NEW i \in DOMAIN Tail(s) PROVE i + 1 \in DOMAIN s /\ Tail(s)[i] = s[i + 1]
  BY <1>0, <1>1
<1>3. ASSUME NEW j \in DOMAIN s, j > 1 PROVE j - 1 \in DOMAIN Tail(s) /\ Tail(s)[j - 1] = s[j]
  BY <1>0, <1>1, <1>3
<1>4. HotspotIsFollowed(Tail(s))
  <2> SUFFICES ASSUME NEW i \in DOMAIN Tail(s), Tail(s)[i] = "hotspot", NEW x \in {"write", "publish"}
               PROVE  \E j \in DOMAIN Tail(s) : j > i /\ Tail(s)[j] = x
    BY DEF HotspotIsFollowed
  <2>1. PICK j \in DOMAIN s : j > i + 1 /\ s[j] = x
    BY <1>2 DEF Handler, HotspotIsFollowed
  <2>2. j > 1 /\ j - 1 > i
    BY <2>1, <1>1
  <2> QED BY <2>1, <2>2, <1>3
<1>5. ASSUME NEW x, NEW j \in DOMAIN s, s[j] = x, j # 1 PROVE Has(Tail(s), x)
  <2>1. j > 1
    BY <1>1, <1>5
  <2> QED BY <2>1, <1>3, <1>5 DEF Has
<1>6. ASSUME Head(s) = "hotspot", NEW x \in {"write", "publish"} PROVE Has(Tail(s), x)
  <2>1. 1 \in DOMAIN s /\ s[1] = "hotspot"
    BY <1>1, <1>6
  <2>2. PICK j \in DOMAIN s : j > 1 /\ s[j] = x
    BY <2>1 DEF Handler, HotspotIsFollowed
  <2> QED BY <2>2, <1>5, <1>1
<1>7. ASSUME NEW x, Has(s, x), Head(s) # x PROVE Has(Tail(s), x)
  BY <1>1, <1>5, <1>7 DEF Has
<1> QED BY <1>1, <1>4, <1>6, <1>7 DEF Handler

\* A handler that leaves the address alone.
LEMMA PlainHandler ==
  ASSUME NEW s \in Seq(Steps), ~Has(s, "hotspot")
  PROVE  Handler(s)
  BY DEF Handler, HotspotIsFollowed, Has

LEMMA ThreeSteps ==
  ASSUME NEW S, NEW a \in S, NEW b \in S, NEW c \in S
  PROVE  <<a, b, c>> \in Seq(S) /\ Len(<<a, b, c>>) = 3
  OBVIOUS

LEMMA OneStep ==
  ASSUME NEW x \in Steps, x # "hotspot"
  PROVE  Handler(<<x>>) /\ Has(<<x>>, x)
<1>1. <<x>> \in Seq(Steps) /\ DOMAIN <<x>> = {1} /\ <<x>>[1] = x
  OBVIOUS
<1>2. Has(<<x>>, x) /\ ~Has(<<x>>, "hotspot")
  BY <1>1 DEF Has
<1> QED BY <1>1, <1>2, PlainHandler

LEMMA DiagnosisIsHandler == Handler(Diagnosis)
<1>1. <<"begin", "probe">> \in Seq(Steps)
  BY DEF Steps
<1>2. ~Has(<<"begin", "probe">>, "hotspot")
  BY DEF Has
<1> QED BY <1>1, <1>2, PlainHandler DEF Diagnosis

LEMMA PublishAdminPublishes == Handler(PublishAdmin) /\ Has(PublishAdmin, "publish")
<1>1. Handler(<<"candidates">>)
  BY OneStep DEF Steps
<1>2. Handler(<<"publish">>) /\ Has(<<"publish">>, "publish")
  BY OneStep DEF Steps
<1> DEFINE first == Diagnosis \o <<"candidates">> \o Diagnosis
<1>3. Handler(first)
  BY <1>1, DiagnosisIsHandler, HandlersJoin
<1>4. PublishAdmin = first \o <<"publish">>
  BY DEF PublishAdmin
<1> HIDE DEF first
<1>5. first \in Seq(Steps) /\ <<"publish">> \in Seq(Steps)
  BY <1>2, <1>3 DEF Handler
<1>6. Has(first \o <<"publish">>, "publish")
  BY <1>2, <1>5, HasKept
<1> QED BY <1>2, <1>3, <1>4, <1>6, HandlersJoin

LEMMA RefreshShareInfoDoesBoth ==
  /\ Handler(RefreshShareInfo)
  /\ Has(RefreshShareInfo, "write") /\ Has(RefreshShareInfo, "publish")
<1>1. Handler(<<"write">>) /\ Has(<<"write">>, "write")
  BY OneStep DEF Steps
<1> DEFINE first == Diagnosis \o <<"write">>
<1>2. Diagnosis \in Seq(Steps) /\ <<"write">> \in Seq(Steps) /\ PublishAdmin \in Seq(Steps)
  BY <1>1, DiagnosisIsHandler, PublishAdminPublishes DEF Handler
<1>3. Handler(first) /\ Has(first, "write") /\ first \in Seq(Steps)
  <2>1. Handler(first)
    BY <1>1, DiagnosisIsHandler, HandlersJoin
  <2>2. Has(first, "write")
    BY <1>1, <1>2, HasKept
  <2> QED BY <2>1, <2>2 DEF Handler
<1>4. RefreshShareInfo = first \o PublishAdmin
  BY DEF RefreshShareInfo
<1> HIDE DEF first
<1>5. Has(first \o PublishAdmin, "write") /\ Has(first \o PublishAdmin, "publish")
  BY <1>2, <1>3, PublishAdminPublishes, HasKept
<1> QED BY <1>3, <1>4, <1>5, PublishAdminPublishes, HandlersJoin

LEMMA RefreshHostRuntimeDoesBoth ==
  /\ Handler(RefreshHostRuntime)
  /\ Has(RefreshHostRuntime, "write") /\ Has(RefreshHostRuntime, "publish")
<1> DEFINE first == <<"info", "capabilities", "hotspot">>
           r == RefreshShareInfo
<1>1. r \in Seq(Steps) /\ Handler(r) /\ Has(r, "write") /\ Has(r, "publish")
  BY RefreshShareInfoDoesBoth DEF Handler
<1>2. first \in Seq(Steps) /\ Len(first) = 3
  <2>1. "info" \in Steps /\ "capabilities" \in Steps /\ "hotspot" \in Steps
    BY DEF Steps
  <2> QED BY <2>1, ThreeSteps
<1>3. RefreshHostRuntime = first \o r
  BY DEF RefreshHostRuntime
<1> HIDE DEF first, r
<1>4. first \o r \in Seq(Steps) /\ Has(first \o r, "write") /\ Has(first \o r, "publish")
  BY <1>1, <1>2, Joined, HasKept
<1>5. DOMAIN (first \o r) = 1..(3 + Len(r)) /\ DOMAIN r = 1..Len(r) /\ Len(r) \in Nat
  <2>1. DOMAIN (first \o r) = 1..(Len(first) + Len(r)) /\ DOMAIN r = 1..Len(r) /\ Len(r) \in Nat
    BY <1>1, <1>2, Joined
  <2> QED BY <2>1, <1>2
<1>6. \A i \in DOMAIN r : i + 3 \in DOMAIN (first \o r) /\ (first \o r)[i + 3] = r[i]
  <2>1. \A i \in DOMAIN r : i + Len(first) \in DOMAIN (first \o r) /\ (first \o r)[i + Len(first)] = r[i]
    BY <1>1, <1>2, Joined
  <2> QED BY <2>1, <1>2
<1>7. HotspotIsFollowed(first \o r)
  <2> SUFFICES ASSUME NEW i \in DOMAIN (first \o r), (first \o r)[i] = "hotspot", NEW x \in {"write", "publish"}
               PROVE  \E j \in DOMAIN (first \o r) : j > i /\ (first \o r)[j] = x
    BY DEF HotspotIsFollowed
  <2>1. CASE i <= 3
    <3>1. PICK j \in DOMAIN r : r[j] = x
      BY <1>1 DEF Has
    <3>2. j + 3 > i
      BY <2>1, <1>5
    <3> QED BY <3>1, <3>2, <1>6
  <2>2. CASE ~(i <= 3)
    <3>1. i - 3 \in DOMAIN r /\ (i - 3) + 3 = i
      BY <2>2, <1>5
    <3>2. r[i - 3] = "hotspot"
      BY <3>1, <1>6
    <3>3. PICK j \in DOMAIN r : j > i - 3 /\ r[j] = x
      BY <3>1, <3>2, <1>1 DEF Handler, HotspotIsFollowed
    <3>4. j + 3 > i
      BY <3>3, <1>5
    <3> QED BY <3>3, <3>4, <1>6
  <2> QED BY <2>1, <2>2
<1> QED BY <1>3, <1>4, <1>7 DEF Handler

LEMMA PageSteps ==
  ASSUME NEW kind \in PageKinds
  PROVE  /\ Pages[kind] \in {"open card", "open wizard", "open self check"}
         /\ Pages[kind] \in Range(Pages)
<1>1. CASE kind = "card"
  BY <1>1 DEF Pages, Range
<1>2. CASE kind = "wizard"
  BY <1>2 DEF Pages, Range
<1>3. CASE kind = "selfcheck"
  BY <1>3 DEF Pages, Range
<1> QED BY <1>1, <1>2, <1>3 DEF PageKinds

\* What the commands and the timer have the UI thread do, the start aside.
LEMMA OpenHandler ==
  ASSUME NEW kind \in PageKinds
  PROVE  LET rest == IF kind = "wizard" THEN RefreshShareInfo ELSE PublishAdmin
             steps == Diagnosis \o <<"write", Pages[kind]>> \o rest
         IN  Handler(steps) /\ Has(steps, "publish")
<1> DEFINE rest == IF kind = "wizard" THEN RefreshShareInfo ELSE PublishAdmin
           open == <<"write", Pages[kind]>>
           first == Diagnosis \o open
<1>1. Pages[kind] \in Steps /\ Pages[kind] # "hotspot" /\ "write" \in Steps
  BY PageSteps DEF Steps
<1>2. open \in Seq(Steps) /\ DOMAIN open = 1..2 /\ open[1] = "write" /\ open[2] = Pages[kind]
  BY <1>1
<1>3. ~Has(open, "hotspot")
  BY <1>1, <1>2 DEF Has
<1> HIDE DEF open
<1>4. Handler(open)
  BY <1>2, <1>3, PlainHandler
<1>5. Handler(first)
  BY <1>4, DiagnosisIsHandler, HandlersJoin
<1> HIDE DEF first
<1>6. Handler(rest) /\ Has(rest, "publish")
  BY PublishAdminPublishes, RefreshShareInfoDoesBoth
<1> HIDE DEF rest
<1>7. first \in Seq(Steps) /\ rest \in Seq(Steps)
  BY <1>5, <1>6 DEF Handler
<1>8. Handler(first \o rest) /\ Has(first \o rest, "publish")
  BY <1>5, <1>6, <1>7, HandlersJoin, HasKept
<1> QED BY <1>8 DEF first, rest, open

LEMMA StartHandler ==
  LET before == IF win.hostIp = NoIp THEN RefreshHostRuntime ELSE <<>>
      steps == before \o <<"start">> \o RefreshShareInfo
  IN  Handler(steps) /\ Has(steps, "write") /\ Has(steps, "publish")
<1> DEFINE before == IF win.hostIp = NoIp THEN RefreshHostRuntime ELSE <<>>
           first == before \o <<"start">>
           r == RefreshShareInfo
<1>1. Handler(<<>>)
  <2>1. <<>> \in Seq(Steps) /\ DOMAIN <<>> = {}
    OBVIOUS
  <2> QED BY <2>1, PlainHandler DEF Has
<1>2. Handler(before)
  BY <1>1, RefreshHostRuntimeDoesBoth
<1> HIDE DEF before
<1>3. Handler(<<"start">>)
  BY OneStep DEF Steps
<1>4. Handler(first)
  BY <1>2, <1>3, HandlersJoin
<1> HIDE DEF first
<1>5. first \in Seq(Steps) /\ r \in Seq(Steps) /\ Handler(r) /\ Has(r, "write") /\ Has(r, "publish")
  BY <1>4, RefreshShareInfoDoesBoth DEF Handler
<1> HIDE DEF r
<1>6. Handler(first \o r) /\ Has(first \o r, "write") /\ Has(first \o r, "publish")
  BY <1>4, <1>5, HandlersJoin, HasKept
<1> QED BY <1>6 DEF first, before, r

-----------------------------------------------------------------------------
(* The bundle and the page. *)

LEMMA ArtifactsInit == Init => ArtifactsInv
<1> SUFFICES ASSUME Init PROVE ArtifactsInv
  OBVIOUS
<1>1. Handler(todo)
  BY RefreshHostRuntimeDoesBoth DEF Init
<1>2. FilesAgree
  BY DEF Init, FilesAgree, NoFiles
<1>3. PageAgrees
  BY DEF Init, PageAgrees, NoSnapshot
<1> QED BY <1>1, <1>2, <1>3 DEF ArtifactsInv

LEMMA HandlerStep ==
  ASSUME Handler(todo), NEW x, Doing(x)
  PROVE  /\ Handler(todo')
         /\ \A y : Has(todo, y) /\ x # y => Has(todo', y)
         /\ x = "hotspot" => Has(todo', "write") /\ Has(todo', "publish")
  BY HandlerGoesOn DEF Doing

\* Most steps of the UI thread touch neither the address nor what is shown of it.
LEMMA OtherStepKeeps ==
  ASSUME ArtifactsInv, NEW x, Doing(x), x \notin {"write", "publish"},
         UNCHANGED <<win, files, page>>
  PROVE  ArtifactsInv'
<1>1. Handler(todo') /\ (Has(todo, "write") => Has(todo', "write")) /\ (Has(todo, "publish") => Has(todo', "publish"))
  BY HandlerStep DEF ArtifactsInv
<1>2. FilesAgree'
  BY <1>1 DEF ArtifactsInv, FilesAgree
<1>3. PageAgrees'
  BY <1>1 DEF ArtifactsInv, PageAgrees
<1> QED BY <1>1, <1>2, <1>3 DEF ArtifactsInv

\* The hotspot's address is taken over; the rest of the handler tells of it.
LEMMA HotspotStepKeeps == ArtifactsInv /\ RefreshHotspot => ArtifactsInv'
<1> SUFFICES ASSUME ArtifactsInv, RefreshHotspot PROVE ArtifactsInv'
  OBVIOUS
<1>1. Doing("hotspot") /\ UNCHANGED <<files, page>>
  BY DEF RefreshHotspot
<1>2. Handler(todo') /\ Has(todo', "write") /\ Has(todo', "publish")
  BY <1>1, HandlerStep DEF ArtifactsInv
<1>3. FilesAgree'
  BY <1>1, <1>2 DEF ArtifactsInv, FilesAgree
<1>4. PageAgrees'
  BY <1>1, <1>2 DEF ArtifactsInv, PageAgrees
<1> QED BY <1>2, <1>3, <1>4 DEF ArtifactsInv

\* An export either writes the three files from one snapshot or says it failed.
LEMMA ExportAgrees ==
  ASSUME NEW fs, NEW json, NEW n \in 0..3, NEW missed, DOMAIN fs = DOMAIN NoFiles
  PROVE  LET made == ExportShareArtifacts(fs, json, n, missed)
         IN  /\ DOMAIN made = DOMAIN NoFiles
             /\ made.ok => made.card = json /\ made.wizard = json /\ made.json = json
<1>1. DOMAIN NoFiles = {"card", "wizard", "json", "status", "selfcheck", "ok", "live"}
  BY DEF NoFiles
<1> DEFINE made == ExportShareArtifacts(fs, json, n, missed)
<1>2. DOMAIN made = DOMAIN fs
  BY DEF ExportShareArtifacts
<1>3. made.ok = (n = 3)
  BY <1>1 DEF ExportShareArtifacts
<1>4. ASSUME n = 3, NEW f \in {"card", "wizard", "json"} PROVE made[f] = json
  <2>1. f \in DOMAIN fs /\ f # "ok" /\ f # "live"
    BY <1>1, <1>4
  <2> QED BY <2>1, <1>4 DEF ExportShareArtifacts
<1> QED BY <1>2, <1>3, <1>4

LEMMA WriteStepKeeps == ArtifactsInv /\ WriteShareArtifacts => ArtifactsInv'
<1> SUFFICES ASSUME ArtifactsInv, WriteShareArtifacts PROVE ArtifactsInv'
  OBVIOUS
<1> DEFINE json == BuildShareBundleJson(Session, Health(look))
<1>1. PICK n \in 0..3, missed \in SUBSET Optional :
        /\ files' = ExportShareArtifacts(files, json, n, missed)
        /\ todo' = IF n < 3 /\ Opens(Tail(todo)) THEN Tail(Tail(todo)) ELSE Tail(todo)
  BY DEF WriteShareArtifacts
<1>2. todo # <<>> /\ Head(todo) = "write" /\ UNCHANGED <<win, page>>
  BY DEF WriteShareArtifacts
<1>3. json.hostIp = win.hostIp
  BY DEF BuildShareBundleJson, Session
<1> HIDE DEF json
<1>4. FilesAgree'
  BY <1>1, <1>2, <1>3, ExportAgrees DEF ArtifactsInv, FilesAgree
<1>5. Handler(Tail(todo)) /\ (Has(todo, "publish") => Has(Tail(todo), "publish"))
  BY <1>2, HandlerGoesOn DEF ArtifactsInv
<1>6. Handler(todo') /\ (Has(todo, "publish") => Has(todo', "publish"))
  <2>1. CASE Opens(Tail(todo))
    <3>1. Tail(todo) # <<>> /\ Head(Tail(todo)) # "publish"
      BY <2>1, PageSteps DEF Opens
    <3>2. /\ Handler(Tail(Tail(todo)))
          /\ Has(Tail(todo), "publish") => Has(Tail(Tail(todo)), "publish")
      BY <3>1, <1>5, HandlerGoesOn
    <3> QED BY <3>2, <1>1, <1>5
  <2>2. CASE ~Opens(Tail(todo))
    BY <2>2, <1>1, <1>5
  <2> QED BY <2>1, <2>2
<1>7. PageAgrees'
  BY <1>2, <1>6 DEF ArtifactsInv, PageAgrees
<1> QED BY <1>4, <1>6, <1>7 DEF ArtifactsInv

LEMMA CandidatesStepKeeps == ArtifactsInv /\ TakeCandidates => ArtifactsInv'
<1> SUFFICES ASSUME ArtifactsInv, TakeCandidates PROVE ArtifactsInv'
  OBVIOUS
<1>1. /\ Doing("candidates") /\ UNCHANGED <<win, files>>
      /\ page' = [page EXCEPT !.candidates = [i \in DOMAIN look.probes |-> look.probes[i].ip]]
  BY DEF TakeCandidates
<1>2. Handler(todo') /\ (Has(todo, "write") => Has(todo', "write")) /\ (Has(todo, "publish") => Has(todo', "publish"))
  BY <1>1, HandlerStep DEF ArtifactsInv
<1>3. FilesAgree'
  BY <1>1, <1>2 DEF ArtifactsInv, FilesAgree
<1>4. DOMAIN page' = {"candidates", "snapshot"} /\ page'.snapshot = page.snapshot
  BY <1>1 DEF ArtifactsInv, PageAgrees
<1>5. PageAgrees'
  BY <1>1, <1>2, <1>4 DEF ArtifactsInv, PageAgrees
<1> QED BY <1>2, <1>3, <1>5 DEF ArtifactsInv

LEMMA PublishStepKeeps == ArtifactsInv /\ PublishAdminShellRuntime => ArtifactsInv'
<1> SUFFICES ASSUME ArtifactsInv, PublishAdminShellRuntime PROVE ArtifactsInv'
  OBVIOUS
<1> DEFINE snapshot == BuildDesktopRuntimeSnapshot(look)
<1>1. Doing("publish") /\ UNCHANGED <<win, files>> /\ page' = [page EXCEPT !.snapshot = snapshot]
  BY DEF PublishAdminShellRuntime
<1>2. Handler(todo') /\ (Has(todo, "write") => Has(todo', "write"))
  BY <1>1, HandlerStep DEF ArtifactsInv
<1>3. FilesAgree'
  BY <1>1, <1>2 DEF ArtifactsInv, FilesAgree
<1>4. snapshot.hostIp = win.hostIp
  BY DEF BuildDesktopRuntimeSnapshot
<1> HIDE DEF snapshot
<1>5. DOMAIN page' = {"candidates", "snapshot"} /\ page'.snapshot = snapshot
  BY <1>1 DEF ArtifactsInv, PageAgrees
<1>6. PageAgrees'
  BY <1>1, <1>4, <1>5 DEF PageAgrees
<1> QED BY <1>2, <1>3, <1>6 DEF ArtifactsInv

\* A command given to an idle window: it may change the address if its handler
\* writes the bundle again.
LEMMA CommandKeeps ==
  ASSUME ArtifactsInv, Idle, UNCHANGED <<files, page>>, Handler(todo'), Has(todo', "publish"),
         Has(todo', "write") \/ win'.hostIp = win.hostIp
  PROVE  ArtifactsInv'
<1>1. \A x : ~Has(todo, x)
  BY DEF Idle, Has
<1>2. FilesAgree'
  BY <1>1 DEF ArtifactsInv, FilesAgree
<1>3. PageAgrees'
  BY DEF ArtifactsInv, PageAgrees
<1> QED BY <1>2, <1>3 DEF ArtifactsInv

LEMMA UserCommandKeeps == ArtifactsInv /\ UserCommand => ArtifactsInv'
<1> SUFFICES ASSUME ArtifactsInv, UserCommand PROVE ArtifactsInv'
  OBVIOUS
<1>1. CASE RefreshNetwork
  BY <1>1, CommandKeeps, RefreshHostRuntimeDoesBoth DEF RefreshNetwork, Command
<1>2. CASE StartServer
  BY <1>2, CommandKeeps, StartHandler DEF StartServer, Command
<1>3. CASE StopServer
  BY <1>3, CommandKeeps, RefreshShareInfoDoesBoth DEF StopServer, Command
<1>4. ASSUME NEW i \in 1..4, SelectNetworkCandidate(i) PROVE ArtifactsInv'
  <2>1. CASE slots[i] = NoIp
    BY <1>4, <2>1, CommandKeeps, PublishAdminPublishes DEF SelectNetworkCandidate, Command
  <2>2. CASE slots[i] # NoIp
    BY <1>4, <2>2, CommandKeeps, RefreshShareInfoDoesBoth DEF SelectNetworkCandidate, Command
  <2> QED BY <2>1, <2>2
<1>5. ASSUME NEW kind \in PageKinds, ExecuteHostAction(kind) PROVE ArtifactsInv'
  BY <1>5, CommandKeeps, OpenHandler DEF ExecuteHostAction, Command
<1>6. ASSUME NEW understood \in BOOLEAN, NEW brings \in BOOLEAN, StartHotspot(understood, brings)
      PROVE  ArtifactsInv'
  BY <1>6, CommandKeeps, RefreshShareInfoDoesBoth DEF StartHotspot, AfterHotspot, Command
<1>7. ASSUME NEW answered \in BOOLEAN, StopHotspot(answered) PROVE ArtifactsInv'
  BY <1>7, CommandKeeps, RefreshShareInfoDoesBoth DEF StopHotspot, Command
<1>8. ASSUME NEW bind \in Binds, ApplyAdminShellSessionRequest(bind) PROVE ArtifactsInv'
  BY <1>8, CommandKeeps, RefreshShareInfoDoesBoth DEF ApplyAdminShellSessionRequest, Command
<1> QED BY <1>1, <1>2, <1>3, <1>4, <1>5, <1>6, <1>7, <1>8 DEF UserCommand

LEMMA ArtifactsStep == ArtifactsInv /\ [Next]_vars => ArtifactsInv'
<1> SUFFICES ASSUME ArtifactsInv, [Next]_vars PROVE ArtifactsInv'
  OBVIOUS
<1>1. CASE RefreshInfo
  BY <1>1, OtherStepKeeps DEF RefreshInfo
<1>2. CASE RefreshCapabilities
  BY <1>2, OtherStepKeeps DEF RefreshCapabilities
<1>3. CASE RefreshHotspot
  BY <1>3, HotspotStepKeeps
<1>4. CASE CollectRuntimeDiagnostics
  BY <1>4, OtherStepKeeps DEF CollectRuntimeDiagnostics
<1>5. CASE WriteShareArtifacts
  BY <1>5, WriteStepKeeps
<1>6. CASE OpenPath
  <2>1. PICK kind \in PageKinds : Doing(Pages[kind])
    BY <1>6 DEF OpenPath
  <2>2. Pages[kind] \notin {"write", "publish"}
    BY PageSteps
  <2> QED BY <1>6, <2>1, <2>2, OtherStepKeeps DEF OpenPath
<1>7. CASE TakeCandidates
  BY <1>7, CandidatesStepKeeps
<1>8. CASE PublishAdminShellRuntime
  BY <1>8, PublishStepKeeps
<1>9. CASE LaunchServer
  BY <1>9, OtherStepKeeps DEF LaunchServer
<1>10. CASE UserCommand
  BY <1>10, UserCommandKeeps
<1>11. CASE HandleRuntimeTick
  BY <1>11, CommandKeeps, PublishAdminPublishes DEF HandleRuntimeTick, PublishOnTick
\* the pages of the bundle and the machine do not touch the window
<1>12. CASE UNCHANGED <<win, todo, files, page>>
  BY <1>12 DEF ArtifactsInv, FilesAgree, PageAgrees
<1>13. CASE PagePolls \/ FollowLink
  BY <1>12, <1>13 DEF PagePolls, FollowLink
<1>14. CASE AdapterChanges \/ ServerMoves \/ FirewallChanges
  BY <1>12, <1>14 DEF AdapterChanges, ServerMoves, FirewallChanges, MachineBecomes
<1>15. CASE UNCHANGED vars
  BY <1>12, <1>15 DEF vars
<1> QED BY <1>1, <1>2, <1>3, <1>4, <1>5, <1>6, <1>7, <1>8, <1>9, <1>10, <1>11, <1>13, <1>14, <1>15
    DEF Next, UiStep

\* Between two handlers the bundle's files agree with each other and with the
\* window's address, and so does the page, for any adapters, any order of the
\* window's steps with the machine's changes, and any export that fails on the
\* way (MainWindow.cpp:1484-1512, 2739-2747; share_artifact_service.cpp).
THEOREM ArtifactsAlwaysAgree == Spec => []ArtifactsAgree
<1>1. ArtifactsInv => ArtifactsAgree
  <2> SUFFICES ASSUME ArtifactsInv, Idle
               PROVE  /\ files.ok => /\ files.card = files.wizard /\ files.wizard = files.json
                                     /\ files.json.hostIp = win.hostIp
                      /\ page.snapshot.hostIp = win.hostIp
    BY DEF ArtifactsAgree
  <2>1. \A x : ~Has(todo, x)
    BY DEF Idle, Has
  <2> QED BY <2>1 DEF ArtifactsInv, FilesAgree, PageAgrees
<1> QED BY <1>1, ArtifactsInit, ArtifactsStep, PTL DEF Spec

-----------------------------------------------------------------------------
(* The order of a handler's steps. *)

\* What must come right before a step.
After(x, y) ==
  /\ y = "capabilities" => x = "info"
  /\ y = "hotspot" => x = "capabilities"
  /\ y = "probe" => x = "begin"
  /\ y \in {"write", "candidates", "publish"} => x = "probe"
Ordered(steps) == steps \in Seq(Steps) /\ \A i \in 1..(Len(steps) - 1) : After(steps[i], steps[i + 1])
Opening == {"info", "begin", "start"}
\* Part of a handler, from one step to another.
Piece(steps, first, last) == Ordered(steps) /\ steps # <<>> /\ Head(steps) = first /\ steps[Len(steps)] = last

\* Two pieces that fit are one.
LEMMA PiecesJoin ==
  ASSUME NEW s, NEW a, NEW b, Piece(s, a, b), NEW t, NEW c, NEW d, Piece(t, c, d), After(b, c)
  PROVE  Piece(s \o t, a, d)
<1>0. s \in Seq(Steps) /\ t \in Seq(Steps) /\ s # <<>> /\ t # <<>>
  BY DEF Ordered, Piece
<1> DEFINE u == s \o t
           n == Len(s)
           m == Len(t)
<1>1. /\ u \in Seq(Steps) /\ Len(u) = n + m /\ n \in Nat \ {0} /\ m \in Nat \ {0}
      /\ \A i \in 1..n : u[i] = s[i]
      /\ \A i \in 1..m : u[n + i] = t[i]
  BY <1>0
<1>2. u # <<>> /\ Head(u) = u[1] /\ Head(s) = s[1] /\ Head(t) = t[1]
  BY <1>0, <1>1
<1>3. /\ \A i \in 1..(n - 1) : After(s[i], s[i + 1])
      /\ \A i \in 1..(m - 1) : After(t[i], t[i + 1])
      /\ s[1] = a /\ s[n] = b /\ t[1] = c /\ t[m] = d
  BY <1>2 DEF Piece, Ordered
<1> HIDE DEF u, n, m
<1>4. ASSUME NEW i \in 1..(Len(u) - 1) PROVE After(u[i], u[i + 1])
  <2>1. CASE i < n
    <3>1. i \in 1..(n - 1) /\ i \in 1..n /\ i + 1 \in 1..n
      BY <1>1, <2>1
    <3> QED BY <1>1, <1>3, <3>1
  <2>2. CASE i = n
    <3>1. n \in 1..n /\ 1 \in 1..m
      BY <1>1
    <3>2. u[i] = b /\ u[i + 1] = c
      BY <1>1, <1>3, <2>2, <3>1
    <3> QED BY <3>2
  <2>3. CASE i > n
    <3> DEFINE j == i - n
    <3>1. j \in 1..(m - 1) /\ j \in 1..m /\ j + 1 \in 1..m /\ i = n + j /\ i + 1 = n + (j + 1)
      BY <1>1, <2>3
    <3> HIDE DEF j
    <3>2. u[i] = t[j] /\ u[i + 1] = t[j + 1]
      BY <1>1, <3>1
    <3> QED BY <1>3, <3>1, <3>2
  <2> QED BY <1>1, <2>1, <2>2, <2>3
<1>5. u[1] = a /\ u[Len(u)] = d
  <2>1. 1 \in 1..n /\ m \in 1..m
    BY <1>1
  <2> QED BY <1>1, <1>3, <2>1
<1>6. Piece(u, a, d)
  BY <1>1, <1>2, <1>4, <1>5 DEF Piece, Ordered
<1> QED BY <1>6 DEF u

\* The shortest pieces.
LEMMA OneStepPiece ==
  ASSUME NEW x \in Steps
  PROVE  Piece(<<x>>, x, x)
<1>1. <<x>> \in Seq(Steps) /\ Len(<<x>>) = 1 /\ <<x>> # <<>> /\ Head(<<x>>) = x /\ <<x>>[1] = x
  OBVIOUS
<1> QED BY <1>1 DEF Piece, Ordered

LEMMA TwoStepPiece ==
  ASSUME NEW x \in Steps, NEW y \in Steps, After(x, y)
  PROVE  Piece(<<x, y>>, x, y)
<1> DEFINE s == <<x, y>>
<1>1. s \in Seq(Steps) /\ Len(s) = 2 /\ s # <<>> /\ Head(s) = x /\ s[1] = x /\ s[2] = y
  OBVIOUS
<1> HIDE DEF s
<1>2. \A i \in 1..(Len(s) - 1) : i = 1
  BY <1>1
<1>3. Piece(s, x, y)
  BY <1>1, <1>2 DEF Piece, Ordered
<1> QED BY <1>3 DEF s

\* The handlers, each from its first step to the publication that ends it.
LEMMA DiagnosisPiece == Piece(Diagnosis, "begin", "probe")
<1>1. "begin" \in Steps /\ "probe" \in Steps /\ After("begin", "probe")
  BY DEF Steps, After
<1> QED BY <1>1, TwoStepPiece DEF Diagnosis

LEMMA PublishPiece == Piece(PublishAdmin, "begin", "publish")
<1>1. Piece(<<"candidates">>, "candidates", "candidates") /\ Piece(<<"publish">>, "publish", "publish")
  BY OneStepPiece DEF Steps
<1>2. /\ After("probe", "candidates") /\ After("candidates", "begin") /\ After("probe", "publish")
  BY DEF After
<1> DEFINE s1 == Diagnosis \o <<"candidates">>
           s2 == s1 \o Diagnosis
<1>3. Piece(s1, "begin", "candidates")
  BY <1>1, <1>2, DiagnosisPiece, PiecesJoin
<1> HIDE DEF s1
<1>4. Piece(s2, "begin", "probe")
  BY <1>2, <1>3, DiagnosisPiece, PiecesJoin
<1> HIDE DEF s2
<1>5. Piece(s2 \o <<"publish">>, "begin", "publish")
  BY <1>1, <1>2, <1>4, PiecesJoin
<1> QED BY <1>5 DEF PublishAdmin, s1, s2

LEMMA ShareInfoPiece == Piece(RefreshShareInfo, "begin", "publish")
<1>1. Piece(<<"write">>, "write", "write") /\ After("probe", "write") /\ After("write", "begin")
  BY OneStepPiece DEF Steps, After
<1> DEFINE s1 == Diagnosis \o <<"write">>
<1>2. Piece(s1, "begin", "write")
  BY <1>1, DiagnosisPiece, PiecesJoin
<1> HIDE DEF s1
<1>3. Piece(s1 \o PublishAdmin, "begin", "publish")
  BY <1>1, <1>2, PublishPiece, PiecesJoin
<1> QED BY <1>3 DEF RefreshShareInfo, s1

LEMMA HostRuntimePiece == Piece(RefreshHostRuntime, "info", "publish")
<1> DEFINE s == <<"info", "capabilities", "hotspot">>
<1>1. s \in Seq(Steps) /\ s # <<>> /\ Len(s) = 3 /\ Head(s) = "info" /\ s[3] = "hotspot"
  BY DEF Steps
<1>2. ASSUME NEW i \in 1..2 PROVE After(s[i], s[i + 1])
  <2>1. i = 1 \/ i = 2
    OBVIOUS
  <2> QED BY <2>1 DEF After
<1>3. Piece(s, "info", "hotspot") /\ After("hotspot", "begin")
  BY <1>1, <1>2 DEF Piece, Ordered, After
<1>4. RefreshHostRuntime = s \o RefreshShareInfo
  BY DEF RefreshHostRuntime
<1> HIDE DEF s
<1> QED BY <1>3, <1>4, ShareInfoPiece, PiecesJoin

LEMMA HostActionPiece ==
  ASSUME NEW kind \in PageKinds
  PROVE  Piece(Diagnosis \o <<"write", Pages[kind]>> \o (IF kind = "wizard" THEN RefreshShareInfo ELSE PublishAdmin),
               "begin", "publish")
<1> DEFINE x == Pages[kind]
           open == <<"write", x>>
           s1 == Diagnosis \o open
           rest == IF kind = "wizard" THEN RefreshShareInfo ELSE PublishAdmin
<1>1. x \in {"open card", "open wizard", "open self check"} /\ x \in Steps /\ "write" \in Steps
  BY PageSteps DEF Steps
<1> HIDE DEF x
<1>2. After("write", x) /\ After("probe", "write") /\ After(x, "begin")
  BY <1>1 DEF After
<1>3. Piece(open, "write", x)
  BY <1>1, <1>2, TwoStepPiece
<1> HIDE DEF open
<1>4. Piece(s1, "begin", x)
  BY <1>2, <1>3, DiagnosisPiece, PiecesJoin
<1>5. Piece(rest, "begin", "publish")
  BY PublishPiece, ShareInfoPiece
<1> HIDE DEF s1, rest
<1>6. Piece(s1 \o rest, "begin", "publish")
  BY <1>2, <1>4, <1>5, PiecesJoin
<1> QED BY <1>6 DEF s1, rest, open, x

LEMMA StartPiece ==
  \E first \in Opening :
    Piece((IF win.hostIp = NoIp THEN RefreshHostRuntime ELSE <<>>) \o <<"start">> \o RefreshShareInfo, first, "publish")
<1> DEFINE before == IF win.hostIp = NoIp THEN RefreshHostRuntime ELSE <<>>
           start == <<"start">>
           s1 == before \o start
<1>1. Piece(start, "start", "start") /\ After("start", "begin") /\ After("publish", "start")
  BY OneStepPiece DEF Steps, After
<1>2. \E first \in Opening : Piece(s1, first, "start")
  <2>1. CASE win.hostIp = NoIp
    <3> HIDE DEF start
    <3>1. before = RefreshHostRuntime
      BY <2>1
    <3>2. Piece(s1, "info", "start")
      BY <3>1, <1>1, HostRuntimePiece, PiecesJoin
    <3> QED BY <3>2 DEF Opening
  <2>2. CASE win.hostIp # NoIp
    <3>1. s1 = start
      BY <2>2
    <3> QED BY <3>1, <1>1 DEF Opening
  <2> QED BY <2>1, <2>2
<1> HIDE DEF s1
<1>3. PICK first \in Opening : Piece(s1, first, "start")
  BY <1>2
<1>4. Piece(s1 \o RefreshShareInfo, first, "publish")
  BY <1>1, <1>3, ShareInfoPiece, PiecesJoin
<1> QED BY <1>4 DEF s1, before, start

\* The rest of a handler, and what may come next in it.
LEMMA OrderedGoesOn ==
  ASSUME NEW s, Ordered(s), s # <<>>
  PROVE  /\ Ordered(Tail(s))
         /\ Tail(s) # <<>> => After(Head(s), Head(Tail(s)))
<1>0. s \in Seq(Steps)
  BY DEF Ordered
<1>1. /\ Tail(s) \in Seq(Steps) /\ Len(Tail(s)) = Len(s) - 1 /\ Len(s) \in Nat \ {0} /\ Head(s) = s[1]
      /\ \A i \in 1..(Len(s) - 1) : Tail(s)[i] = s[i + 1]
  BY <1>0
<1>2. ASSUME NEW i \in 1..(Len(Tail(s)) - 1) PROVE After(Tail(s)[i], Tail(s)[i + 1])
  <2>1. i \in 1..(Len(s) - 1) /\ i + 1 \in 1..(Len(s) - 1)
    BY <1>1
  <2> QED BY <1>1, <2>1 DEF Ordered
<1>3. ASSUME Tail(s) # <<>> PROVE After(Head(s), Head(Tail(s)))
  <2>1. Len(Tail(s)) # 0 /\ Head(Tail(s)) = Tail(s)[1]
    BY <1>1, <1>3
  <2>2. 1 \in 1..(Len(s) - 1)
    BY <1>1, <2>1
  <2> QED BY <1>1, <2>1, <2>2 DEF Ordered
<1> QED BY <1>1, <1>2, <1>3 DEF Ordered

-----------------------------------------------------------------------------
(* The report. *)

\* The refresh in progress has what its next step takes over.
FoundTyped ==
  /\ todo # <<>> /\ Head(todo) = "capabilities" => found \in [hostIp : Ips, mode : {"unknown", "lan", "wifi", "hotspot", "wifi-direct"}]
  /\ todo # <<>> /\ Head(todo) = "hotspot" =>
       found \in [hostIp : Ips, mode : {"unknown", "lan", "wifi", "hotspot", "wifi-direct"}, supported : BOOLEAN]

\* A diagnosis that nothing disturbed since its probes, or since it began, says
\* what is so.
LookTells ==
  /\ look = Nothing \/ look \in Diagnoses
  /\ todo # <<>> /\ Head(todo) = "probe" => look \in Diagnoses /\ (look.calm => BegunTrue(look))
  /\ todo # <<>> /\ Head(todo) \in {"write", "candidates", "publish"} =>
       look \in Diagnoses /\ (look.fresh => ProbesTrue(look)) /\ (look.calm => look.fresh /\ BegunTrue(look))

\* The files of the bundle and the page that is open.
Links == Ips \cup {Loopback}
Bundles == [hostIp : Ips, link : Links, hotspot : BOOLEAN, urgent : BOOLEAN]
BundleTyped ==
  /\ DOMAIN files = DOMAIN NoFiles
  /\ \A f \in {"card", "wizard", "json", "status", "selfcheck"} : files[f] \in Bundles
  /\ opened = Closed \/ opened \in [kind : PageKinds, shown : Bundles, qr : Links]

\* A report is made right after a diagnosis, and what the machine did not disturb
\* in that diagnosis is still so.
ReportInv ==
  /\ Typed
  /\ slots \in [1..4 -> Ips] /\ wanted \in Ips
  /\ spent \in [moves : 0..MaxMoves, commands : 0..MaxCommands]
  /\ Ordered(todo)
  /\ FoundTyped /\ LookTells /\ BundleTyped
  /\ DOMAIN page = {"candidates", "snapshot"} /\ page.candidates \in Seq(Ips)

Fresh == {"write", "candidates", "publish"}
NotAmidst == todo # <<>> => Head(todo) \notin Fresh \cup {"capabilities", "hotspot", "probe"}

\* After a step that nothing hangs on, and at a handler's beginning, what was
\* found and diagnosed before is of no use any more.
LEMMA NothingHangsOn ==
  ASSUME NotAmidst, look = Nothing \/ look \in Diagnoses
  PROVE  FoundTyped /\ LookTells
  BY DEF NotAmidst, FoundTyped, LookTells, Fresh

\* The invariant's parts that only a few steps disturb.
Steady ==
  /\ Typed /\ slots \in [1..4 -> Ips] /\ wanted \in Ips
  /\ spent \in [moves : 0..MaxMoves, commands : 0..MaxCommands]
Paged == DOMAIN page = {"candidates", "snapshot"} /\ page.candidates \in Seq(Ips)

LEMMA ReportParts == ReportInv <=> Steady /\ Ordered(todo) /\ FoundTyped /\ LookTells /\ BundleTyped /\ Paged
  BY DEF ReportInv, Steady, Paged

\* The window is created with a refresh ahead of it.
LEMMA ReportInit == Init => ReportInv
<1> SUFFICES ASSUME Init PROVE ReportInv
  OBVIOUS
<1>1. NoIp \in Ips
  BY DEF Ips
<1>2. Steady
  <2>1. machine \in Machines
    BY DEF Init, Machines, Servers
  <2>2. win \in Windows
    BY <1>1 DEF Init, Windows
  <2>3. slots \in [1..4 -> Ips] /\ wanted \in Ips /\ spent \in [moves : 0..MaxMoves, commands : 0..MaxCommands]
    BY <1>1, NetworkAssumption DEF Init
  <2> QED BY <2>1, <2>2, <2>3 DEF Steady, Typed
<1>3. Ordered(todo) /\ NotAmidst
  <2>1. Piece(todo, "info", "publish")
    BY HostRuntimePiece DEF Init
  <2> QED BY <2>1 DEF Piece, NotAmidst, Fresh
<1>4. FoundTyped /\ LookTells
  BY <1>3, NothingHangsOn DEF Init
<1>5. BundleTyped
  <2>1. NotWritten \in Bundles
    BY <1>1 DEF NotWritten, Bundles, Links
  <2> QED BY <2>1 DEF Init, BundleTyped, NoFiles
<1>6. Paged
  <2>1. <<>> \in Seq(Ips)
    OBVIOUS
  <2> QED BY <2>1 DEF Init, Paged, NoCandidates
<1> QED BY <1>2, <1>3, <1>4, <1>5, <1>6, ReportParts

\* The step that was the handler's first, and what may come next.
LEMMA StepGoesOn ==
  ASSUME ReportInv, NEW x, Doing(x)
  PROVE  /\ Ordered(todo')
         /\ todo' # <<>> => After(x, Head(todo'))
         /\ x \notin {"info", "capabilities", "begin", "probe"} => NotAmidst'
<1>1. todo # <<>> /\ Head(todo) = x /\ todo' = Tail(todo) /\ Ordered(todo)
  BY DEF Doing, ReportInv
<1>2. Ordered(Tail(todo)) /\ (Tail(todo) # <<>> => After(Head(todo), Head(Tail(todo))))
  BY <1>1, OrderedGoesOn
<1> QED BY <1>1, <1>2 DEF After, NotAmidst, Fresh

\* A step that leaves no trace in what the invariant is about, beside what the
\* machine is and what the window knows.
LEMMA QuietStepKeeps ==
  ASSUME ReportInv, NEW x, Doing(x), x \notin {"info", "capabilities", "begin", "probe"},
         Steady', BundleTyped', Paged', look' = Nothing \/ UNCHANGED look
  PROVE  ReportInv'
<1>1. Ordered(todo') /\ NotAmidst'
  BY StepGoesOn
<1>2. (look = Nothing \/ look \in Diagnoses)'
  BY DEF ReportInv, LookTells
<1>3. FoundTyped' /\ LookTells'
  BY <1>1, <1>2 DEF NotAmidst, FoundTyped, LookTells, Fresh
<1> QED BY <1>1, <1>3 DEF ReportInv, Steady, Paged

\* The bounds hold.
LEMMA BoundsKept ==
  ASSUME spent \in [moves : 0..MaxMoves, commands : 0..MaxCommands], Spend \/ Move \/ UNCHANGED spent
  PROVE  spent' \in [moves : 0..MaxMoves, commands : 0..MaxCommands]
<1>1. MaxMoves \in Nat /\ MaxCommands \in Nat
  BY NetworkAssumption
<1> QED BY <1>1 DEF Spend, Move

\* An address that the service finds is one of the machine's.
LEMMA FoundAddress ==
  ASSUME NEW up, AdapterList(up), GetCurrentNetworkInfo(up).hostIp # NoIp
  PROVE  GetCurrentNetworkInfo(up) \in [hostIp : Ips, mode : {"lan", "wifi", "hotspot", "wifi-direct"}]
<1> DEFINE info == GetCurrentNetworkInfo(up)
<1>1. PICK i \in DOMAIN up : info = [hostIp |-> up[i].ip, mode |-> GuessMode(up[i])] /\ info.hostIp \in Ips
  BY ServiceChoosesTheBest
<1> HIDE DEF info
<1>2. ASSUME NEW a PROVE GuessMode(a) \in {"lan", "wifi", "hotspot", "wifi-direct"}
  BY DEF GuessMode
<1>3. info \in [hostIp : Ips, mode : {"lan", "wifi", "hotspot", "wifi-direct"}]
  BY <1>1, <1>2
<1> QED BY <1>3 DEF info

\* The types that most steps need.
LEMMA UpTyped ==
  ASSUME ReportInv
  PROVE  AdapterList(UpAdapters(machine)) /\ machine \in Machines /\ win \in Windows /\ win.hostIp \in Ips
<1>1. machine \in Machines /\ win \in Windows
  BY DEF ReportInv, Typed
<1>2. machine.up \in SUBSET DOMAIN Adapters /\ win.hostIp \in Ips
  BY <1>1 DEF Machines, Windows
<1> QED BY <1>1, <1>2, AdaptersThatAreUp

-----------------------------------------------------------------------------
(* The steps that a report depends on. *)

\* The refresh takes an address by the service's rule or by the window's.
LEMMA InfoStep == ReportInv /\ RefreshInfo => ReportInv'
<1> SUFFICES ASSUME ReportInv, RefreshInfo PROVE ReportInv'
  OBVIOUS
<1> DEFINE info == GetCurrentNetworkInfo(UpAdapters(machine))
           fallback == DetectBestIPv4(UpAdapters(machine))
<1>1. /\ Doing("info") /\ UNCHANGED <<machine, win, slots, look, files, opened, page, spent, wanted>>
      /\ found' = IF info.hostIp # NoIp THEN info
                  ELSE [hostIp |-> fallback, mode |-> IF fallback = NoIp THEN "unknown" ELSE "lan"]
  BY DEF RefreshInfo
<1>2. /\ info.hostIp # NoIp => info \in [hostIp : Ips, mode : {"lan", "wifi", "hotspot", "wifi-direct"}]
      /\ fallback \in Ips
  BY UpTyped, FoundAddress, WindowDetects
<1> HIDE DEF info, fallback
<1>3. found' \in [hostIp : Ips, mode : {"unknown", "lan", "wifi", "hotspot", "wifi-direct"}]
  BY <1>1, <1>2
<1>4. Ordered(todo') /\ (todo' # <<>> => After("info", Head(todo')))
  BY <1>1, StepGoesOn
<1>5. todo' # <<>> => Head(todo') \notin Fresh \cup {"hotspot", "probe"}
  BY <1>4 DEF After, Fresh
<1>6. FoundTyped' /\ LookTells'
  BY <1>1, <1>3, <1>5 DEF FoundTyped, LookTells, Fresh, ReportInv
<1>7. Steady' /\ BundleTyped' /\ Paged'
  BY <1>1, ReportParts DEF Steady, Typed, BundleTyped, Paged
<1> QED BY <1>4, <1>6, <1>7 DEF ReportInv, Steady, Paged

\* It asks what the driver can do,
LEMMA CapabilitiesStep == ReportInv /\ RefreshCapabilities => ReportInv'
<1> SUFFICES ASSUME ReportInv, RefreshCapabilities PROVE ReportInv'
  OBVIOUS
<1>1. PICK understood \in BOOLEAN :
        /\ Fails(~understood)
        /\ found' = [hostIp |-> found.hostIp, mode |-> found.mode, supported |-> QueryCapabilities(understood)]
  BY DEF RefreshCapabilities
<1>2. Doing("capabilities") /\ UNCHANGED <<machine, win, slots, look, files, opened, page, wanted>>
  BY DEF RefreshCapabilities
<1>3. QueryCapabilities(understood) \in BOOLEAN
  BY NetworkAssumption DEF QueryCapabilities, WifiPresent
<1>4. found \in [hostIp : Ips, mode : {"unknown", "lan", "wifi", "hotspot", "wifi-direct"}]
  BY <1>2 DEF ReportInv, FoundTyped, Doing
<1>5. found' \in [hostIp : Ips, mode : {"unknown", "lan", "wifi", "hotspot", "wifi-direct"}, supported : BOOLEAN]
  BY <1>1, <1>3, <1>4
<1>6. Ordered(todo') /\ (todo' # <<>> => After("capabilities", Head(todo')))
  BY <1>2, StepGoesOn
<1>7. todo' # <<>> => Head(todo') \notin Fresh \cup {"capabilities", "probe"}
  BY <1>6 DEF After, Fresh
<1>8. FoundTyped' /\ LookTells'
  BY <1>2, <1>5, <1>7 DEF FoundTyped, LookTells, Fresh, ReportInv
<1>9. spent' \in [moves : 0..MaxMoves, commands : 0..MaxCommands]
  BY <1>1, BoundsKept DEF Fails, ReportInv
<1>10. Steady' /\ BundleTyped' /\ Paged'
  BY <1>2, <1>9, ReportParts DEF Steady, Typed, BundleTyped, Paged
<1> QED BY <1>6, <1>8, <1>10 DEF ReportInv, Steady, Paged

\* and takes over what it found, with the address of a second look.
LEMMA HotspotStep == ReportInv /\ RefreshHotspot => ReportInv'
<1> SUFFICES ASSUME ReportInv, RefreshHotspot PROVE ReportInv'
  OBVIOUS
<1>1. PICK answered \in BOOLEAN :
        /\ Fails(~answered)
        /\ LET state == QueryHotspotState(answered)
           IN  win' = [win EXCEPT !.hostIp = state.hostIp, !.mode = found.mode, !.wifi = WifiPresent,
                                  !.hotspotSupported = found.supported, !.hotspotRunning = state.hotspotRunning,
                                  !.hotspotStatus = state.hotspotStatus]
  BY DEF RefreshHotspot
<1>2. Doing("hotspot") /\ UNCHANGED <<machine, slots, look, files, opened, page, wanted>>
  BY DEF RefreshHotspot
<1>3. found \in [hostIp : Ips, mode : {"unknown", "lan", "wifi", "hotspot", "wifi-direct"}, supported : BOOLEAN]
  BY <1>2 DEF ReportInv, FoundTyped, Doing
<1> DEFINE state == QueryHotspotState(answered)
           again == GetCurrentNetworkInfo(UpAdapters(machine)).hostIp
<1>4. again # NoIp => again \in Ips
  BY UpTyped, FoundAddress
<1>5. /\ state.hostIp \in Ips /\ state.hotspotRunning \in BOOLEAN
      /\ state.hotspotStatus \in {"running", "stopped", "start failed", "system settings required"}
  <2>1. state.hostIp = IF answered /\ again # NoIp THEN again ELSE found.hostIp
    BY DEF QueryHotspotState
  <2>2. state.hotspotRunning = (answered /\ HotspotOn(machine))
    BY DEF QueryHotspotState
  <2>3. state.hotspotStatus = IF ~answered THEN "stopped" ELSE IF HotspotOn(machine) THEN "running"
                              ELSE IF ~HostedSupported THEN "system settings required" ELSE "stopped"
    BY DEF QueryHotspotState
  <2> HIDE DEF state, again
  <2> QED BY <2>1, <2>2, <2>3, <1>3, <1>4
<1> HIDE DEF state, again
<1>6. win' \in Windows
  <2>1. WifiPresent \in BOOLEAN /\ win \in Windows
    BY UpTyped DEF WifiPresent
  <2>2. win' = [win EXCEPT !.hostIp = state.hostIp, !.mode = found.mode, !.wifi = WifiPresent,
                           !.hotspotSupported = found.supported, !.hotspotRunning = state.hotspotRunning,
                           !.hotspotStatus = state.hotspotStatus]
    BY <1>1 DEF state
  <2>3. found.mode \in {"unknown", "lan", "wifi", "hotspot", "wifi-direct"} /\ found.supported \in BOOLEAN
    BY <1>3
  <2> QED BY <1>5, <2>1, <2>2, <2>3 DEF Windows
<1>7. spent' \in [moves : 0..MaxMoves, commands : 0..MaxCommands]
  BY <1>1, BoundsKept DEF Fails, ReportInv
<1>8. Steady' /\ BundleTyped' /\ Paged'
  BY <1>2, <1>6, <1>7, ReportParts DEF Steady, Typed, BundleTyped, Paged
<1> QED BY <1>2, <1>8, QuietStepKeeps

\* A diagnosis begins, and its probes come back.
LEMMA DiagnosisStep == ReportInv /\ CollectRuntimeDiagnostics => ReportInv'
<1> SUFFICES ASSUME ReportInv, CollectRuntimeDiagnostics PROVE ReportInv'
  OBVIOUS
<1>1. UNCHANGED <<machine, win, slots, found, files, opened, page, spent, wanted>>
  BY DEF CollectRuntimeDiagnostics
<1>2. Steady' /\ BundleTyped' /\ Paged'
  BY <1>1, ReportParts DEF Steady, Typed, BundleTyped, Paged
<1>3. CASE Doing("begin") /\ look' = BeginDiagnosis(machine)
  <2>1. look' \in Diagnoses /\ BegunTrue(look')
    BY <1>3, BeginTells DEF ReportInv
  <2>2. BegunTrue(look)'
    BY <1>1, <2>1 DEF BegunTrue
  <2>3. Ordered(todo') /\ (todo' # <<>> => Head(todo') \notin Fresh \cup {"capabilities", "hotspot"})
    BY <1>3, StepGoesOn DEF After, Fresh
  <2>4. FoundTyped' /\ LookTells'
    BY <2>1, <2>2, <2>3 DEF FoundTyped, LookTells, Fresh
  <2> QED BY <1>2, <2>3, <2>4 DEF ReportInv, Steady, Paged
<1>4. CASE Doing("probe") /\ look' = Probe(machine, look)
  <2>1. look \in Diagnoses /\ (look.calm => BegunTrue(look))
    BY <1>4 DEF ReportInv, LookTells, Doing
  <2>2. /\ look' \in Diagnoses /\ look'.fresh /\ look'.calm = look.calm /\ ProbesTrue(look')
        /\ BegunTrue(look) => BegunTrue(look')
    BY <1>4, <2>1, ProbeTells DEF ReportInv
  <2>3. ProbesTrue(look)' /\ (look'.calm => BegunTrue(look)')
    <3>1. ProbesTrue(look)'
      BY <1>1, <2>2 DEF ProbesTrue
    <3>2. look'.calm => BegunTrue(look)'
      BY <1>1, <2>1, <2>2 DEF BegunTrue
    <3> QED BY <3>1, <3>2
  <2>4. Ordered(todo') /\ (todo' # <<>> => Head(todo') \notin {"probe", "capabilities", "hotspot"})
    BY <1>4, StepGoesOn DEF After
  <2>5. FoundTyped' /\ LookTells'
    BY <2>2, <2>3, <2>4 DEF FoundTyped, LookTells
  <2> QED BY <1>2, <2>4, <2>5 DEF ReportInv, Steady, Paged
<1> QED BY <1>3, <1>4 DEF CollectRuntimeDiagnostics

\* An export leaves in each file a bundle: the new one or the one that was there.
LEMMA ExportTyped ==
  ASSUME NEW fs, DOMAIN fs = DOMAIN NoFiles, NEW n, NEW missed,
         NEW json, json \in Bundles,
         \A f \in {"card", "wizard", "json", "status", "selfcheck"} : fs[f] \in Bundles
  PROVE  LET made == ExportShareArtifacts(fs, json, n, missed)
         IN  /\ DOMAIN made = DOMAIN NoFiles
             /\ \A f \in {"card", "wizard", "json", "status", "selfcheck"} : made[f] \in Bundles
<1> DEFINE made == ExportShareArtifacts(fs, json, n, missed)
           done == (IF n > 0 THEN {"card"} ELSE {}) \cup (IF n > 1 THEN {"wizard"} ELSE {})
                   \cup (IF n > 2 THEN {"json"} \cup (Optional \ missed) ELSE {})
<1>1. made = [f \in DOMAIN fs |-> IF f = "ok" THEN n = 3 ELSE IF f = "live" THEN "status" \in done
                                  ELSE IF f \in done THEN json ELSE fs[f]]
  BY DEF ExportShareArtifacts
<1> HIDE DEF made, done
<1>2. ASSUME NEW f \in {"card", "wizard", "json", "status", "selfcheck"} PROVE made[f] \in Bundles
  <2>1. f \in DOMAIN fs /\ f # "ok" /\ f # "live"
    BY DEF NoFiles
  <2> QED BY <1>1, <2>1
<1> QED BY <1>1, <1>2 DEF made

\* A page shows a bundle.
LEMMA RenderTyped ==
  ASSUME NEW kind \in PageKinds, NEW p, p \in [kind : {kind}, shown : Bundles, qr : Links], NEW bundle \in Bundles
  PROVE  RenderBundle(p, bundle) \in [kind : PageKinds, shown : Bundles, qr : Links]
<1>1. p.kind = kind /\ bundle.link \in Links
  BY DEF Bundles
<1>2. RenderCard(p, bundle) \in [kind : PageKinds, shown : Bundles, qr : Links]
  BY <1>1 DEF RenderCard
<1>3. RenderWizard(p, bundle) \in [kind : PageKinds, shown : Bundles, qr : Links]
  BY <1>1 DEF RenderWizard
<1>4. RenderSelfCheck(p, bundle) \in [kind : PageKinds, shown : Bundles, qr : Links]
  BY <1>1 DEF RenderSelfCheck
<1>5. kind = "card" \/ kind = "wizard" \/ kind = "selfcheck"
  BY DEF PageKinds
<1> QED BY <1>1, <1>2, <1>3, <1>4, <1>5 DEF RenderBundle

\* The bundle that was never written is one.
LEMMA NothingWritten == NotWritten \in Bundles /\ NoIp \in Links
<1>1. NoIp \in Ips
  BY DEF Ips
<1> QED BY <1>1 DEF NotWritten, Bundles, Links

\* A page that is opened.
LEMMA LoadTyped ==
  ASSUME BundleTyped, NEW kind \in PageKinds
  PROVE  LoadPage(kind, files) \in [kind : PageKinds, shown : Bundles, qr : Links]
<1> DEFINE p == [Closed EXCEPT !.kind = kind]
<1>1. p \in [kind : {kind}, shown : Bundles, qr : Links]
  BY NothingWritten DEF Closed
<1>2. files[kind] \in Bundles
  BY DEF BundleTyped, PageKinds
<1>3. LoadPage(kind, files) = RenderBundle(p, files[kind])
  BY DEF LoadPage
<1> HIDE DEF p
<1> QED BY <1>1, <1>2, <1>3, RenderTyped

\* A page that polls.
LEMMA PollTyped ==
  ASSUME BundleTyped, opened # Closed
  PROVE  LoadLiveStatus(opened, files) \in [kind : PageKinds, shown : Bundles, qr : Links]
<1>1. opened \in [kind : PageKinds, shown : Bundles, qr : Links] /\ files.status \in Bundles
  BY DEF BundleTyped
<1> DEFINE kind == opened.kind
<1>2. kind \in PageKinds /\ opened \in [kind : {kind}, shown : Bundles, qr : Links]
  BY <1>1
<1> HIDE DEF kind
<1>3. RenderBundle(opened, files.status) \in [kind : PageKinds, shown : Bundles, qr : Links]
  BY <1>1, <1>2, RenderTyped
<1> QED BY <1>1, <1>3 DEF LoadLiveStatus

\* The bundle is written, the three files or fewer, and a page may stay closed.
LEMMA WriteStep == ReportInv /\ WriteShareArtifacts => ReportInv'
<1> SUFFICES ASSUME ReportInv, WriteShareArtifacts PROVE ReportInv'
  OBVIOUS
<1> DEFINE json == BuildShareBundleJson(Session, Health(look))
<1>1. PICK n \in 0..3, missed \in SUBSET Optional :
        /\ Fails(n < 3 \/ missed # {})
        /\ files' = ExportShareArtifacts(files, json, n, missed)
        /\ todo' = IF n < 3 /\ Opens(Tail(todo)) THEN Tail(Tail(todo)) ELSE Tail(todo)
  BY DEF WriteShareArtifacts
<1>2. todo # <<>> /\ Head(todo) = "write" /\ look' = Nothing
      /\ UNCHANGED <<machine, win, slots, found, opened, page, wanted>>
  BY DEF WriteShareArtifacts
<1>3. json \in Bundles
  <2>1. Session.hostIp = win.hostIp /\ Session.hotspotRunning = win.hotspotRunning
    BY DEF Session
  <2>2. win.hostIp \in Ips /\ win.hotspotRunning \in BOOLEAN
    BY UpTyped DEF Windows
  <2>3. BuildViewerUrl(Session) \in Links
    BY <2>1, <2>2 DEF BuildViewerUrl, Links
  <2> DEFINE urgent == BuildSelfCheckReport(Session, Health(look)).p0 > 0
  <2>4. json = [hostIp |-> Session.hostIp, link |-> BuildViewerUrl(Session), hotspot |-> Session.hotspotRunning, urgent |-> urgent]
    BY DEF BuildShareBundleJson
  <2>5. urgent \in BOOLEAN
    OBVIOUS
  <2> HIDE DEF urgent, json
  <2> QED BY <2>1, <2>2, <2>3, <2>4, <2>5 DEF Bundles
<1> HIDE DEF json
<1>4. BundleTyped'
  <2>1. /\ DOMAIN files' = DOMAIN NoFiles
        /\ \A f \in {"card", "wizard", "json", "status", "selfcheck"} : files'[f] \in Bundles
    BY <1>1, <1>3, ExportTyped DEF ReportInv, BundleTyped
  <2> QED BY <1>2, <2>1 DEF ReportInv, BundleTyped
<1>5. Ordered(Tail(todo)) /\ (Tail(todo) # <<>> => After("write", Head(Tail(todo))))
  BY <1>2, OrderedGoesOn DEF ReportInv
<1>6. Ordered(todo') /\ NotAmidst'
  <2>1. CASE n < 3 /\ Opens(Tail(todo))
    <3>1. Tail(todo) # <<>> /\ Head(Tail(todo)) \in {"open card", "open wizard", "open self check"}
      BY <2>1, PageSteps DEF Opens
    <3>2. Ordered(Tail(Tail(todo))) /\ (Tail(Tail(todo)) # <<>> => After(Head(Tail(todo)), Head(Tail(Tail(todo)))))
      BY <3>1, <1>5, OrderedGoesOn
    <3> QED BY <1>1, <2>1, <3>1, <3>2 DEF NotAmidst, Fresh, After
  <2>2. CASE ~(n < 3 /\ Opens(Tail(todo)))
    BY <1>1, <1>5, <2>2 DEF NotAmidst, Fresh, After
  <2> QED BY <2>1, <2>2
<1>7. (look = Nothing \/ look \in Diagnoses)'
  BY <1>2 DEF Nothing
<1>8. FoundTyped' /\ LookTells'
  BY <1>6, <1>7 DEF NotAmidst, FoundTyped, LookTells, Fresh
<1>9. spent' \in [moves : 0..MaxMoves, commands : 0..MaxCommands]
  BY <1>1, BoundsKept DEF Fails, ReportInv
<1>10. Steady' /\ Paged'
  BY <1>2, <1>9, ReportParts DEF Steady, Typed, Paged
<1> QED BY <1>4, <1>6, <1>8, <1>10 DEF ReportInv, Steady, Paged

\* A page of the bundle is opened.
LEMMA OpenStep == ReportInv /\ OpenPath => ReportInv'
<1> SUFFICES ASSUME ReportInv, OpenPath PROVE ReportInv'
  OBVIOUS
<1>1. PICK kind \in PageKinds : Doing(Pages[kind]) /\ opened' = LoadPage(kind, files)
  BY DEF OpenPath
<1>2. UNCHANGED <<machine, win, slots, found, look, files, page, spent, wanted>>
  BY DEF OpenPath
<1>3. Pages[kind] \notin {"info", "capabilities", "begin", "probe"}
  BY PageSteps
<1>4. opened' \in [kind : PageKinds, shown : Bundles, qr : Links]
  BY <1>1, LoadTyped DEF ReportInv
<1>5. Steady' /\ BundleTyped' /\ Paged'
  BY <1>2, <1>4, ReportParts DEF Steady, Typed, BundleTyped, Paged
<1> QED BY <1>1, <1>2, <1>3, <1>5, QuietStepKeeps

\* The admin page takes the probes,
LEMMA CandidatesStep == ReportInv /\ TakeCandidates => ReportInv'
<1> SUFFICES ASSUME ReportInv, TakeCandidates PROVE ReportInv'
  OBVIOUS
<1> DEFINE listed == [i \in DOMAIN look.probes |-> look.probes[i].ip]
<1>1. Doing("candidates") /\ page' = [page EXCEPT !.candidates = listed]
  BY DEF TakeCandidates
<1>2. look' = Nothing /\ UNCHANGED <<machine, win, slots, found, files, opened, spent, wanted>>
  BY DEF TakeCandidates
<1>3. look \in Diagnoses
  BY <1>1 DEF Doing, ReportInv, LookTells, Fresh
<1>4. listed \in Seq(Ips)
  <2> DEFINE probes == look.probes
  <2>1. probes \in Seq(Probed)
    BY <1>3 DEF Diagnoses
  <2> HIDE DEF probes
  <2>2. DOMAIN probes = 1..Len(probes) /\ Len(probes) \in Nat /\ \A i \in 1..Len(probes) : probes[i] \in Probed
    BY <2>1
  <2>3. \A i \in 1..Len(probes) : probes[i].ip \in Ips
    BY <2>2 DEF Probed
  <2>4. [i \in 1..Len(probes) |-> probes[i].ip] \in [1..Len(probes) -> Ips]
    BY <2>3
  <2>5. [i \in DOMAIN probes |-> probes[i].ip] \in Seq(Ips)
    BY <2>2, <2>4
  <2> QED BY <2>5 DEF probes
<1> HIDE DEF listed
<1>5. Paged'
  BY <1>1, <1>4 DEF ReportInv, Paged
<1>6. Steady' /\ BundleTyped'
  BY <1>2, ReportParts DEF Steady, Typed, BundleTyped
<1> QED BY <1>1, <1>2, <1>5, <1>6, QuietStepKeeps

\* and the snapshot.
LEMMA PublishStep == ReportInv /\ PublishAdminShellRuntime => ReportInv'
<1> SUFFICES ASSUME ReportInv, PublishAdminShellRuntime PROVE ReportInv'
  OBVIOUS
<1> DEFINE snapshot == BuildDesktopRuntimeSnapshot(look)
<1>1. Doing("publish") /\ page' = [page EXCEPT !.snapshot = snapshot]
  BY DEF PublishAdminShellRuntime
<1>2. look' = Nothing /\ UNCHANGED <<machine, win, slots, found, files, opened, spent, wanted>>
  BY DEF PublishAdminShellRuntime
<1> HIDE DEF snapshot
<1>3. Paged'
  BY <1>1 DEF ReportInv, Paged
<1>4. Steady' /\ BundleTyped'
  BY <1>2, ReportParts DEF Steady, Typed, BundleTyped
<1> QED BY <1>1, <1>2, <1>3, <1>4, QuietStepKeeps

\* The server is started with the window's bind address.
LEMMA LaunchStep == ReportInv /\ LaunchServer => ReportInv'
<1> SUFFICES ASSUME ReportInv, LaunchServer PROVE ReportInv'
  OBVIOUS
<1>1. Doing("start") /\ UNCHANGED <<win, slots, found, look, files, opened, page, spent, wanted>>
      /\ machine' = IF CanBindTcpPort(machine, win.bind) THEN [machine EXCEPT !.server = "starting", !.bind = win.bind] ELSE machine
  BY DEF LaunchServer
<1>2. machine \in Machines /\ win.bind \in Binds \cup {AnyBind}
  BY UpTyped DEF Windows
<1>3. machine' \in Machines
  BY <1>1, <1>2 DEF Machines, Servers
<1>4. Steady' /\ BundleTyped' /\ Paged'
  BY <1>1, <1>3, ReportParts DEF Steady, Typed, BundleTyped, Paged
<1> QED BY <1>1, <1>4, QuietStepKeeps

\* The machine changes: the diagnosis in progress is not of a still machine.
LEMMA MachineStep ==
  ASSUME ReportInv, NEW m \in Machines, MachineBecomes(m)
  PROVE  ReportInv'
<1>1. /\ Move /\ machine' = m /\ look' = IF look = Nothing THEN look ELSE [look EXCEPT !.calm = FALSE, !.fresh = FALSE]
      /\ UNCHANGED <<win, slots, todo, found, files, opened, page, wanted>>
  BY DEF MachineBecomes
<1>2. ASSUME look \in Diagnoses PROVE look # Nothing /\ look' \in Diagnoses /\ ~look'.calm /\ ~look'.fresh
  <2>1. look # Nothing
    <3>1. DOMAIN look = {"candidates", "running", "portReady", "lanBind", "localHealth", "probes", "reachable", "firewall", "calm",
                     "fresh"}
      BY <1>2 DEF Diagnoses
    <3>2. DOMAIN Nothing = {"begin"}
      BY DEF Nothing
    <3> QED BY <3>1, <3>2
  <2>2. look' = [look EXCEPT !.calm = FALSE, !.fresh = FALSE]
    BY <1>1, <2>1
  <2> QED BY <1>2, <2>1, <2>2 DEF Diagnoses
<1>3. LookTells'
  BY <1>1, <1>2 DEF ReportInv, LookTells
<1>4. FoundTyped'
  BY <1>1 DEF ReportInv, FoundTyped
<1>5. spent' \in [moves : 0..MaxMoves, commands : 0..MaxCommands]
  BY <1>1, BoundsKept DEF ReportInv
<1>6. Ordered(todo') /\ Steady' /\ BundleTyped' /\ Paged'
  BY <1>1, <1>5, ReportParts DEF Steady, Typed, BundleTyped, Paged
<1> QED BY <1>3, <1>4, <1>6 DEF ReportInv, Steady, Paged

\* Adapters, the server and the firewall change.
LEMMA MachineMoves == ReportInv /\ (AdapterChanges \/ ServerMoves \/ FirewallChanges) => ReportInv'
<1> SUFFICES ASSUME ReportInv PROVE (AdapterChanges \/ ServerMoves \/ FirewallChanges) => ReportInv'
  OBVIOUS
<1>0. machine \in Machines
  BY UpTyped
<1>1. ASSUME AdapterChanges PROVE ReportInv'
  <2>1. PICK i \in DOMAIN Adapters : MachineBecomes([machine EXCEPT !.up = IF i \in @ THEN @ \ {i} ELSE @ \cup {i}])
    BY <1>1 DEF AdapterChanges
  <2> DEFINE m == [machine EXCEPT !.up = IF i \in @ THEN @ \ {i} ELSE @ \cup {i}]
  <2>2. m \in Machines
    BY <1>0 DEF Machines
  <2> QED BY <2>1, <2>2, MachineStep
<1>2. ASSUME ServerMoves PROVE ReportInv'
  <2>1. PICK s \in Servers : MachineBecomes([machine EXCEPT !.server = s])
    BY <1>2 DEF ServerMoves, Servers
  <2> DEFINE m == [machine EXCEPT !.server = s]
  <2>2. m \in Machines
    BY <1>0 DEF Machines
  <2> QED BY <2>1, <2>2, MachineStep
<1>3. ASSUME FirewallChanges PROVE ReportInv'
  <2>1. PICK f \in Firewalls : MachineBecomes([machine EXCEPT !.firewall = f])
    BY <1>3 DEF FirewallChanges
  <2> DEFINE m == [machine EXCEPT !.firewall = f]
  <2>2. m \in Machines
    BY <1>0 DEF Machines
  <2> QED BY <2>1, <2>2, MachineStep
<1> QED BY <1>1, <1>2, <1>3

\* A handler that begins: nothing hangs on what was found before.
LEMMA HandlerBegins ==
  ASSUME ReportInv, NEW first \in Opening, Piece(todo', first, "publish"),
         Steady', BundleTyped', Paged', look' = Nothing \/ UNCHANGED look
  PROVE  ReportInv'
<1>1. Ordered(todo') /\ NotAmidst'
  BY DEF Piece, NotAmidst, Opening, Fresh
<1>2. (look = Nothing \/ look \in Diagnoses)'
  BY DEF ReportInv, LookTells
<1>3. FoundTyped' /\ LookTells'
  BY <1>1, <1>2 DEF NotAmidst, FoundTyped, LookTells, Fresh
<1> QED BY <1>1, <1>3 DEF ReportInv, Steady, Paged

\* A command gives an idle window a handler.
LEMMA CommandBegins ==
  ASSUME ReportInv, NEW handler, NEW first \in Opening, Piece(handler, first, "publish"), Command(handler),
         machine' \in Machines, win' \in Windows, slots' \in [1..4 -> Ips], wanted' \in Ips,
         UNCHANGED <<look, files, opened, page>>
  PROVE  ReportInv'
<1>1. todo' = handler /\ Spend
  BY DEF Command
<1>2. spent' \in [moves : 0..MaxMoves, commands : 0..MaxCommands]
  BY <1>1, BoundsKept DEF ReportInv
<1>3. Steady' /\ BundleTyped' /\ Paged'
  BY <1>2, ReportParts DEF Steady, Typed, BundleTyped, Paged
<1> QED BY <1>1, <1>3, HandlerBegins

\* A click on a candidate: the address of a slot, if the slot has one.
LEMMA SelectStep ==
  ASSUME ReportInv, NEW i \in 1..4, SelectNetworkCandidate(i)
  PROVE  ReportInv'
<1>1. /\ i \in DOMAIN page.candidates /\ wanted' = page.candidates[i]
      /\ slots' = RefreshNetworkPage(Candidates(machine))
      /\ win' = IF slots[i] = NoIp THEN win ELSE [win EXCEPT !.hostIp = slots[i]]
      /\ Command(IF slots[i] = NoIp THEN PublishAdmin ELSE RefreshShareInfo)
      /\ UNCHANGED <<machine, found, look, files, opened, page>>
  BY DEF SelectNetworkCandidate
<1>2. slots' = slots
  BY <1>1 DEF RefreshNetworkPage, PreferHtmlAdminUi
<1>3. /\ slots \in [1..4 -> Ips] /\ page.candidates \in Seq(Ips)
      /\ machine \in Machines /\ win \in Windows
  BY DEF ReportInv, Typed
<1>4. slots[i] \in Ips
  BY <1>3
<1>5. win' \in Windows
  BY <1>1, <1>3, <1>4 DEF Windows
<1>6. wanted' \in Ips
  <2>1. page.candidates[i] \in Ips
    BY <1>1, <1>3
  <2> QED BY <1>1, <2>1
<1> DEFINE handler == IF slots[i] = NoIp THEN PublishAdmin ELSE RefreshShareInfo
<1>7. Piece(handler, "begin", "publish") /\ "begin" \in Opening
  BY PublishPiece, ShareInfoPiece DEF Opening
<1>8. Command(handler) /\ UNCHANGED <<machine, look, files, opened, page>>
  BY <1>1
<1> HIDE DEF handler
<1> QED BY <1>2, <1>3, <1>5, <1>6, <1>7, <1>8, CommandBegins

\* The hotspot comes up or not, with the service's choice of an address.
LEMMA StartHotspotStep ==
  ASSUME ReportInv, NEW understood \in BOOLEAN, NEW brings \in BOOLEAN, StartHotspot(understood, brings)
  PROVE  ReportInv'
<1> DEFINE supported == QueryCapabilities(understood)
           up == IF supported /\ brings THEN machine.up \cup {HotspotAdapter} ELSE machine.up
           m == [machine EXCEPT !.up = up]
           info == GetCurrentNetworkInfo(UpAdapters(m))
<1>1. /\ machine' = m
      /\ win' = IF supported /\ brings
                THEN [win EXCEPT !.hotspotRunning = TRUE, !.hotspotStatus = "running", !.hostIp = IF info.hostIp # NoIp THEN info.hostIp ELSE @]
                ELSE [win EXCEPT !.hotspotRunning = FALSE,
                                 !.hotspotStatus = IF win.hotspotSupported THEN "start failed" ELSE "system settings required"]
      /\ Command(RefreshShareInfo) /\ wanted' = NoIp /\ UNCHANGED <<slots, found, look, files, opened, page>>
  BY DEF StartHotspot, AfterHotspot, Forget
<1>2. machine \in Machines /\ win \in Windows /\ slots \in [1..4 -> Ips]
  BY DEF ReportInv, Typed
<1>3. up \in SUBSET DOMAIN Adapters
  BY <1>2, NetworkAssumption DEF Machines
<1> HIDE DEF supported, up
<1>4. m \in Machines /\ m.up = up
  BY <1>2, <1>3 DEF Machines
<1>5. info.hostIp # NoIp => info.hostIp \in Ips
  <2>1. AdapterList(UpAdapters(m))
    <3> HIDE DEF m
    <3> QED BY <1>3, <1>4, AdaptersThatAreUp
  <2> HIDE DEF m
  <2> QED BY <2>1, FoundAddress
<1> HIDE DEF m, info
<1>6. win' \in Windows
  BY <1>1, <1>2, <1>5 DEF Windows
<1>7. NoIp \in Ips /\ "begin" \in Opening
  BY DEF Ips, Opening
<1> QED BY <1>1, <1>2, <1>4, <1>6, <1>7, ShareInfoPiece, CommandBegins

\* Every command of the admin page.
LEMMA UserStep == ReportInv /\ UserCommand => ReportInv'
<1> SUFFICES ASSUME ReportInv, UserCommand PROVE ReportInv'
  OBVIOUS
<1>0. /\ machine \in Machines /\ win \in Windows /\ slots \in [1..4 -> Ips] /\ wanted \in Ips
      /\ NoIp \in Ips /\ "begin" \in Opening /\ "info" \in Opening
  BY DEF ReportInv, Typed, Ips, Opening
<1>1. CASE RefreshNetwork
  BY <1>0, <1>1, HostRuntimePiece, CommandBegins DEF RefreshNetwork, Forget
<1>2. CASE StartServer
  <2> DEFINE handler == (IF win.hostIp = NoIp THEN RefreshHostRuntime ELSE <<>>) \o <<"start">> \o RefreshShareInfo
  <2>1. PICK first \in Opening : Piece(handler, first, "publish")
    BY StartPiece
  <2>2. Command(handler) /\ UNCHANGED <<machine, win, slots, found, look, files, opened, page, wanted>>
    BY <1>2 DEF StartServer
  <2> HIDE DEF handler
  <2> QED BY <1>0, <2>1, <2>2, CommandBegins
<1>3. CASE StopServer
  <2>1. machine' = [machine EXCEPT !.server = "stopped"] /\ Command(RefreshShareInfo)
        /\ UNCHANGED <<win, slots, found, look, files, opened, page, wanted>>
    BY <1>3 DEF StopServer
  <2>2. machine' \in Machines
    BY <1>0, <2>1 DEF Machines, Servers
  <2> QED BY <1>0, <2>1, <2>2, ShareInfoPiece, CommandBegins
<1>4. ASSUME NEW i \in 1..4, SelectNetworkCandidate(i) PROVE ReportInv'
  BY <1>4, SelectStep
<1>5. ASSUME NEW kind \in PageKinds, ExecuteHostAction(kind) PROVE ReportInv'
  <2> DEFINE handler == Diagnosis \o <<"write", Pages[kind]>> \o (IF kind = "wizard" THEN RefreshShareInfo ELSE PublishAdmin)
  <2>1. Piece(handler, "begin", "publish")
    BY HostActionPiece
  <2>2. Command(handler) /\ UNCHANGED <<machine, win, slots, found, look, files, opened, page, wanted>>
    BY <1>5 DEF ExecuteHostAction
  <2> HIDE DEF handler
  <2> QED BY <1>0, <2>1, <2>2, CommandBegins
<1>6. ASSUME NEW understood \in BOOLEAN, NEW brings \in BOOLEAN, StartHotspot(understood, brings)
      PROVE  ReportInv'
  BY <1>6, StartHotspotStep
<1>7. ASSUME NEW answered \in BOOLEAN, StopHotspot(answered) PROVE ReportInv'
  <2>1. /\ machine' = IF answered THEN [machine EXCEPT !.up = @ \ {HotspotAdapter}] ELSE machine
        /\ win' = IF answered THEN [win EXCEPT !.hotspotRunning = FALSE, !.hotspotStatus = "stopped"] ELSE win
        /\ Command(RefreshShareInfo) /\ UNCHANGED <<slots, found, look, files, opened, page, wanted>>
    BY <1>7 DEF StopHotspot
  <2>2. machine' \in Machines
    BY <1>0, <2>1 DEF Machines
  <2>3. win' \in Windows
    BY <1>0, <2>1 DEF Windows
  <2> QED BY <1>0, <2>1, <2>2, <2>3, ShareInfoPiece, CommandBegins
<1>8. ASSUME NEW bind \in Binds, ApplyAdminShellSessionRequest(bind) PROVE ReportInv'
  <2>1. /\ win' = [win EXCEPT !.bind = bind] /\ Command(RefreshShareInfo)
        /\ UNCHANGED <<machine, slots, found, look, files, opened, page, wanted>>
    BY <1>8 DEF ApplyAdminShellSessionRequest
  <2>2. win' \in Windows
    BY <1>0, <2>1 DEF Windows
  <2> QED BY <1>0, <2>1, <2>2, ShareInfoPiece, CommandBegins
<1> QED BY <1>1, <1>2, <1>3, <1>4, <1>5, <1>6, <1>7, <1>8 DEF UserCommand

\* The clock has the page published.
LEMMA TickStep == ReportInv /\ HandleRuntimeTick => ReportInv'
<1> SUFFICES ASSUME ReportInv, HandleRuntimeTick PROVE ReportInv'
  OBVIOUS
<1>1. todo' = PublishAdmin /\ UNCHANGED <<machine, win, slots, found, look, files, opened, page, spent, wanted>>
  BY DEF HandleRuntimeTick, PublishOnTick
<1>2. Steady' /\ BundleTyped' /\ Paged'
  BY <1>1, ReportParts DEF Steady, Typed, BundleTyped, Paged
<1> QED BY <1>1, <1>2, PublishPiece, HandlerBegins DEF Opening

\* The open page shows what the files say.
LEMMA OpenPageStep == ReportInv /\ (PagePolls \/ FollowLink) => ReportInv'
<1> SUFFICES ASSUME ReportInv, PagePolls \/ FollowLink PROVE ReportInv'
  OBVIOUS
<1>1. UNCHANGED <<machine, win, slots, todo, found, look, files, page, wanted>> /\ (Spend \/ UNCHANGED spent)
  BY DEF PagePolls, FollowLink
<1>2. opened' \in [kind : PageKinds, shown : Bundles, qr : Links]
  <2>1. CASE PagePolls
    BY <2>1, PollTyped DEF PagePolls, ReportInv
  <2>2. CASE FollowLink
    <3>1. PICK kind \in {"card", "wizard"} : opened' = LoadPage(kind, files)
      BY <2>2 DEF FollowLink
    <3>2. kind \in PageKinds
      BY DEF PageKinds
    <3> QED BY <3>1, <3>2, LoadTyped DEF ReportInv
  <2> QED BY <2>1, <2>2
<1>3. BundleTyped'
  BY <1>1, <1>2 DEF ReportInv, BundleTyped
<1>4. spent' \in [moves : 0..MaxMoves, commands : 0..MaxCommands]
  BY <1>1, BoundsKept DEF ReportInv
<1>5. Steady' /\ Paged' /\ Ordered(todo') /\ FoundTyped'
  BY <1>1, <1>4, ReportParts DEF Steady, Typed, Paged, FoundTyped
<1>6. LookTells'
  <2>1. (BegunTrue(look)' <=> BegunTrue(look)) /\ (ProbesTrue(look)' <=> ProbesTrue(look))
    BY <1>1 DEF BegunTrue, ProbesTrue
  <2> QED BY <1>1, <2>1 DEF ReportInv, LookTells
<1> QED BY <1>3, <1>5, <1>6 DEF ReportInv, Steady, Paged

\* The invariant is inductive.
LEMMA ReportStep == ReportInv /\ [Next]_vars => ReportInv'
<1> SUFFICES ASSUME ReportInv, [Next]_vars PROVE ReportInv'
  OBVIOUS
<1>1. CASE UiStep
  BY <1>1, InfoStep, CapabilitiesStep, HotspotStep, DiagnosisStep, WriteStep,
     OpenStep, CandidatesStep, PublishStep DEF UiStep
<1>2. CASE LaunchServer
  BY <1>2, LaunchStep
<1>3. CASE UserCommand
  BY <1>3, UserStep
<1>4. CASE HandleRuntimeTick
  BY <1>4, TickStep
<1>5. CASE PagePolls \/ FollowLink
  BY <1>5, OpenPageStep
<1>6. CASE AdapterChanges \/ ServerMoves \/ FirewallChanges
  BY <1>6, MachineMoves
<1>7. CASE UNCHANGED vars
  <2>1. (BegunTrue(look)' <=> BegunTrue(look)) /\ (ProbesTrue(look)' <=> ProbesTrue(look))
    BY <1>7 DEF vars, BegunTrue, ProbesTrue
  <2> QED BY <1>7, <2>1 DEF vars, ReportInv, Typed, FoundTyped, LookTells, BundleTyped
<1> QED BY <1>1, <1>2, <1>3, <1>4, <1>5, <1>6, <1>7 DEF Next

\* It has the types in it,
LEMMA TypesFollow == ReportInv => NetworkTypeOK
<1> SUFFICES ASSUME ReportInv PROVE NetworkTypeOK
  OBVIOUS
<1>1. Range(todo) \subseteq Steps
  <2>1. todo \in Seq(Steps)
    BY DEF ReportInv, Ordered
  <2> QED BY <2>1 DEF Range
<1>2. opened.kind \in PageKinds \cup {"none"} /\ {opened.qr, opened.shown.link} \subseteq Ips \cup {Loopback}
  <2>1. CASE opened = Closed
    <3>1. Closed.kind = "none" /\ Closed.qr = NoIp /\ Closed.shown.link = NoIp
      BY DEF Closed, NotWritten
    <3> QED BY <2>1, <3>1, NothingWritten DEF Links
  <2>2. CASE opened \in [kind : PageKinds, shown : Bundles, qr : Links]
    BY <2>2 DEF Bundles, Links
  <2> QED BY <2>1, <2>2 DEF ReportInv, BundleTyped
<1>3. look # Nothing => Health(look) \in Healths
  <2> SUFFICES ASSUME look \in Diagnoses PROVE Health(look) \in Healths
    BY DEF ReportInv, LookTells
  <2>1. Len(look.candidates) \in Nat
    BY DEF Diagnoses
  <2> DEFINE recommended == win.hostIp # NoIp /\ look.candidates # <<>> => Head(look.candidates).ip = win.hostIp
  <2>2. recommended \in BOOLEAN
    OBVIOUS
  <2>3. Health(look) =
          [running |-> look.running, portReady |-> look.portReady, localHealth |-> look.localHealth, lanBind |-> look.lanBind,
           reachable |-> look.reachable, active |-> Len(look.candidates), firewall |-> look.firewall, embedded |-> TRUE,
           recommended |-> recommended]
    BY DEF Health
  <2>4. {look.running, look.portReady, look.localHealth, look.lanBind, look.reachable, look.firewall} \subseteq BOOLEAN
    BY DEF Diagnoses
  <2> HIDE DEF recommended
  <2> QED BY <2>1, <2>2, <2>3, <2>4 DEF Healths
<1> QED BY <1>1, <1>2, <1>3 DEF ReportInv, Typed, Machines, Windows, NetworkTypeOK

\* A report says what is so of the machine, for any adapters, bind addresses,
\* firewalls and bounds and any order of the window's steps with the machine's
\* changes. If the machine stood still since the probes, though it may have
\* changed between the list of addresses and the probes: the viewers' path is
\* called ready only if the server that runs answers at the window's address and
\* the firewall lets a viewer through, the handoff is ready only if that address
\* answers, and an address that is suggested answers while the selected one does
\* not. If it stood still since the look began: the report does call the path
\* ready, but for a loopback bind in the window's field, a server with an address
\* of its own, and another address that is first of several; and the overall
\* state is Ready only with a server that answers on the machine and an address
\* (CollectRuntimeDiagnostics, MainWindow.cpp; remote_probe_orchestrator.cpp,
\* network_diagnostics_policy.cpp, runtime_controller.cpp).
THEOREM ReportAlwaysTrue == Spec => []ReportIsTrue
<1>1. ReportInv => ReportIsTrue
  <2> SUFFICES ASSUME ReportInv PROVE ReportIsTrue
    OBVIOUS
  <2>1. Typed /\ NetworkTypeOK
    BY TypesFollow DEF ReportInv
  <2> SUFFICES ASSUME todo # <<>>, Head(todo) \in {"write", "candidates", "publish"}, look.fresh
               PROVE  LET plan  == BuildRemoteProbePlan(look.probes)
                          ready == RemoteViewerReady(Session, Health(look))
                      IN  /\ ready => ViewerGetsIn
                          /\ BuildHandoffSummary(Session, Health(look)) = "ready-for-handoff" => Answers(machine, win.hostIp)
                          /\ plan.suggested # NoIp => Answers(machine, plan.suggested) /\ ~Answers(machine, win.hostIp)
                          /\ look.calm /\ ViewerGetsIn => ready \/ Overlooked
                          /\ look.calm /\ ComputeDashboardOverallState(Session, Health(look)) = "Ready" =>
                               AnswersLocally(machine) /\ win.hostIp # NoIp
    BY <2>1 DEF ReportIsTrue
  <2>2. look \in Diagnoses /\ ProbesTrue(look) /\ (look.calm => BegunTrue(look))
    BY DEF ReportInv, LookTells
  <2>3. RemoteViewerReady(Session, Health(look)) => ViewerGetsIn
    BY <2>2, ReadyIsTrue
  <2>4. BuildHandoffSummary(Session, Health(look)) = "ready-for-handoff" => Answers(machine, win.hostIp)
    BY <2>2, HandoffIsTrue
  <2>5. BuildRemoteProbePlan(look.probes).suggested # NoIp =>
          Answers(machine, BuildRemoteProbePlan(look.probes).suggested) /\ ~Answers(machine, win.hostIp)
    BY <2>1, <2>2, SuggestionIsTrue
  <2>6. look.calm /\ ViewerGetsIn => RemoteViewerReady(Session, Health(look)) \/ Overlooked
    BY <2>1, <2>2, InIsReady
  <2>7. look.calm /\ ComputeDashboardOverallState(Session, Health(look)) = "Ready" =>
          AnswersLocally(machine) /\ win.hostIp # NoIp
    BY <2>2, OverallIsTrue
  <2> QED BY <2>3, <2>4, <2>5, <2>6, <2>7
<1> QED BY <1>1, ReportInit, ReportStep, PTL DEF Spec
=============================================================================
