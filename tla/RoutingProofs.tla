--------------------------- MODULE RoutingProofs ---------------------------
(* What holds of the selection of endpoints for every set of requests,     *)
(* endpoints and models and every set of valid configurations.             *)
EXTENDS Routing, TrackerProofs, FiniteSetTheorems, SequenceTheorems

-----------------------------------------------------------------------------
(* Numbers *)

LEMMA LeastNatural ==
    ASSUME NEW T, T \subseteq Nat, T # {}
    PROVE  \E m \in T : \A n \in T : m <= n
<1> DEFINE R == {ss \in Nat \X Nat : ss[1] < ss[2]}
<1>1. IsWellFoundedOn(R, Nat)
    BY NatLessThanWellFounded DEF OpToRel
<1> HIDE DEF R
<1>2. PICK m \in T : \A n \in T : ~(<<n, m>> \in R)
    BY <1>1, WFMin
<1>3. ASSUME NEW n \in T PROVE m <= n
    <2>1. ~(n < m)
        BY <1>2 DEF R
    <2> QED
        BY <2>1
<1> QED
    BY <1>3

(* A place in a table of rows of length n names one row and one column.    *)
LEMMA PlaceUnique ==
    ASSUME NEW n \in Nat, NEW a \in Nat, NEW b \in Nat,
           NEW i \in 1..n, NEW j \in 1..n, a * n + i = b * n + j
    PROVE  a = b /\ i = j
<1>1. ASSUME NEW c \in Nat, NEW d \in Nat, NEW k \in 1..n, NEW l \in 1..n,
             c < d, c * n + k = d * n + l
      PROVE  FALSE
    <2>1. (c + 1) * n <= d * n
        BY <1>1, Scaling
    <2>2. (c + 1) * n = c * n + n
        BY SMT
    <2>3. c * n \in Int /\ d * n \in Int
        BY SMT
    <2> QED
        BY <1>1, <2>1, <2>2, <2>3
<1>2. a = b
    BY <1>1
<1>3. a * n \in Int
    BY SMT
<1> QED
    BY <1>2, <1>3

LEMMA PlaceInTable ==
    ASSUME NEW n \in Nat, NEW a \in Nat \ {0}, NEW i \in 1..n
    PROVE  (a - 1) * n + i \in Nat \ {0}
<1>1. (a - 1) * n \in Nat
    BY SMT
<1> QED
    BY <1>1

-----------------------------------------------------------------------------
(* Sequences *)

(* What a reordering of a sequence keeps. *)
LEMMA ShuffleKeeps ==
    ASSUME NEW S, NEW s \in Seq(S), NEW t \in Shuffles(s)
    PROVE  /\ t \in Seq(S)
           /\ Len(t) = Len(s)
           /\ ToSet(t) = ToSet(s)
           /\ IsInjective(s) => IsInjective(t)
<1> DEFINE n == Len(s)
<1>1. n \in Nat /\ DOMAIN s = 1..n
    OBVIOUS
<1>2. PICK f \in Bijection(1..n, 1..n) : t = [i \in 1..n |-> s[f[i]]]
    BY DEF Shuffles
<1>3. /\ f \in [1..n -> 1..n]
      /\ \A i, j \in 1..n : f[i] = f[j] => i = j
      /\ \A j \in 1..n : \E i \in 1..n : f[i] = j
    BY DEF Bijection, Injection, Surjection, IsInjective
<1>4. t \in [1..n -> S]
    BY <1>2, <1>3
<1>5. t \in Seq(S) /\ Len(t) = n /\ DOMAIN t = 1..n
    BY <1>1, <1>4
<1>6. \A i \in 1..n : t[i] = s[f[i]] /\ f[i] \in 1..n
    BY <1>2, <1>3
<1>7. ToSet(t) = ToSet(s)
    <2>1. \A i \in DOMAIN t : \E j \in DOMAIN s : t[i] = s[j]
        BY <1>1, <1>5, <1>6
    <2>2. \A j \in DOMAIN s : \E i \in DOMAIN t : s[j] = t[i]
        BY <1>1, <1>3, <1>5, <1>6
    <2> QED
        BY <2>1, <2>2 DEF ToSet
<1>8. ASSUME IsInjective(s) PROVE IsInjective(t)
    <2>1. \A i, j \in 1..n : s[i] = s[j] => i = j
        BY <1>1, <1>8 DEF IsInjective
    <2>2. ASSUME NEW i \in 1..n, NEW j \in 1..n, t[i] = t[j] PROVE i = j
        <3>1. f[i] = f[j]
            BY <1>6, <2>1, <2>2
        <3> QED
            BY <1>3, <3>1
    <2> QED
        BY <1>5, <2>2 DEF IsInjective
<1> QED
    BY <1>5, <1>7, <1>8

(* Every scheduler reorders the rank it takes.                             *)
LEMMA SameIsShuffle ==
    ASSUME NEW S, NEW s \in Seq(S)
    PROVE  s \in Shuffles(s)
<1> DEFINE n == Len(s)
           id == [i \in 1..n |-> i]
<1>1. id \in Bijection(1..n, 1..n)
    BY DEF Bijection, Injection, Surjection, IsInjective
<1>2. s = [i \in 1..n |-> s[id[i]]]
    OBVIOUS
<1> HIDE DEF id
<1> QED
    BY <1>1, <1>2 DEF Shuffles

LEMMA RotationInjective ==
    ASSUME NEW n \in Nat \ {0}, NEW k \in Nat, NEW i \in 1..n, NEW j \in 1..n,
           (i - 1 + k) % n = (j - 1 + k) % n
    PROVE  i = j
<1> DEFINE a == i - 1 + k
           b == j - 1 + k
           c == a \div n
           d == b \div n
<1>1. a \in Nat /\ b \in Nat
    OBVIOUS
<1>2. \A x \in Nat : x \div n \in Nat /\ x = (x \div n) * n + (x % n) /\ x % n \in 0..(n-1)
    BY SMT
<1>3. /\ c \in Nat /\ d \in Nat
      /\ a = c * n + (a % n) /\ b = d * n + (b % n)
      /\ a % n \in 0..(n-1) /\ b % n \in 0..(n-1)
    BY <1>1, <1>2
<1>4. a % n = b % n
    OBVIOUS
<1> HIDE DEF c, d
<1>5. ASSUME c < d PROVE FALSE
    <2>1. (c + 1) * n <= d * n /\ (c + 1) * n = c * n + n
        BY <1>3, <1>5, Scaling
    <2> QED
        BY <1>3, <1>4, <2>1
<1>6. ASSUME d < c PROVE FALSE
    <2>1. (d + 1) * n <= c * n /\ (d + 1) * n = d * n + n
        BY <1>3, <1>6, Scaling
    <2> QED
        BY <1>3, <1>4, <2>1
<1>7. c = d
    BY <1>3, <1>5, <1>6
<1>8. a = b
    BY <1>3, <1>4, <1>7
<1> QED
    BY <1>8

LEMMA RotatedIsShuffle ==
    ASSUME NEW S, NEW s \in Seq(S), s # <<>>, NEW k \in Nat
    PROVE  Rotated(s, k) \in Shuffles(s)
<1> DEFINE n == Len(s)
           place(i) == (i - 1 + k) % n
           f == [i \in 1..n |-> place(i) + 1]
<1>1. n \in Nat \ {0}
    OBVIOUS
<1>2. \A i \in 1..n : place(i) \in 0..(n - 1)
    <2>1. \A x \in Nat : x % n \in 0..(n - 1)
        BY <1>1, SMT
    <2>2. \A i \in 1..n : i - 1 + k \in Nat
        BY <1>1
    <2> QED
        BY <2>1, <2>2
<1>3. f \in [1..n -> 1..n]
    <2> HIDE DEF place
    <2> QED
        BY <1>1, <1>2
<1>4. f \in Injection(1..n, 1..n)
    <2>1. ASSUME NEW i \in 1..n, NEW j \in 1..n, f[i] = f[j] PROVE i = j
        <3>1. place(i) = place(j)
            <4> HIDE DEF place
            <4> QED
                BY <1>1, <1>2, <2>1
        <3> QED
            BY <1>1, <3>1, RotationInjective
    <2> HIDE DEF f
    <2> QED
        BY <1>3, <2>1 DEF Injection, IsInjective
<1>5. f \in Surjection(1..n, 1..n)
    <2> HIDE DEF f
    <2>1. IsFiniteSet(1..n)
        BY <1>1, FS_Interval
    <2> QED
        BY <1>4, <2>1, FS_Injection
<1>6. Rotated(s, k) = [i \in 1..n |-> s[f[i]]]
    BY DEF Rotated
<1> HIDE DEF f
<1> QED
    BY <1>4, <1>5, <1>6 DEF Shuffles, Bijection

LEMMA ConcatKeeps ==
    ASSUME NEW S, NEW s \in Seq(S), NEW t \in Seq(S)
    PROVE  /\ s \o t \in Seq(S)
           /\ Len(s \o t) = Len(s) + Len(t)
           /\ \A i \in DOMAIN (s \o t) :
                (s \o t)[i] = IF i <= Len(s) THEN s[i] ELSE t[i - Len(s)]
           /\ DOMAIN (s \o t) = 1..(Len(s) + Len(t))
           /\ DOMAIN s = 1..Len(s) /\ DOMAIN t = 1..Len(t)
           /\ ToSet(s \o t) = ToSet(s) \cup ToSet(t)
           /\ /\ IsInjective(s) /\ IsInjective(t)
              /\ ToSet(s) \cap ToSet(t) = {}
              => IsInjective(s \o t)
<1> DEFINE u == s \o t
           m == Len(s)
           n == Len(t)
<1>1. /\ u \in Seq(S) /\ Len(u) = m + n /\ DOMAIN u = 1..(m + n)
      /\ m \in Nat /\ n \in Nat /\ DOMAIN s = 1..m /\ DOMAIN t = 1..n
    OBVIOUS
<1>2. /\ \A i \in 1..m : u[i] = s[i]
      /\ \A i \in 1..n : u[m + i] = t[i]
      /\ \A i \in 1..(m + n) : u[i] = IF i <= m THEN s[i] ELSE t[i - m]
    BY <1>1, ConcatProperties
<1> HIDE DEF u, m, n
<1>3. ToSet(u) = ToSet(s) \cup ToSet(t)
    <2>1. ASSUME NEW i \in 1..(m + n)
          PROVE  u[i] \in ToSet(s) \cup ToSet(t)
        <3>1. CASE i <= m
            BY <1>1, <1>2, <3>1 DEF ToSet
        <3>2. CASE ~(i <= m)
            <4>1. i - m \in 1..n
                BY <1>1, <3>2
            <4> QED
                BY <1>1, <1>2, <3>2, <4>1 DEF ToSet
        <3> QED
            BY <3>1, <3>2
    <2>2. \A i \in 1..m : i \in DOMAIN u /\ s[i] = u[i]
        BY <1>1, <1>2
    <2>3. \A i \in 1..n : m + i \in DOMAIN u /\ t[i] = u[m + i]
        BY <1>1, <1>2
    <2>4. ToSet(u) \subseteq ToSet(s) \cup ToSet(t)
        BY <1>1, <2>1 DEF ToSet
    <2>5. ToSet(s) \subseteq ToSet(u)
        BY <1>1, <2>2 DEF ToSet
    <2>6. ToSet(t) \subseteq ToSet(u)
        BY <1>1, <2>3 DEF ToSet
    <2> QED
        BY <2>4, <2>5, <2>6
<1>4. ASSUME IsInjective(s), IsInjective(t), ToSet(s) \cap ToSet(t) = {}
      PROVE  IsInjective(u)
    <2>1. \A i \in 1..m : u[i] \in ToSet(s)
        BY <1>1, <1>2 DEF ToSet
    <2>2. \A i \in (1..(m + n)) \ 1..m : i - m \in 1..n /\ u[i] = t[i - m]
        BY <1>1, <1>2
    <2>3. \A i \in (1..(m + n)) \ 1..m : u[i] \in ToSet(t)
        BY <1>1, <2>2 DEF ToSet
    <2>4. ASSUME NEW i \in 1..(m + n), NEW j \in 1..(m + n), u[i] = u[j]
          PROVE  i = j
        <3>1. CASE i \in 1..m /\ j \in 1..m
            <4>1. s[i] = s[j]
                BY <1>2, <2>4, <3>1
            <4> QED
                BY <1>1, <1>4, <3>1, <4>1 DEF IsInjective
        <3>2. CASE i \notin 1..m /\ j \notin 1..m
            <4>1. t[i - m] = t[j - m] /\ i - m \in 1..n /\ j - m \in 1..n
                BY <2>2, <2>4, <3>2
            <4>2. i - m = j - m
                BY <1>1, <1>4, <4>1 DEF IsInjective
            <4> QED
                BY <1>1, <4>2
        <3>3. ~(i \in 1..m /\ j \notin 1..m) /\ ~(i \notin 1..m /\ j \in 1..m)
            BY <1>4, <2>1, <2>3, <2>4
        <3> QED
            BY <3>1, <3>2, <3>3
    <2> QED
        BY <1>1, <2>4 DEF IsInjective
<1> QED
    BY <1>1, <1>2, <1>3, <1>4 DEF u, m, n

LEMMA AppendKeeps ==
    ASSUME NEW S, NEW s \in Seq(S), NEW x \in S
    PROVE  /\ Append(s, x) \in Seq(S)
           /\ DOMAIN Append(s, x) = 1..(Len(s) + 1)
           /\ \A i \in DOMAIN Append(s, x) :
                \/ i \in DOMAIN s /\ Append(s, x)[i] = s[i]
                \/ i = Len(s) + 1 /\ Append(s, x)[i] = x
           /\ ToSet(Append(s, x)) = ToSet(s) \cup {x}
           /\ IsInjective(s) /\ x \notin ToSet(s) => IsInjective(Append(s, x))
<1> DEFINE t == Append(s, x)
           n == Len(s)
<1>1. /\ t \in Seq(S) /\ Len(t) = n + 1 /\ DOMAIN t = 1..(n + 1)
      /\ n \in Nat /\ DOMAIN s = 1..n
      /\ \A i \in 1..n : t[i] = s[i]
      /\ t[n + 1] = x
    OBVIOUS
<1> HIDE DEF t, n
<1>2. \A i \in 1..(n + 1) : i \in 1..n \/ i = n + 1
    BY <1>1
<1>3. ToSet(t) = ToSet(s) \cup {x}
    <2>1. \A i \in 1..(n + 1) : t[i] \in ToSet(s) \cup {x}
        BY <1>1, <1>2 DEF ToSet
    <2>2. n + 1 \in 1..(n + 1) /\ \A i \in 1..n : i \in 1..(n + 1)
        BY <1>1
    <2> QED
        BY <1>1, <2>1, <2>2 DEF ToSet
<1>4. ASSUME IsInjective(s), x \notin ToSet(s) PROVE IsInjective(t)
    <2>1. \A i \in 1..n : t[i] # x
        BY <1>1, <1>4 DEF ToSet
    <2>2. ASSUME NEW i \in 1..(n + 1), NEW j \in 1..(n + 1), t[i] = t[j]
          PROVE  i = j
        BY <1>1, <1>2, <1>4, <2>1, <2>2 DEF IsInjective
    <2> QED
        BY <1>1, <2>2 DEF IsInjective
<1> QED
    BY <1>1, <1>2, <1>3, <1>4 DEF t, n

-----------------------------------------------------------------------------
(* The pure parts of the selection *)

(* The first match is chosen among some, and the default has models only.  *)
LEMMA ResolveModelType ==
    ASSUME NEW c \in Configs, NEW m
    PROVE  ResolveModel(c, m) \in Seq(Models)
<1>1. ValidConfig(c)
    BY ConfigsAssumption
<1>2. CASE MatchingRoutes(c, m) = {}
    BY <1>1, <1>2 DEF ResolveModel, ValidConfig
<1>3. CASE MatchingRoutes(c, m) # {}
    <2> DEFINE first == CHOOSE i \in MatchingRoutes(c, m) :
                            \A j \in MatchingRoutes(c, m) : i <= j
    <2>1. MatchingRoutes(c, m) \subseteq DOMAIN c.routes /\ DOMAIN c.routes \subseteq Nat
        BY <1>1 DEF MatchingRoutes, ValidConfig
    <2>2. first \in MatchingRoutes(c, m)
        BY <1>3, <2>1, LeastNatural
    <2>3. c.routes[first] \in Route
        BY <1>1, <2>1, <2>2 DEF ValidConfig
    <2> QED
        BY <1>3, <2>3 DEF ResolveModel, Route
<1> QED
    BY <1>2, <1>3

(* The pairs of a configuration are told apart by their places.            *)
DistinctPlaces(S) == \A p, o \in S : p.pos = o.pos => p = o

LEMMA EndpointsForModelType ==
    ASSUME NEW c \in Configs, NEW ts \in Seq(Models), NEW peak \in BOOLEAN
    PROVE  /\ EndpointsForModel(c, ts, peak) \subseteq Pair
           /\ DistinctPlaces(EndpointsForModel(c, ts, peak))
           /\ \A p \in EndpointsForModel(c, ts, peak) : p.rank \in Ranks
<1> DEFINE n == Len(c.endpoints)
           PairAt(ti) == [endpoint |-> c.endpoints[ti[2]].name,
                          provider |-> c.endpoints[ti[2]].provider,
                          model    |-> ts[ti[1]],
                          rank     |-> EffectiveRank(c.endpoints[ti[2]], peak),
                          pos      |-> (ti[1] - 1) * n + ti[2]]
<1>1. c.endpoints \in Seq(Endpoint)
    BY ConfigsAssumption DEF ValidConfig
<1>2. n \in Nat /\ DOMAIN c.endpoints = 1..n /\ DOMAIN ts = 1..Len(ts) /\ Len(ts) \in Nat
    BY <1>1
<1>3. ASSUME NEW a \in 1..Len(ts), NEW i \in 1..n
      PROVE  PairAt(<<a, i>>) \in Pair /\ PairAt(<<a, i>>).rank \in Ranks
    <2>1. c.endpoints[i] \in Endpoint /\ ts[a] \in Models
        BY <1>1, <1>2
    <2>2. EffectiveRank(c.endpoints[i], peak) \in Nat \ {0}
        BY <2>1 DEF EffectiveRank, Endpoint
    <2>3. EffectiveRank(c.endpoints[i], peak) \in Ranks
        <3>1. {c.endpoints[i].rank, c.endpoints[i].altRank} \subseteq Ranks
            BY <1>2 DEF Ranks
        <3> QED
            BY <3>1 DEF EffectiveRank
    <2>4. (a - 1) * n + i \in Nat \ {0}
        <3>1. a \in Nat \ {0}
            BY <1>2
        <3> QED
            BY <1>2, <3>1, PlaceInTable
    <2> QED
        BY <2>1, <2>2, <2>3, <2>4 DEF Pair, Endpoint
<1>4. ASSUME NEW a \in 1..Len(ts), NEW i \in 1..n, NEW b \in 1..Len(ts), NEW j \in 1..n,
             PairAt(<<a, i>>).pos = PairAt(<<b, j>>).pos
      PROVE  a = b /\ i = j
    <2>1. (a - 1) * n + i = (b - 1) * n + j
        BY <1>4
    <2>2. PICK x \in Nat, y \in Nat : x = a - 1 /\ y = b - 1
        BY <1>2
    <2>3. x * n + i = y * n + j
        BY <2>1, <2>2
    <2>4. x = y /\ i = j
        <3>1. n \in Nat
            BY <1>2
        <3> HIDE DEF n
        <3> QED
            BY <2>3, <3>1, PlaceUnique
    <2> QED
        BY <1>2, <2>2, <2>4
<1>5. EndpointsForModel(c, ts, peak) = {PairAt(ti) : ti \in Serves(c, ts)}
    BY DEF EndpointsForModel
<1>6. \A ti \in Serves(c, ts) :
        \E a \in 1..Len(ts), i \in 1..n : ti = <<a, i>>
    BY <1>2 DEF Serves
<1> HIDE DEF PairAt, n
<1>7. /\ EndpointsForModel(c, ts, peak) \subseteq Pair
      /\ \A p \in EndpointsForModel(c, ts, peak) : p.rank \in Ranks
    BY <1>3, <1>5, <1>6
<1>8. DistinctPlaces(EndpointsForModel(c, ts, peak))
    <2> SUFFICES ASSUME NEW ti \in Serves(c, ts), NEW tj \in Serves(c, ts),
                        PairAt(ti).pos = PairAt(tj).pos
                 PROVE  PairAt(ti) = PairAt(tj)
        BY <1>5 DEF DistinctPlaces
    <2>1. PICK a \in 1..Len(ts), i \in 1..n : ti = <<a, i>>
        BY <1>6
    <2>2. PICK b \in 1..Len(ts), j \in 1..n : tj = <<b, j>>
        BY <1>6
    <2>3. a = b /\ i = j
        BY <1>4, <2>1, <2>2
    <2> QED
        BY <2>1, <2>2, <2>3
<1> QED
    BY <1>7, <1>8

(* The pair taken next is one of those left, and none has a smaller rank.  *)
LEMMA NextPairIsFirst ==
    ASSUME NEW S, S \subseteq Pair, S # {}, DistinctPlaces(S)
    PROVE  /\ NextPair(S) \in S /\ \A o \in S : NextPair(S).rank <= o.rank
           /\ \A o \in S \ {NextPair(S)} : Before(NextPair(S), o)
<1>1. \A p \in S : p.rank \in Nat /\ p.pos \in Nat
    BY DEF Pair
<1>2. PICK k \in {p.rank : p \in S} : \A l \in {p.rank : p \in S} : k <= l
    <2> DEFINE T == {p.rank : p \in S}
    <2>1. T \subseteq Nat /\ T # {}
        BY <1>1
    <2> HIDE DEF T
    <2>2. \E m \in T : \A l \in T : m <= l
        BY <2>1, LeastNatural
    <2> QED
        BY <2>2 DEF T
<1> DEFINE First == {p \in S : p.rank = k}
<1>3. PICK x \in {p.pos : p \in First} : \A y \in {p.pos : p \in First} : x <= y
    <2> DEFINE T == {p.pos : p \in First}
    <2>1. T \subseteq Nat /\ T # {}
        BY <1>1
    <2> HIDE DEF T
    <2>2. \E m \in T : \A l \in T : m <= l
        BY <2>1, LeastNatural
    <2> QED
        BY <2>2 DEF T
<1>4. PICK f \in First : f.pos = x
    OBVIOUS
<1>5. ASSUME NEW o \in S \ {f} PROVE Before(f, o)
    <2>1. f.rank = k /\ k <= o.rank /\ f.pos # o.pos
        BY <1>2, <1>4 DEF DistinctPlaces
    <2>2. CASE o.rank = k
        <3>1. f.pos <= o.pos
            BY <1>3, <1>4, <2>2
        <3> QED
            BY <1>1, <2>1, <2>2, <3>1 DEF Before
    <2>3. CASE o.rank # k
        BY <1>1, <2>1, <2>3 DEF Before
    <2> QED
        BY <2>2, <2>3
<1>6. \E p \in S : \A o \in S \ {p} : Before(p, o)
    BY <1>4, <1>5
<1>7. NextPair(S) \in S /\ \A o \in S \ {NextPair(S)} : Before(NextPair(S), o)
    BY <1>6 DEF NextPair
<1> QED
    BY <1>1, <1>7 DEF Before

-----------------------------------------------------------------------------
(* The invariant of one selection, over the pairs T still to be looked at, *)
(* the rank g being filtered and the pairs s chosen before it.             *)

InOrder(T, g, s) ==
    /\ \A i, j \in DOMAIN s : i < j => s[i].rank <= s[j].rank
    /\ \A i \in DOMAIN s, j \in DOMAIN g : s[i].rank <= g[j].rank
    /\ \A i, j \in DOMAIN g : g[i].rank = g[j].rank
    /\ \A p \in T, i \in DOMAIN s : s[i].rank <= p.rank
    /\ \A p \in T, i \in DOMAIN g : g[i].rank <= p.rank

Once(T, g, s) ==
    /\ IsInjective(s) /\ IsInjective(g)
    /\ ToSet(s) \cap ToSet(g) = {}
    /\ ToSet(s) \cap T = {} /\ ToSet(g) \cap T = {}

Ranked(T, g) == \A p \in T \cup ToSet(g) : p.rank \in Ranks

LEMMA RanksAreNatural ==
    ASSUME NEW s \in Seq(Pair), NEW i \in DOMAIN s
    PROVE  s[i].rank \in Nat
<1>1. s[i] \in Pair
    OBVIOUS
<1> QED
    BY <1>1 DEF Pair

(* One look at a cooldown: the pair joins the rank or is passed over.      *)
LEMMA FilterKeepsOrder ==
    ASSUME NEW T, T \subseteq Pair, NEW g \in Seq(Pair), NEW s \in Seq(Pair),
           DistinctPlaces(T), InOrder(T, g, s),
           \E p \in T : g = <<>> \/ p.rank = g[1].rank,
           NEW h \in {g, Append(g, NextPair(T))}
    PROVE  InOrder(T \ {NextPair(T)}, h, s)
<1> DEFINE n == NextPair(T)
<1>1. n \in T /\ \A o \in T : n.rank <= o.rank
    BY NextPairIsFirst
<1>2. \A p \in T : p.rank \in Nat
    BY DEF Pair
<1>3. DOMAIN g = 1..Len(g) /\ Len(g) \in Nat /\ \A i \in DOMAIN g : g[i].rank \in Nat
    BY RanksAreNatural
<1>4. CASE h = g
    BY <1>4 DEF InOrder
<1>5. CASE h = Append(g, n)
    <2>1. \A i \in DOMAIN g : g[i].rank = n.rank
        <3>1. CASE g = <<>>
            BY <3>1
        <3>2. CASE g # <<>>
            <4>1. PICK p \in T : p.rank = g[1].rank
                BY <3>2
            <4>2. 1 \in DOMAIN g
                BY <1>3, <3>2
            <4>3. n.rank = g[1].rank
                BY <1>1, <1>2, <1>3, <4>1, <4>2 DEF InOrder
            <4> QED
                BY <4>2, <4>3 DEF InOrder
        <3> QED
            BY <3>1, <3>2
    <2>2. \A i \in DOMAIN h : h[i] = n \/ \E j \in DOMAIN g : h[i] = g[j]
        BY <1>1, <1>5, AppendKeeps
    <2>3. \A i \in DOMAIN h : h[i].rank = n.rank
        BY <2>1, <2>2
    <2>4. \A i \in DOMAIN s : s[i].rank <= n.rank
        BY <1>1 DEF InOrder
    <2> HIDE DEF n
    <2> QED
        BY <1>1, <2>3, <2>4 DEF InOrder
<1> QED
    BY <1>4, <1>5

LEMMA FilterKeepsOnce ==
    ASSUME NEW T, NEW g \in Seq(Pair), NEW s \in Seq(Pair), Once(T, g, s),
           NEW p \in T, p \in Pair, NEW h \in {g, Append(g, p)}
    PROVE  Once(T \ {p}, h, s)
<1>1. CASE h = g
    BY <1>1 DEF Once
<1>2. CASE h = Append(g, p)
    <2>1. p \notin ToSet(g) /\ p \notin ToSet(s)
        BY DEF Once
    <2>2. ToSet(h) = ToSet(g) \cup {p} /\ IsInjective(h)
        BY <1>2, <2>1, AppendKeeps DEF Once
    <2> QED
        BY <2>1, <2>2 DEF Once
<1> QED
    BY <1>1, <1>2

(* The end of a rank: it is put, in some order, after the ranks before it. *)
LEMMA TakeKeepsOrder ==
    ASSUME NEW T, T \subseteq Pair, NEW g \in Seq(Pair), NEW s \in Seq(Pair),
           InOrder(T, g, s), NEW t \in Shuffles(g)
    PROVE  InOrder(T, <<>>, s \o t)
<1> DEFINE u == s \o t
<1>1. t \in Seq(Pair) /\ ToSet(t) = ToSet(g)
    BY ShuffleKeeps
<1>2. \A i \in DOMAIN t : \E j \in DOMAIN g : t[i] = g[j]
    BY <1>1 DEF ToSet
<1>3. /\ DOMAIN u = 1..(Len(s) + Len(t)) /\ Len(s) \in Nat /\ Len(t) \in Nat
      /\ DOMAIN s = 1..Len(s) /\ DOMAIN t = 1..Len(t)
      /\ \A i \in DOMAIN u : u[i] = IF i <= Len(s) THEN s[i] ELSE t[i - Len(s)]
    BY <1>1, ConcatKeeps
<1>4. \A i \in DOMAIN s : s[i].rank \in Nat
    BY RanksAreNatural
<1>5. \A i \in DOMAIN g : g[i].rank \in Nat
    BY RanksAreNatural
<1> HIDE DEF u
<1>6. ASSUME NEW i \in DOMAIN u
      PROVE  \/ i <= Len(s) /\ i \in DOMAIN s /\ u[i] = s[i]
             \/ i > Len(s) /\ \E k \in DOMAIN g : u[i] = g[k]
    <2>1. CASE i <= Len(s)
        BY <1>3, <2>1
    <2>2. CASE i > Len(s)
        <3>1. i - Len(s) \in DOMAIN t /\ u[i] = t[i - Len(s)]
            BY <1>3, <2>2
        <3> QED
            BY <1>2, <2>2, <3>1
    <2> QED
        BY <1>3, <2>1, <2>2
<1>7. ASSUME NEW i \in DOMAIN u, NEW j \in DOMAIN u, i < j
      PROVE  u[i].rank <= u[j].rank
    <2>1. CASE j <= Len(s)
        <3>1. i \in DOMAIN s /\ j \in DOMAIN s /\ u[i] = s[i] /\ u[j] = s[j]
            BY <1>3, <1>7, <2>1
        <3> QED
            BY <1>7, <3>1 DEF InOrder
    <2>2. CASE i <= Len(s) /\ j > Len(s)
        <3>1. i \in DOMAIN s /\ u[i] = s[i]
            BY <1>3, <2>2
        <3>2. PICK k \in DOMAIN g : u[j] = g[k]
            BY <1>3, <1>6, <2>2
        <3> QED
            BY <3>1, <3>2 DEF InOrder
    <2>3. CASE i > Len(s) /\ j > Len(s)
        <3>1. PICK k \in DOMAIN g, l \in DOMAIN g : u[i] = g[k] /\ u[j] = g[l]
            BY <1>3, <1>6, <2>3
        <3> QED
            BY <1>5, <3>1 DEF InOrder
    <2> QED
        BY <1>3, <1>7, <2>1, <2>2, <2>3
<1>8. ASSUME NEW p \in T, NEW i \in DOMAIN u PROVE u[i].rank <= p.rank
    BY <1>6 DEF InOrder
<1> QED
    BY <1>7, <1>8 DEF InOrder, u

LEMMA TakeKeepsOnce ==
    ASSUME NEW T, NEW g \in Seq(Pair), NEW s \in Seq(Pair),
           Once(T, g, s), NEW t \in Shuffles(g)
    PROVE  Once(T, <<>>, s \o t)
<1>1. t \in Seq(Pair) /\ ToSet(t) = ToSet(g) /\ IsInjective(t)
    BY ShuffleKeeps DEF Once
<1>2. ToSet(s \o t) = ToSet(s) \cup ToSet(g) /\ IsInjective(s \o t)
    BY <1>1, ConcatKeeps DEF Once
<1>3. ToSet(<<>>) = {} /\ IsInjective(<<>>)
    BY DEF ToSet, IsInjective
<1> QED
    BY <1>2, <1>3 DEF Once

-----------------------------------------------------------------------------
(* The selections of all requests.  Until a request has asked for its      *)
(* pairs it has none.  Stated apart from the labels of the whole program,  *)
(* so that the handler of module Proxy can use it.                         *)
SelectionTypeOK ==
    /\ cfg \in Configs
    /\ rr \in [Ranks -> Nat]
    /\ pc = [q \in Requests |-> pc[q]]
    /\ targets \in [Requests -> Seq(Models)]
    /\ todo \in [Requests -> SUBSET Pair]
    /\ scheduler \in [Requests -> {"sequential", "random"}]
    /\ group \in [Requests -> Seq(Pair)]
    /\ pairs \in [Requests -> Seq(Pair)]

BeforeSelection == {"idle", "body", "resolve", "select"}

SelectionDue(q) ==
    /\ pc[q] \in BeforeSelection => todo[q] = {} /\ group[q] = <<>> /\ pairs[q] = <<>>
    /\ DistinctPlaces(todo[q])
    /\ Ranked(todo[q], group[q])
    /\ InOrder(todo[q], group[q], pairs[q])
    /\ Once(todo[q], group[q], pairs[q])

SelectionInv == SelectionTypeOK /\ \A q \in Requests : SelectionDue(q)

LEMMA NothingChosen ==
    ASSUME NEW T, DistinctPlaces(T)
    PROVE  InOrder(T, <<>>, <<>>) /\ Once(T, <<>>, <<>>)
    BY DEF InOrder, Once, ToSet, IsInjective

(* A rank that is taken leaves its pairs in some order. *)
LEMMA RankIsShuffled ==
    ASSUME SelectionTypeOK, NEW q \in Requests, SelectionDue(q),
           RotateRank(q) \/ TakeSingle(q) \/ ShuffleRank(q)
    PROVE  /\ pc[q] = "filter"
           /\ \E t \in Shuffles(group[q]) : Take(q, t)
           /\ rr' \in [Ranks -> Nat]
<1>1. group[q] \in Seq(Pair)
    BY DEF SelectionTypeOK
<1>2. CASE RotateRank(q)
    <2>1. PICK k : k = group[q][1].rank
        OBVIOUS
    <2>2. /\ pc[q] = "filter" /\ group[q] # <<>>
          /\ Take(q, Rotated(group[q], rr[k])) /\ rr' = [rr EXCEPT ![k] = @ + 1]
        BY <1>1, <1>2, <2>1 DEF RotateRank
    <2>3. k \in Ranks
        <3>1. 1 \in DOMAIN group[q]
            BY <1>1, <2>2
        <3> QED
            BY <2>1, <3>1 DEF SelectionDue, Ranked, ToSet
    <2>4. rr[k] \in Nat
        BY <2>3 DEF SelectionTypeOK
    <2>5. Rotated(group[q], rr[k]) \in Shuffles(group[q])
        BY <1>1, <2>2, <2>4, RotatedIsShuffle
    <2>6. rr' \in [Ranks -> Nat]
        <3> DEFINE moved == rr[k] + 1
        <3>1. moved \in Nat
            BY <2>4
        <3>2. rr' = [rr EXCEPT ![k] = moved]
            BY <2>2
        <3> HIDE DEF moved
        <3> QED
            BY <3>1, <3>2 DEF SelectionTypeOK
    <2> QED
        BY <2>2, <2>5, <2>6
<1>3. CASE TakeSingle(q)
    <2>1. group[q] \in Shuffles(group[q])
        BY <1>1, SameIsShuffle
    <2> QED
        BY <1>3, <2>1 DEF TakeSingle, SelectionTypeOK
<1>4. CASE ShuffleRank(q)
    BY <1>4 DEF ShuffleRank, SelectionTypeOK
<1> QED
    BY <1>2, <1>3, <1>4

(* What a step of one selection may do, in four shapes. *)
LEMMA SelectionShapes ==
    ASSUME SelectionTypeOK, NEW q \in Requests, SelectionDue(q), SelectionStep(q)
    PROVE  /\ UNCHANGED <<now, states, cfg, asked>>
           /\ rr' \in [Ranks -> Nat]
           /\ \E l \in {"select", "schedule", "filter", "selected"} :
                /\ pc' = [pc EXCEPT ![q] = l]
                /\ l = "select" => pc[q] = "resolve"
           /\ pc[q] \in {"resolve", "select", "schedule", "filter"}
           /\ targets' \in [Requests -> Seq(Models)]
           /\ scheduler' \in [Requests -> {"sequential", "random"}]
           /\ \/ UNCHANGED <<todo, group, pairs>>
              \/ /\ pc[q] = "select"
                 /\ todo' = [todo EXCEPT ![q] = EndpointsForModel(cfg, targets[q], IsPeakHours(now))]
                 /\ UNCHANGED <<group, pairs>>
              \/ FilterPair(q)
              \/ pc[q] = "filter" /\ \E t \in Shuffles(group[q]) : Take(q, t)
<1> USE DEF Goto
<1>0. pc[q] = "filter" => pc = [pc EXCEPT ![q] = "filter"]
    BY DEF SelectionTypeOK
<1>1. CASE Resolve(q)
    <2>1. ResolveModel(cfg, asked[q]) \in Seq(Models)
        BY ResolveModelType DEF SelectionTypeOK
    <2> QED
        BY <1>1, <2>1 DEF Resolve, SelectionTypeOK
<1>2. CASE Select(q)
    BY <1>2 DEF Select, SelectionTypeOK
<1>3. CASE ReadScheduler(q)
    <2>1. cfg.scheduler \in {"sequential", "random"}
        BY ConfigsAssumption DEF SelectionTypeOK, ValidConfig
    <2> QED
        BY <1>3, <2>1 DEF ReadScheduler, SelectionTypeOK
<1>4. CASE FilterPair(q)
    BY <1>0, <1>4 DEF FilterPair, SelectionTypeOK
<1>5. CASE RotateRank(q) \/ TakeSingle(q) \/ ShuffleRank(q)
    <2>1. /\ pc[q] = "filter" /\ rr' \in [Ranks -> Nat]
          /\ \E t \in Shuffles(group[q]) : Take(q, t)
        BY <1>5, RankIsShuffled
    <2>2. UNCHANGED <<now, states, cfg, pc, asked, targets, scheduler>>
        BY <2>1 DEF Take
    <2> QED
        BY <1>0, <2>1, <2>2 DEF SelectionTypeOK
<1>6. CASE EndSelection(q)
    BY <1>6 DEF EndSelection, selectionVars, SelectionTypeOK
<1> QED
    BY <1>1, <1>2, <1>3, <1>4, <1>5, <1>6 DEF SelectionStep

LEMMA FilterShape ==
    ASSUME SelectionTypeOK, NEW q \in Requests, SelectionDue(q), FilterPair(q)
    PROVE  \E p \in todo[q] :
            /\ p = NextPair(todo[q]) /\ p \in Pair
            /\ todo' = [todo EXCEPT ![q] = @ \ {p}]
            /\ \E h \in {group[q], Append(group[q], p)} :
                /\ group' = [group EXCEPT ![q] = h]
                /\ IsAvailable(p.endpoint) => h = Append(group[q], p)
            /\ UNCHANGED pairs
            /\ \E o \in todo[q] : group[q] = <<>> \/ o.rank = group[q][1].rank
<1>1. \E o \in todo[q] : group[q] = <<>> \/ o.rank = group[q][1].rank
    BY DEF FilterPair, RankDone
<1>2. NextPair(todo[q]) \in todo[q] /\ todo[q] \subseteq Pair
    BY <1>1, NextPairIsFirst DEF SelectionTypeOK, SelectionDue
<1> QED
    BY <1>1, <1>2 DEF FilterPair

LEMMA SelectionKeeps ==
    ASSUME SelectionInv, NEW q \in Requests, SelectionStep(q)
    PROVE  SelectionInv'
<1>1. SelectionTypeOK /\ \A o \in Requests : SelectionDue(o)
    BY DEF SelectionInv
<1>2. PICK l \in {"select", "schedule", "filter", "selected"} :
            /\ pc' = [pc EXCEPT ![q] = l]
            /\ l = "select" => pc[q] = "resolve"
    BY <1>1, SelectionShapes
<1>3. pc' = [o \in Requests |-> pc'[o]] /\ pc'[q] = l
    BY <1>1, <1>2 DEF SelectionTypeOK
<1>4. /\ cfg' \in Configs /\ rr' \in [Ranks -> Nat]
      /\ targets' \in [Requests -> Seq(Models)]
      /\ scheduler' \in [Requests -> {"sequential", "random"}]
    BY <1>1, SelectionShapes DEF SelectionTypeOK
<1> DEFINE T == todo[q]
           g == group[q]
           s == pairs[q]
<1>5. T \subseteq Pair /\ g \in Seq(Pair) /\ s \in Seq(Pair)
    BY <1>1 DEF SelectionTypeOK
<1>6. DistinctPlaces(T) /\ Ranked(T, g) /\ InOrder(T, g, s) /\ Once(T, g, s)
    BY <1>1 DEF SelectionDue
(* It is enough to know what becomes of q's own pairs. *)
<1>7. ASSUME NEW U, U \subseteq Pair, NEW h \in Seq(Pair), NEW u \in Seq(Pair),
             todo' = [todo EXCEPT ![q] = U], group' = [group EXCEPT ![q] = h],
             pairs' = [pairs EXCEPT ![q] = u],
             l = "select" => U = {} /\ h = <<>> /\ u = <<>>,
             DistinctPlaces(U), Ranked(U, h), InOrder(U, h, u), Once(U, h, u)
      PROVE  SelectionInv'
    <2>1. SelectionTypeOK'
        BY <1>1, <1>3, <1>4, <1>7 DEF SelectionTypeOK
    <2>2. todo'[q] = U /\ group'[q] = h /\ pairs'[q] = u
        BY <1>1, <1>7 DEF SelectionTypeOK
    <2>3. SelectionDue(q)'
        BY <1>3, <1>7, <2>2 DEF SelectionDue, BeforeSelection
    <2>4. ASSUME NEW o \in Requests, o # q PROVE SelectionDue(o)'
        <3>1. /\ pc'[o] = pc[o] /\ todo'[o] = todo[o]
              /\ group'[o] = group[o] /\ pairs'[o] = pairs[o]
            BY <1>1, <1>2, <1>7, <2>4 DEF SelectionTypeOK
        <3> QED
            BY <1>1, <3>1 DEF SelectionDue
    <2> QED
        BY <2>1, <2>3, <2>4 DEF SelectionInv
<1>8. CASE UNCHANGED <<todo, group, pairs>>
    <2>1. /\ todo' = [todo EXCEPT ![q] = T] /\ group' = [group EXCEPT ![q] = g]
          /\ pairs' = [pairs EXCEPT ![q] = s]
        BY <1>1, <1>8 DEF SelectionTypeOK
    <2>2. l = "select" => T = {} /\ g = <<>> /\ s = <<>>
        BY <1>1, <1>2 DEF SelectionDue, BeforeSelection
    <2> HIDE DEF T, g, s
    <2> QED
        BY <1>5, <1>6, <1>7, <2>1, <2>2
<1>9. CASE /\ pc[q] = "select"
           /\ todo' = [todo EXCEPT ![q] = EndpointsForModel(cfg, targets[q], IsPeakHours(now))]
           /\ UNCHANGED <<group, pairs>>
    <2> DEFINE U == EndpointsForModel(cfg, targets[q], IsPeakHours(now))
    <2>1. g = <<>> /\ s = <<>> /\ l # "select"
        BY <1>1, <1>2, <1>9 DEF SelectionDue, BeforeSelection
    <2>2. cfg \in Configs /\ targets[q] \in Seq(Models) /\ IsPeakHours(now) \in BOOLEAN
        BY <1>1 DEF SelectionTypeOK, IsPeakHours
    <2>3. U \subseteq Pair /\ DistinctPlaces(U) /\ \A p \in U : p.rank \in Ranks
        BY <2>2, EndpointsForModelType
    <2>4. group' = [group EXCEPT ![q] = <<>>] /\ pairs' = [pairs EXCEPT ![q] = <<>>]
        BY <1>1, <1>9, <2>1 DEF SelectionTypeOK
    <2>5. todo' = [todo EXCEPT ![q] = U]
        BY <1>9
    <2> HIDE DEF U
    <2>6. InOrder(U, <<>>, <<>>) /\ Once(U, <<>>, <<>>) /\ Ranked(U, <<>>)
        BY <2>3, NothingChosen DEF Ranked, ToSet
    <2>7. <<>> \in Seq(Pair)
        OBVIOUS
    <2> QED
        BY <1>7, <2>1, <2>3, <2>4, <2>5, <2>6, <2>7
<1>10. CASE FilterPair(q)
    <2>1. PICK p \in todo[q] :
            /\ p = NextPair(todo[q]) /\ p \in Pair
            /\ todo' = [todo EXCEPT ![q] = @ \ {p}]
            /\ \E h \in {group[q], Append(group[q], p)} :
                /\ group' = [group EXCEPT ![q] = h]
                /\ IsAvailable(p.endpoint) => h = Append(group[q], p)
            /\ UNCHANGED pairs
            /\ \E o \in todo[q] : group[q] = <<>> \/ o.rank = group[q][1].rank
        BY <1>1, <1>10, FilterShape
    <2>2. PICK h \in {g, Append(g, p)} : group' = [group EXCEPT ![q] = h]
        BY <2>1
    <2>3. pairs' = [pairs EXCEPT ![q] = s]
        BY <1>1, <2>1 DEF SelectionTypeOK
    <2>4. /\ p = NextPair(T) /\ p \in T /\ p \in Pair
          /\ todo' = [todo EXCEPT ![q] = T \ {p}]
          /\ \E o \in T : g = <<>> \/ o.rank = g[1].rank
        BY <2>1
    <2>5. l # "select"
        BY <1>2, <1>10 DEF FilterPair
    <2> HIDE DEF T, g, s
    <2>9. h \in Seq(Pair) /\ T \ {p} \subseteq Pair
        BY <1>5, <2>2, <2>4, AppendKeeps
    <2>6. InOrder(T \ {p}, h, s)
        BY <1>5, <1>6, <2>2, <2>4, FilterKeepsOrder
    <2>7. Once(T \ {p}, h, s)
        <3>1. Once(T, g, s) /\ p \in T /\ p \in Pair /\ g \in Seq(Pair) /\ s \in Seq(Pair)
            BY <1>5, <1>6, <2>4
        <3> QED
            BY ONLY <2>2, <3>1, FilterKeepsOnce
    <2>10. DistinctPlaces(T \ {p})
        BY <1>6 DEF DistinctPlaces
    <2>8. Ranked(T \ {p}, h)
        <3>1. ToSet(Append(g, p)) = ToSet(g) \cup {p}
            <4>1. g \in Seq(Pair) /\ p \in Pair
                BY <1>5, <2>4
            <4> QED
                BY ONLY <4>1, AppendKeeps
        <3> QED
            BY <1>6, <2>2, <2>4, <3>1 DEF Ranked
    <2> QED
        BY <1>5, <1>7, <2>2, <2>3, <2>4, <2>5, <2>6, <2>7, <2>8, <2>9, <2>10
<1>11. ASSUME pc[q] = "filter", NEW t \in Shuffles(group[q]), Take(q, t)
       PROVE  SelectionInv'
    <2>1. t \in Shuffles(g) /\ t \in Seq(Pair)
        BY <1>5, ShuffleKeeps
    <2>2. s \o t \in Seq(Pair) /\ <<>> \in Seq(Pair)
        BY <1>5, <2>1, ConcatKeeps
    <2>3. /\ todo' = [todo EXCEPT ![q] = T] /\ group' = [group EXCEPT ![q] = <<>>]
          /\ pairs' = [pairs EXCEPT ![q] = s \o t] /\ l # "select"
        BY <1>1, <1>2, <1>11 DEF SelectionTypeOK, Take
    <2> HIDE DEF T, g, s
    <2>4. InOrder(T, <<>>, s \o t) /\ Once(T, <<>>, s \o t)
        BY <1>5, <1>6, <2>1, TakeKeepsOrder, TakeKeepsOnce
    <2>5. Ranked(T, <<>>)
        BY <1>6 DEF Ranked, ToSet
    <2> QED
        BY <1>5, <1>6, <1>7, <2>2, <2>3, <2>4, <2>5
<1> QED
    BY <1>1, <1>8, <1>9, <1>10, <1>11, SelectionShapes

(* Nothing else but the selection of a request touches its pairs.          *)
LEMMA OthersKeepSelection ==
    ASSUME SelectionInv,
           UNCHANGED <<rr, targets, todo, scheduler, group, pairs>>,
           cfg' \in Configs, pc' = [q \in Requests |-> pc'[q]],
           \A q \in Requests : pc'[q] \in BeforeSelection => pc[q] \in BeforeSelection
    PROVE  SelectionInv'
<1>1. SelectionTypeOK'
    BY DEF SelectionInv, SelectionTypeOK
<1>2. ASSUME NEW q \in Requests PROVE SelectionDue(q)'
    BY DEF SelectionInv, SelectionDue
<1> QED
    BY <1>1, <1>2 DEF SelectionInv

SelectionLabels == {"idle", "resolve", "select", "schedule", "filter", "selected"}

RoutingInv ==
    /\ TrackerInv
    /\ SelectionInv
    /\ pc \in [Requests -> SelectionLabels]
    /\ asked \in [Requests -> Names \cup {NoModel}]

LEMMA SelectionInit ==
    ASSUME cfg \in Configs, rr = [k \in Ranks |-> 0],
           pc = [q \in Requests |-> pc[q]],
           targets = [q \in Requests |-> <<>>],
           todo = [q \in Requests |-> {}],
           scheduler = [q \in Requests |-> "sequential"],
           group = [q \in Requests |-> <<>>],
           pairs = [q \in Requests |-> <<>>]
    PROVE  SelectionInv
<1>1. SelectionTypeOK
    BY DEF SelectionTypeOK
<1>2. ASSUME NEW q \in Requests PROVE SelectionDue(q)
    BY NothingChosen DEF SelectionDue, DistinctPlaces, Ranked, ToSet
<1> QED
    BY <1>1, <1>2 DEF SelectionInv

LEMMA RoutingInvInit == RoutingInit => RoutingInv
<1> SUFFICES ASSUME RoutingInit PROVE RoutingInv
    OBVIOUS
<1>1. SelectionInv
    BY SelectionInit DEF RoutingInit
<1>2. TrackerInv
    BY TrackerInvInit DEF RoutingInit
<1> QED
    BY <1>1, <1>2 DEF RoutingInit, RoutingInv, SelectionLabels

LEMMA RoutingInvNext == RoutingInv /\ [RoutingNext]_routingVars => RoutingInv'
<1> SUFFICES ASSUME RoutingInv, [RoutingNext]_routingVars PROVE RoutingInv'
    OBVIOUS
<1>0. /\ TrackerInv /\ SelectionInv /\ SelectionTypeOK
      /\ \A q \in Requests : SelectionDue(q)
      /\ pc \in [Requests -> SelectionLabels]
      /\ asked \in [Requests -> Names \cup {NoModel}]
    BY DEF RoutingInv, SelectionInv
<1>1. CASE OtherTraffic
    <2>1. TrackerInv'
        BY <1>0, <1>1, TrackerInvNext DEF OtherTraffic, TrackerNext
    <2>2. SelectionInv'
        BY <1>0, <1>1, OthersKeepSelection
           DEF OtherTraffic, selectionVars, SelectionTypeOK
    <2> QED
        BY <1>0, <1>1, <2>1, <2>2 DEF OtherTraffic, selectionVars, RoutingInv
<1>2. CASE Reload
    <2>1. TrackerInv'
        BY <1>0, <1>2, TrackerInvNext DEF Reload, trackerVars
    <2>2. SelectionInv'
        BY <1>0, <1>2, OthersKeepSelection DEF Reload, selectionVars, SelectionTypeOK
    <2> QED
        BY <1>0, <1>2, <2>1, <2>2 DEF Reload, selectionVars, RoutingInv
<1>3. ASSUME NEW q \in Requests, Ask(q) PROVE RoutingInv'
    <2>1. TrackerInv'
        BY <1>0, <1>3, TrackerInvNext DEF Ask, trackerVars
    <2>2. SelectionInv'
        BY <1>0, <1>3, OthersKeepSelection DEF Ask, Goto, SelectionTypeOK, BeforeSelection
    <2>3. pc' \in [Requests -> SelectionLabels] /\ asked' \in [Requests -> Names \cup {NoModel}]
        BY <1>0, <1>3 DEF Ask, Goto, SelectionLabels
    <2> QED
        BY <2>1, <2>2, <2>3 DEF RoutingInv
<1>4. ASSUME NEW q \in Requests, SelectionStep(q) PROVE RoutingInv'
    <2>1. /\ UNCHANGED <<now, states, asked>>
          /\ \E l \in {"select", "schedule", "filter", "selected"} :
                pc' = [pc EXCEPT ![q] = l]
        BY <1>0, <1>4, SelectionShapes
    <2>2. TrackerInv'
        BY <1>0, <2>1, TrackerInvNext DEF trackerVars
    <2>3. SelectionInv'
        BY <1>0, <1>4, SelectionKeeps
    <2> QED
        BY <1>0, <2>1, <2>2, <2>3 DEF RoutingInv, SelectionLabels
<1>5. CASE UNCHANGED routingVars
    <2>1. TrackerInv'
        BY <1>0, <1>5, TrackerInvNext DEF routingVars, trackerVars
    <2>2. SelectionInv'
        BY <1>0, <1>5, OthersKeepSelection DEF routingVars, selectionVars, SelectionTypeOK
    <2> QED
        BY <1>0, <1>5, <2>1, <2>2 DEF routingVars, selectionVars, RoutingInv
<1> QED
    BY <1>1, <1>2, <1>3, <1>4, <1>5 DEF RoutingNext

-----------------------------------------------------------------------------
(* The selection's types: every counter of a rank is a number, every pair  *)
(* names an endpoint, provider and model of the configuration.             *)
THEOREM RoutingTypeCorrect == RoutingSpec => []RoutingTypeOK
<1>1. RoutingInv => RoutingTypeOK
    BY DEF RoutingInv, TrackerInv, SelectionInv, SelectionTypeOK, SelectionLabels,
           RoutingTypeOK
<1> QED
    BY <1>1, RoutingInvInit, RoutingInvNext, PTL DEF RoutingSpec

LEMMA ChosenInOrder ==
    ASSUME NEW T, T \subseteq Pair, NEW g \in Seq(Pair), NEW s \in Seq(Pair),
           InOrder(T, g, s)
    PROVE  /\ \A i, j \in DOMAIN (s \o g) : i < j => (s \o g)[i].rank <= (s \o g)[j].rank
           /\ \A i \in DOMAIN (s \o g), p \in T : (s \o g)[i].rank <= p.rank
<1>1. g \in Shuffles(g)
    BY SameIsShuffle
<1>2. InOrder(T, <<>>, s \o g)
    BY <1>1, TakeKeepsOrder
<1> QED
    BY <1>2 DEF InOrder

LEMMA SelectionInOrder == SelectionInv => RankOrder
<1> SUFFICES ASSUME SelectionInv PROVE RankOrder
    OBVIOUS
<1>1. ASSUME NEW q \in Requests
      PROVE  /\ todo[q] \subseteq Pair /\ group[q] \in Seq(Pair) /\ pairs[q] \in Seq(Pair)
             /\ InOrder(todo[q], group[q], pairs[q])
    BY DEF SelectionInv, SelectionTypeOK, SelectionDue
<1> QED
    BY <1>1, ChosenInOrder DEF RankOrder

(* A smaller rank is tried first, for every configuration, scheduler and   *)
(* history of cooldowns and reloads while the pairs are looked at.         *)
THEOREM RankOrderKept == RoutingSpec => []RankOrder
<1>1. RoutingInv => RankOrder
    BY SelectionInOrder DEF RoutingInv
<1> QED
    BY <1>1, RoutingInvInit, RoutingInvNext, PTL DEF RoutingSpec

LEMMA SelectionOnce == SelectionInv => EachPairOnce
<1> SUFFICES ASSUME SelectionInv PROVE EachPairOnce
    OBVIOUS
<1>1. ASSUME NEW q \in Requests
      PROVE  /\ group[q] \in Seq(Pair) /\ pairs[q] \in Seq(Pair)
             /\ Once(todo[q], group[q], pairs[q])
    BY DEF SelectionInv, SelectionTypeOK, SelectionDue
<1>2. ASSUME NEW q \in Requests
      PROVE  /\ IsInjective(pairs[q] \o group[q])
             /\ ToSet(pairs[q] \o group[q]) = ToSet(pairs[q]) \cup ToSet(group[q])
    <2> DEFINE s == pairs[q]
               g == group[q]
    <2>1. /\ s \in Seq(Pair) /\ g \in Seq(Pair) /\ IsInjective(s) /\ IsInjective(g)
          /\ ToSet(s) \cap ToSet(g) = {}
        BY <1>1 DEF Once
    <2> HIDE DEF s, g
    <2>2. /\ IsInjective(s \o g)
          /\ ToSet(s \o g) = ToSet(s) \cup ToSet(g)
        BY ONLY <2>1, ConcatKeeps
    <2> QED
        BY <2>2 DEF s, g
<1> QED
    BY <1>1, <1>2 DEF Once, EachPairOnce

(* No pair is tried twice, and none both chosen and still to be looked at. *)
THEOREM PairsOnce == RoutingSpec => []EachPairOnce
<1>1. RoutingInv => EachPairOnce
    BY SelectionOnce DEF RoutingInv
<1> QED
    BY <1>1, RoutingInvInit, RoutingInvNext, PTL DEF RoutingSpec

(* The pairs a request no longer has after this step were cooling.         *)
NoneLost == \A q \in Requests : \A p \in Kept(q) \ Kept(q)' : ~IsAvailable(p.endpoint)

LEMMA KeptAlike == UNCHANGED <<todo, group, pairs>> => NoneLost
    BY DEF NoneLost, Kept

LEMMA SelectionDrops ==
    ASSUME SelectionInv, NEW q \in Requests, SelectionStep(q)
    PROVE  NoneLost
<1>1. /\ SelectionTypeOK /\ SelectionDue(q)
      /\ todo[q] \subseteq Pair /\ group[q] \in Seq(Pair) /\ pairs[q] \in Seq(Pair)
    BY DEF SelectionInv, SelectionTypeOK
<1>2. CASE pc[q] = "select" /\ UNCHANGED <<group, pairs>>
           /\ \E U : todo' = [todo EXCEPT ![q] = U]
    <2>1. Kept(q) = {}
        BY <1>1, <1>2 DEF Kept, SelectionDue, BeforeSelection, ToSet
    <2>2. \A o \in Requests \ {q} : Kept(o)' = Kept(o)
        BY <1>1, <1>2 DEF Kept, SelectionTypeOK
    <2> QED
        BY <2>1, <2>2 DEF NoneLost
<1>3. CASE FilterPair(q)
    <2>1. PICK p \in todo[q] :
            /\ p \in Pair
            /\ todo' = [todo EXCEPT ![q] = @ \ {p}]
            /\ \E h \in {group[q], Append(group[q], p)} :
                /\ group' = [group EXCEPT ![q] = h]
                /\ IsAvailable(p.endpoint) => h = Append(group[q], p)
            /\ UNCHANGED pairs
        BY <1>1, <1>3, FilterShape
    <2>2. PICK h \in {group[q], Append(group[q], p)} :
            /\ group' = [group EXCEPT ![q] = h]
            /\ IsAvailable(p.endpoint) => h = Append(group[q], p)
        BY <2>1
    <2>3. \A o \in Requests \ {q} : Kept(o)' = Kept(o)
        BY <1>1, <2>1, <2>2 DEF Kept, SelectionTypeOK
    <2>4. /\ todo'[q] = todo[q] \ {p} /\ group'[q] = h /\ pairs'[q] = pairs[q]
        BY <1>1, <2>1, <2>2 DEF SelectionTypeOK
    <2>5. ToSet(Append(group[q], p)) = ToSet(group[q]) \cup {p}
        BY <1>1, <2>1, AppendKeeps
    <2>6. ASSUME NEW x \in Kept(q) \ Kept(q)' PROVE x = p /\ ~IsAvailable(p.endpoint)
        BY <2>2, <2>4, <2>5 DEF Kept
    <2> QED
        BY <2>3, <2>6 DEF NoneLost
<1>4. ASSUME NEW t \in Shuffles(group[q]), Take(q, t) PROVE NoneLost
    <2>1. t \in Seq(Pair) /\ ToSet(t) = ToSet(group[q])
        BY <1>1, ShuffleKeeps
    <2>2. ToSet(pairs[q] \o t) = ToSet(pairs[q]) \cup ToSet(t)
        BY <1>1, <2>1, ConcatKeeps
    <2>3. /\ todo'[q] = todo[q] /\ pairs'[q] = pairs[q] \o t
        BY <1>1, <1>4 DEF Take, SelectionTypeOK
    <2>4. Kept(q) \subseteq Kept(q)'
        BY <2>1, <2>2, <2>3 DEF Kept
    <2>5. \A o \in Requests \ {q} : Kept(o)' = Kept(o)
        BY <1>1, <1>4 DEF Kept, Take, SelectionTypeOK
    <2> QED
        BY <2>4, <2>5 DEF NoneLost
<1>5. \/ UNCHANGED <<todo, group, pairs>>
      \/ /\ pc[q] = "select" /\ UNCHANGED <<group, pairs>>
         /\ \E U : todo' = [todo EXCEPT ![q] = U]
      \/ FilterPair(q)
      \/ \E t \in Shuffles(group[q]) : Take(q, t)
    BY <1>1, SelectionShapes
<1> QED
    BY <1>2, <1>3, <1>4, <1>5, KeptAlike

(* A pair leaves a request only in the step that finds it cooling; sorting,*)
(* rotating and shuffling lose none, whatever other requests do meanwhile. *)
THEOREM NothingLost == RoutingSpec => OnlyCoolingDropped
<1>1. ASSUME RoutingInv, [RoutingNext]_routingVars PROVE [NoneLost]_routingVars
    <2>1. CASE \E q \in Requests : SelectionStep(q)
        BY <1>1, <2>1, SelectionDrops DEF RoutingInv
    <2>2. CASE OtherTraffic \/ Reload \/ \E q \in Requests : Ask(q)
        BY <2>2, KeptAlike DEF OtherTraffic, Reload, Ask, selectionVars
    <2> QED
        BY <1>1, <2>1, <2>2 DEF RoutingNext
<1> QED
    BY <1>1, RoutingInvInit, RoutingInvNext, PTL DEF RoutingSpec, OnlyCoolingDropped, NoneLost

-----------------------------------------------------------------------------
(* Where a request is routed: matchPattern against spelling a name out.    *)
LEMMA PrefixIs ==
    ASSUME NEW S, NEW s \in Seq(S), NEW t \in Seq(S)
    PROVE  IsPrefix(s, t) <=> Len(s) <= Len(t) /\ \A i \in 1..Len(s) : s[i] = t[i]
<1>1. SubSeq(s, 1, Len(s)) = s
    BY SubSeqFull
<1>2. ASSUME Len(s) <= Len(t)
      PROVE  /\ SubSeq(t, 1, Len(s)) \in Seq(S) /\ Len(SubSeq(t, 1, Len(s))) = Len(s)
             /\ \A i \in 1..Len(s) : SubSeq(t, 1, Len(s))[i] = t[i]
    BY <1>2
<1>3. ASSUME Len(s) <= Len(t)
      PROVE  s = SubSeq(t, 1, Len(s)) <=> \A i \in 1..Len(s) : s[i] = t[i]
    BY <1>2, <1>3, SeqEqual
<1> QED
    BY <1>1, <1>3 DEF IsPrefix

LEMMA SuffixIs ==
    ASSUME NEW S, NEW s \in Seq(S), NEW t \in Seq(S)
    PROVE  IsSuffix(s, t) <=>
              /\ Len(s) <= Len(t)
              /\ \A i \in 1..Len(s) : s[i] = t[(Len(t) - Len(s)) + i]
<1>1. ASSUME NEW u \in Seq(S)
      PROVE  /\ Reverse(u) \in Seq(S) /\ Len(Reverse(u)) = Len(u)
             /\ \A i \in 1..Len(u) : Reverse(u)[i] = u[(Len(u) - i) + 1]
    BY DEF Reverse
<1>2. IsPrefix(Reverse(s), Reverse(t)) <=>
        /\ Len(s) <= Len(t)
        /\ \A i \in 1..Len(s) : Reverse(s)[i] = Reverse(t)[i]
    <2> DEFINE rs == Reverse(s)
               rt == Reverse(t)
    <2>1. rs \in Seq(S) /\ Len(rs) = Len(s)
        BY <1>1
    <2>2. rt \in Seq(S) /\ Len(rt) = Len(t)
        BY <1>1
    <2> HIDE DEF rs, rt
    <2>3. IsPrefix(rs, rt) <=> Len(rs) <= Len(rt) /\ \A i \in 1..Len(rs) : rs[i] = rt[i]
        BY <2>1, <2>2, PrefixIs
    <2> QED
        BY <2>1, <2>2, <2>3 DEF rs, rt
<1>3. ASSUME Len(s) <= Len(t)
      PROVE  \A i \in 1..Len(s) :
                /\ Reverse(s)[i] = s[(Len(s) - i) + 1]
                /\ Reverse(t)[i] = t[(Len(t) - i) + 1]
    BY <1>1, <1>3
<1>4. ASSUME Len(s) <= Len(t), \A i \in 1..Len(s) : Reverse(s)[i] = Reverse(t)[i],
             NEW i \in 1..Len(s)
      PROVE  s[i] = t[(Len(t) - Len(s)) + i]
    <2> DEFINE j == (Len(s) - i) + 1
    <2>1. j \in 1..Len(s) /\ (Len(s) - j) + 1 = i /\ (Len(t) - j) + 1 = (Len(t) - Len(s)) + i
        OBVIOUS
    <2> HIDE DEF j
    <2> QED
        BY <1>3, <1>4, <2>1
<1>5. ASSUME Len(s) <= Len(t), \A i \in 1..Len(s) : s[i] = t[(Len(t) - Len(s)) + i],
             NEW i \in 1..Len(s)
      PROVE  Reverse(s)[i] = Reverse(t)[i]
    <2> DEFINE j == (Len(s) - i) + 1
    <2>1. j \in 1..Len(s) /\ (Len(t) - i) + 1 = (Len(t) - Len(s)) + j
        OBVIOUS
    <2> HIDE DEF j
    <2> QED
        BY <1>3, <1>5, <2>1 DEF j
<1> QED
    BY <1>2, <1>4, <1>5 DEF IsSuffix

LEMMA ThreeParts ==
    ASSUME NEW S, NEW a \in Seq(S), NEW b \in Seq(S), NEW c \in Seq(S)
    PROVE  LET s == a \o b \o c IN
           /\ s \in Seq(S) /\ Len(s) = Len(a) + Len(b) + Len(c)
           /\ \A i \in 1..Len(a) : s[i] = a[i]
           /\ \A i \in 1..Len(b) : s[Len(a) + i] = b[i]
           /\ \A i \in 1..Len(c) : s[Len(a) + Len(b) + i] = c[i]
<1> DEFINE ab == a \o b
<1>0. Len(a) \in Nat /\ Len(b) \in Nat /\ Len(c) \in Nat
    OBVIOUS
<1>1. /\ ab \in Seq(S) /\ Len(ab) = Len(a) + Len(b)
      /\ \A i \in 1..(Len(a) + Len(b)) :
            ab[i] = IF i <= Len(a) THEN a[i] ELSE b[i - Len(a)]
    BY ConcatProperties
<1> HIDE DEF ab
<1>2. /\ ab \o c \in Seq(S) /\ Len(ab \o c) = Len(ab) + Len(c)
      /\ \A i \in 1..(Len(ab) + Len(c)) :
            (ab \o c)[i] = IF i <= Len(ab) THEN ab[i] ELSE c[i - Len(ab)]
    <2>1. ab \in Seq(S)
        BY <1>1
    <2> QED
        BY ONLY <2>1, c \in Seq(S), ConcatProperties
<1>3. ASSUME NEW i \in 1..Len(a) PROVE (ab \o c)[i] = a[i]
    BY <1>0, <1>1, <1>2
<1>4. ASSUME NEW i \in 1..Len(b) PROVE (ab \o c)[Len(a) + i] = b[i]
    BY <1>0, <1>1, <1>2
<1>5. ASSUME NEW i \in 1..Len(c) PROVE (ab \o c)[Len(a) + Len(b) + i] = c[i]
    BY <1>0, <1>1, <1>2
<1> QED
    BY <1>1, <1>2, <1>3, <1>4, <1>5 DEF ab

(* A name is its ends with some text between them if it begins and ends    *)
(* with them and is long enough for both.                                  *)
LEMMA EndsAndMiddle ==
    ASSUME NEW S, NEW a \in Seq(S), NEW b \in Seq(S), NEW m \in Seq(S)
    PROVE  (\E last \in 0..Len(m) : m = a \o SubSeq(m, Len(a) + 1, last) \o b)
             <=> IsPrefix(a, m) /\ IsSuffix(b, m) /\ Len(a) + Len(b) <= Len(m)
<1>0. Len(a) \in Nat /\ Len(b) \in Nat /\ Len(m) \in Nat
    OBVIOUS
<1>1. ASSUME NEW last \in 0..Len(m), m = a \o SubSeq(m, Len(a) + 1, last) \o b
      PROVE  IsPrefix(a, m) /\ IsSuffix(b, m) /\ Len(a) + Len(b) <= Len(m)
    <2> DEFINE mid == SubSeq(m, Len(a) + 1, last)
    <2>1. mid \in Seq(S) /\ Len(mid) \in Nat
        <3>1. CASE last < Len(a) + 1
            BY <1>0, <3>1, SubSeqEmpty, EmptySeq
        <3>2. CASE ~(last < Len(a) + 1)
            BY <1>0, <3>2
        <3> QED
            BY <3>1, <3>2
    <2> HIDE DEF mid
    <2>2. /\ Len(m) = Len(a) + Len(mid) + Len(b)
          /\ \A i \in 1..Len(a) : m[i] = a[i]
          /\ \A i \in 1..Len(b) : m[Len(a) + Len(mid) + i] = b[i]
        BY <1>1, <2>1, ThreeParts DEF mid
    <2>3. Len(m) - Len(b) = Len(a) + Len(mid) /\ Len(a) + Len(b) <= Len(m)
          /\ Len(a) <= Len(m) /\ Len(b) <= Len(m)
        BY <1>0, <2>1, <2>2
    <2> QED
        BY <2>2, <2>3, PrefixIs, SuffixIs
<1>2. ASSUME IsPrefix(a, m), IsSuffix(b, m), Len(a) + Len(b) <= Len(m)
      PROVE  \E last \in 0..Len(m) : m = a \o SubSeq(m, Len(a) + 1, last) \o b
    <2> DEFINE last == Len(m) - Len(b)
               mid == SubSeq(m, Len(a) + 1, last)
               k == last - Len(a)
    <2>1. last \in 0..Len(m) /\ k \in Nat /\ Len(m) = Len(a) + k + Len(b)
          /\ last = Len(a) + k
        BY <1>0, <1>2
    <2>2. /\ mid \in Seq(S) /\ Len(mid) = k
          /\ \A i \in 1..k : mid[i] = m[Len(a) + i]
        <3> HIDE DEF last, k
        <3>1. Len(a) + 1 \in Int /\ last \in Int
              /\ \A i \in (Len(a) + 1)..last : m[i] \in S
            BY <1>0, <2>1
        <3>2. /\ mid \in Seq(S)
              /\ Len(mid) = IF Len(a) + 1 <= last THEN last - (Len(a) + 1) + 1 ELSE 0
              /\ \A i \in 1..(last - (Len(a) + 1) + 1) : mid[i] = m[Len(a) + 1 + i - 1]
            <4> DEFINE lo == Len(a) + 1
            <4>1. lo \in Int /\ last \in Int /\ \A i \in lo..last : m[i] \in S
                BY <3>1
            <4> HIDE DEF lo
            <4>2. /\ SubSeq(m, lo, last) \in Seq(S)
                  /\ Len(SubSeq(m, lo, last)) = IF lo <= last THEN last - lo + 1 ELSE 0
                  /\ \A i \in 1..(last - lo + 1) : SubSeq(m, lo, last)[i] = m[lo + i - 1]
                BY ONLY <4>1, SubSeqProperties
            <4> QED
                BY <4>2 DEF lo
        <3> HIDE DEF mid
        <3>3. Len(mid) = k /\ last - (Len(a) + 1) + 1 = k
            BY <1>0, <2>1, <3>2
        <3>4. ASSUME NEW i \in 1..k PROVE mid[i] = m[Len(a) + i]
            <4>1. Len(a) + 1 + i - 1 = Len(a) + i
                BY <1>0, <2>1
            <4> QED
                BY <3>2, <3>3, <4>1
        <3> QED
            BY <3>2, <3>3, <3>4
    <2>3. /\ \A i \in 1..Len(a) : m[i] = a[i]
          /\ \A i \in 1..Len(b) : m[Len(a) + k + i] = b[i]
        BY <1>2, <2>1, PrefixIs, SuffixIs
    <2> HIDE DEF last, mid, k
    <2>4. /\ a \o mid \o b \in Seq(S) /\ Len(a \o mid \o b) = Len(a) + Len(mid) + Len(b)
          /\ \A i \in 1..Len(a) : (a \o mid \o b)[i] = a[i]
          /\ \A i \in 1..Len(mid) : (a \o mid \o b)[Len(a) + i] = mid[i]
          /\ \A i \in 1..Len(b) : (a \o mid \o b)[Len(a) + Len(mid) + i] = b[i]
        <3>1. mid \in Seq(S)
            BY <2>2
        <3> QED
            BY ONLY <3>1, a \in Seq(S), b \in Seq(S), ThreeParts
    <2>5. ASSUME NEW i \in 1..Len(m) PROVE (a \o mid \o b)[i] = m[i]
        <3>1. CASE i <= Len(a)
            BY <2>3, <2>4, <3>1
        <3>2. CASE i > Len(a) /\ i <= Len(a) + k
            <4>1. i - Len(a) \in 1..k /\ Len(a) + (i - Len(a)) = i
                BY <1>0, <2>1, <3>2
            <4> QED
                BY <2>2, <2>4, <4>1
        <3>3. CASE i > Len(a) + k
            <4>1. i - (Len(a) + k) \in 1..Len(b) /\ Len(a) + k + (i - (Len(a) + k)) = i
                BY <1>0, <2>1, <3>3
            <4> QED
                BY <2>2, <2>3, <2>4, <4>1
        <3>4. Len(a) \in Nat /\ k \in Nat /\ i \in Nat
            BY <1>0, <2>1
        <3>5. i <= Len(a) \/ (i > Len(a) /\ i <= Len(a) + k) \/ i > Len(a) + k
            BY <3>4
        <3> QED
            BY <3>1, <3>2, <3>3, <3>5
    <2>6. m = a \o mid \o b
        BY <2>1, <2>2, <2>4, <2>5, SeqEqual
    <2> QED
        BY <2>1, <2>6 DEF mid
<1> QED
    BY <1>1, <1>2

LEMMA MatchSpells ==
    ASSUME PlainPatterns, NEW c \in Configs, NEW i \in DOMAIN c.routes,
           NEW name \in Names \cup {NoModel}
    PROVE  MatchPattern(c.routes[i].from, name) <=> Spells(c.routes[i].from, name)
<1> DEFINE p == c.routes[i].from
           before(star) == SubSeq(p, 1, star - 1)
           after(star) == SubSeq(p, star + 1, Len(p))
<1>1. p \in Seq(Pieces) /\ name \in Seq(Pieces)
    <2>1. c.routes[i] \in Route
        <3>1. c.routes \in Seq(Route)
            BY ConfigsAssumption DEF ValidConfig
        <3> QED
            BY <3>1
    <2>2. NoModel \in Seq(Pieces)
        BY DEF NoModel
    <2> QED
        BY <2>1, <2>2, NamesAssumption DEF Route
<1>2. ASSUME NEW star \in DOMAIN p, p[star] = "*"
      PROVE  /\ \A other \in DOMAIN p : p[other] = "*" => other = star
             /\ IsPrefix(before(star), name) /\ IsSuffix(after(star), name)
                  => Len(p) <= Len(name) + 1
    BY <1>2 DEF PlainPatterns
<1> HIDE DEF p
<1>3. ASSUME NEW star \in DOMAIN p
      PROVE  /\ star \in 1..Len(p) /\ Len(p) \in Nat /\ Len(name) \in Nat
             /\ before(star) \in Seq(Pieces) /\ Len(before(star)) = star - 1
             /\ after(star) \in Seq(Pieces) /\ Len(after(star)) = Len(p) - star
    BY <1>1
<1> HIDE DEF before, after
<1>4. ASSUME NEW star \in DOMAIN p, p[star] = "*"
      PROVE  IsPrefix(before(star), name) /\ IsSuffix(after(star), name)
               <=> \E last \in 0..Len(name) :
                      name = before(star) \o SubSeq(name, star, last) \o after(star)
    <2>1. (\E last \in 0..Len(name) :
              name = before(star) \o SubSeq(name, Len(before(star)) + 1, last) \o after(star))
             <=> /\ IsPrefix(before(star), name) /\ IsSuffix(after(star), name)
                 /\ Len(before(star)) + Len(after(star)) <= Len(name)
        BY <1>1, <1>3, EndsAndMiddle
    <2>2. Len(before(star)) + 1 = star /\ Len(before(star)) + Len(after(star)) = Len(p) - 1
        BY <1>3
    <2>3. Len(p) - 1 <= Len(name) <=> Len(p) <= Len(name) + 1
        BY <1>3
    <2> QED
        BY <1>2, <1>4, <2>1, <2>2, <2>3
<1>5. ASSUME NEW star \in DOMAIN p, p[star] = "*"
      PROVE  \A j \in 1..(star - 1) : p[j] # "*"
    BY <1>1, <1>2, <1>5
<1>6. p = <<"*">> => Spells(p, name)
    <2> SUFFICES ASSUME p = <<"*">> PROVE Spells(p, name)
        OBVIOUS
    <2>1. 1 \in DOMAIN p /\ p[1] = "*" /\ Len(p) = 1
        OBVIOUS
    <2>2. SubSeq(p, 1, 0) = <<>> /\ SubSeq(p, 2, 1) = <<>>
        BY SubSeqEmpty
    <2>3. SubSeq(name, 1, Len(name)) = name /\ Len(name) \in 0..Len(name)
        BY <1>1, SubSeqFull
    <2>4. name = <<>> \o name \o <<>>
        BY <1>1, ConcatEmptySeq
    <2>5. 1 - 1 = 0 /\ 1 + 1 = 2
        OBVIOUS
    <2> QED
        BY <2>1, <2>2, <2>3, <2>4, <2>5 DEF Spells
<1> QED
    BY <1>4, <1>5, <1>6 DEF MatchPattern, Spells, p, before, after

(* What a request was told by ResolveModel is what some configuration says.*)
Routed(q) ==
    pc[q] = "select" => \E c \in Configs : targets[q] = ResolveModel(c, asked[q])

LEMMA RoutedStep ==
    RoutingInv /\ (\A q \in Requests : Routed(q)) /\ [RoutingNext]_routingVars
        => \A q \in Requests : Routed(q)'
<1> SUFFICES ASSUME RoutingInv, \A q \in Requests : Routed(q), [RoutingNext]_routingVars,
                    NEW q \in Requests
             PROVE  Routed(q)'
    OBVIOUS
<1>0. /\ SelectionTypeOK /\ pc \in [Requests -> SelectionLabels] /\ cfg \in Configs
      /\ asked \in [Requests -> Names \cup {NoModel}] /\ Routed(q)
      /\ \A o \in Requests : SelectionDue(o)
    BY DEF RoutingInv, SelectionInv, SelectionTypeOK
<1>1. ASSUME pc'[q] = "select" => pc[q] = "select",
             UNCHANGED <<targets, asked>>
      PROVE  Routed(q)'
    BY <1>0, <1>1 DEF Routed, ResolveModel, MatchingRoutes
<1>2. ASSUME NEW o \in Requests, SelectionStep(o) PROVE Routed(q)'
    <2>1. CASE Resolve(o)
        <3>1. targets' = [targets EXCEPT ![o] = ResolveModel(cfg, asked[o])]
              /\ UNCHANGED <<asked, cfg>> /\ pc' = [pc EXCEPT ![o] = "select"]
            BY <2>1 DEF Resolve, Goto
        <3>2. CASE o = q
            <4>1. targets'[q] = ResolveModel(cfg, asked[q])
                BY <1>0, <3>1, <3>2 DEF SelectionTypeOK
            <4>2. asked'[q] = asked[q] /\ cfg \in Configs
                BY <1>0, <3>1
            <4>3. \E c \in Configs : targets'[q] = ResolveModel(c, asked[q])
                BY <4>1, <4>2
            <4> QED
                BY <4>2, <4>3 DEF Routed, ResolveModel, MatchingRoutes
        <3>3. CASE o # q
            <4>1. targets'[q] = targets[q] /\ pc'[q] = pc[q] /\ asked'[q] = asked[q]
                BY <1>0, <3>1, <3>3 DEF SelectionTypeOK
            <4> QED
                BY <1>0, <4>1 DEF Routed, ResolveModel, MatchingRoutes
        <3> QED
            BY <3>2, <3>3
    <2>2. CASE ~Resolve(o)
        <3>1. UNCHANGED <<targets, asked>>
            BY <1>2, <2>2 DEF SelectionStep, Select, ReadScheduler, FilterPair, RotateRank,
                              TakeSingle, ShuffleRank, Take, EndSelection, selectionVars
        <3>2. pc' = pc \/ \E l \in {"schedule", "filter", "selected"} : pc' = [pc EXCEPT ![o] = l]
            BY <1>2, <2>2 DEF SelectionStep, Select, ReadScheduler, FilterPair, RotateRank,
                              TakeSingle, ShuffleRank, Take, EndSelection, Goto
        <3>3. pc'[q] = "select" => pc[q] = "select"
            BY <1>0, <3>2
        <3> QED
            BY <1>1, <3>1, <3>3
    <2> QED
        BY <2>1, <2>2
<1>3. CASE OtherTraffic \/ Reload \/ UNCHANGED routingVars
    BY <1>1, <1>3 DEF OtherTraffic, Reload, routingVars, selectionVars
<1>4. ASSUME NEW o \in Requests, Ask(o) PROVE Routed(q)'
    <2>1. /\ pc' = [pc EXCEPT ![o] = "resolve"] /\ UNCHANGED targets
          /\ \E m : asked' = [asked EXCEPT ![o] = m]
        BY <1>4 DEF Ask, Goto
    <2>2. CASE o = q
        BY <1>0, <2>1, <2>2 DEF Routed
    <2>3. CASE o # q
        <3>1. targets'[q] = targets[q] /\ pc'[q] = pc[q] /\ asked'[q] = asked[q]
            BY <1>0, <2>1, <2>3
        <3> QED
            BY <1>0, <3>1 DEF Routed, ResolveModel, MatchingRoutes
    <2> QED
        BY <2>2, <2>3
<1> QED
    BY <1>2, <1>3, <1>4 DEF RoutingNext

(* Routing is what the file says: with patterns of one star whose ends do  *)
(* not overlap in a name, a request goes where the first route says that   *)
(* spells its name, of the configuration in force when it asked, and to    *)
(* the default list if there is none (README.md:43-45, config.go:187).     *)
THEOREM RoutesAreFollowed == PlainPatterns /\ RoutingSpec => []RoutedAsConfigured
<1> DEFINE Inv == RoutingInv /\ \A q \in Requests : Routed(q)
<1>1. ASSUME PlainPatterns, Inv PROVE RoutedAsConfigured
    <2> SUFFICES ASSUME NEW q \in Requests, NEW c \in Configs,
                        targets[q] = ResolveModel(c, asked[q])
                 PROVE  \/ Spelling(c, asked[q]) = {} /\ targets[q] = c.default
                        \/ \E i \in Spelling(c, asked[q]) :
                            /\ \A j \in Spelling(c, asked[q]) : i <= j
                            /\ targets[q] = c.routes[i].to
        BY <1>1 DEF Routed, RoutedAsConfigured
    <2> DEFINE R == Spelling(c, asked[q])
    <2>1. asked[q] \in Names \cup {NoModel}
        BY <1>1 DEF RoutingInv
    <2>2. MatchingRoutes(c, asked[q]) = R
        BY <1>1, <2>1, MatchSpells DEF MatchingRoutes, Spelling
    <2>3. CASE R = {}
        BY <2>2, <2>3 DEF ResolveModel
    <2>4. CASE R # {}
        <3>1. R \subseteq Nat
            <4>1. c.routes \in Seq(Route)
                BY ConfigsAssumption DEF ValidConfig
            <4> QED
                BY <4>1 DEF Spelling
        <3>2. PICK l \in R : \A j \in R : l <= j
            BY <2>4, <3>1, LeastNatural
        <3> DEFINE first == CHOOSE i \in R : \A j \in R : i <= j
        <3>3. first \in R /\ \A j \in R : first <= j
            BY <3>2
        <3>4. targets[q] = c.routes[first].to
            BY <2>2, <2>4 DEF ResolveModel
        <3> QED
            BY <3>3, <3>4
    <2> QED
        BY <2>3, <2>4
<1>2. RoutingInit => Inv
    BY RoutingInvInit DEF RoutingInit, Routed
<1>3. Inv /\ [RoutingNext]_routingVars => Inv'
    BY RoutingInvNext, RoutedStep
<1>4. PlainPatterns => PlainPatterns'
    BY DEF PlainPatterns
<1>5. PlainPatterns /\ Inv => RoutedAsConfigured
    BY <1>1
<1> QED
    BY <1>2, <1>3, <1>4, <1>5, PTL DEF RoutingSpec

-----------------------------------------------------------------------------
(* Round robin in calm traffic: every request is offered the same pairs,   *)
(* and those of the first rank stand in line by their places in the file.  *)
Offer ==
    UNION {EndpointsForModel(c, ResolveModel(c, m), IsPeakHours(t)) :
            c \in Configs, m \in Names, t \in Clock}

Top == {p \in Offer : \A o \in Offer : p.rank <= o.rank}

Sorted(s) == \A i, j \in DOMAIN s : i < j => s[i].pos < s[j].pos

Line == CHOOSE s \in Seq(Pair) : ToSet(s) = Top /\ Sorted(s)

Lined == Line \in Seq(Pair) /\ ToSet(Line) = Top /\ Sorted(Line)

LEMMA OfferIs ==
    ASSUME CalmTraffic
    PROVE  /\ \A c \in Configs, m \in Names, t \in Clock :
                EndpointsForModel(c, ResolveModel(c, m), IsPeakHours(t)) = Offer
           /\ Offer \subseteq Pair
           /\ \A p \in Offer : p.rank \in Ranks
<1>1. \A c \in Configs, m, n \in Names, t, u \in Clock :
          EndpointsForModel(c, ResolveModel(c, m), IsPeakHours(t))
            = EndpointsForModel(c, ResolveModel(c, n), IsPeakHours(u))
    BY DEF CalmTraffic
<1>2. \A c, d \in Configs : c = d
    BY DEF CalmTraffic
<1>3. ASSUME NEW c \in Configs, NEW m \in Names, NEW t \in Clock
      PROVE  EndpointsForModel(c, ResolveModel(c, m), IsPeakHours(t)) = Offer
    BY <1>1, <1>2 DEF Offer
<1>4. ASSUME NEW p \in Offer PROVE p \in Pair /\ p.rank \in Ranks
    <2>1. PICK c \in Configs, m \in Names, t \in Clock :
            p \in EndpointsForModel(c, ResolveModel(c, m), IsPeakHours(t))
        BY DEF Offer
    <2>2. ResolveModel(c, m) \in Seq(Models) /\ IsPeakHours(t) \in BOOLEAN
        BY ResolveModelType DEF IsPeakHours
    <2> QED
        BY <2>1, <2>2, EndpointsForModelType
<1> QED
    BY <1>3, <1>4

(* Of two lines of the same pairs, one is a beginning of the other. *)
LEMMA SortedFollows ==
    ASSUME NEW s \in Seq(Pair), NEW t \in Seq(Pair), Sorted(s), Sorted(t),
           ToSet(s) = ToSet(t)
    PROVE  \A i \in DOMAIN s : i \in DOMAIN t /\ t[i] = s[i]
<1> DEFINE Off == {i \in DOMAIN s : ~(i \in DOMAIN t /\ t[i] = s[i])}
<1> SUFFICES ASSUME Off # {} PROVE FALSE
    OBVIOUS
<1>1. /\ DOMAIN s = 1..Len(s) /\ Len(s) \in Nat /\ \A i \in DOMAIN s : s[i].pos \in Nat
      /\ DOMAIN t = 1..Len(t) /\ Len(t) \in Nat /\ \A i \in DOMAIN t : t[i].pos \in Nat
    <2>1. (\A i \in DOMAIN s : s[i] \in Pair) /\ (\A i \in DOMAIN t : t[i] \in Pair)
        OBVIOUS
    <2> QED
        BY <2>1 DEF Pair
<1>2. PICK i \in Off : \A k \in Off : i <= k
    <2>1. Off \subseteq Nat
        BY <1>1
    <2> HIDE DEF Off
    <2> QED
        BY <2>1, LeastNatural
<1>3. i \in DOMAIN s /\ i \in Nat /\ ~(i \in DOMAIN t /\ t[i] = s[i])
    BY <1>1, <1>2
<1>4. ASSUME NEW k \in DOMAIN s, k < i PROVE k \in DOMAIN t /\ t[k] = s[k]
    BY <1>1, <1>2, <1>4
<1> HIDE DEF Off
<1>5. PICK j \in DOMAIN t : t[j] = s[i]
    BY <1>3 DEF ToSet
<1>6. i < j
    <2>1. CASE j < i
        <3>1. j \in DOMAIN s /\ s[j] = s[i]
            BY <1>1, <1>3, <1>4, <1>5, <2>1
        <3> QED
            BY <1>1, <1>3, <2>1, <3>1 DEF Sorted
    <2> QED
        BY <1>1, <1>3, <1>5, <2>1
<1>7. i \in DOMAIN t /\ t[i].pos < s[i].pos
    BY <1>1, <1>3, <1>5, <1>6 DEF Sorted
<1>8. PICK l \in DOMAIN s : s[l] = t[i]
    BY <1>7 DEF ToSet
<1>9. CASE l < i
    <2>1. t[l] = t[i] /\ l \in DOMAIN t
        BY <1>4, <1>8, <1>9
    <2> QED
        BY <1>1, <1>7, <1>9, <2>1 DEF Sorted
<1>10. CASE l >= i
    BY <1>1, <1>3, <1>7, <1>8, <1>10 DEF Sorted
<1> QED
    BY <1>1, <1>3, <1>9, <1>10

LEMMA SortedAlike ==
    ASSUME NEW s \in Seq(Pair), NEW t \in Seq(Pair), Sorted(s), Sorted(t),
           ToSet(s) = ToSet(t)
    PROVE  s = t
<1>1. /\ \A i \in DOMAIN s : i \in DOMAIN t /\ t[i] = s[i]
      /\ \A i \in DOMAIN t : i \in DOMAIN s /\ s[i] = t[i]
    BY SortedFollows
<1>2. DOMAIN s = 1..Len(s) /\ Len(s) \in Nat /\ DOMAIN t = 1..Len(t) /\ Len(t) \in Nat
    OBVIOUS
<1>3. Len(s) = Len(t)
    <2>1. Len(s) <= Len(t)
        BY <1>1, <1>2
    <2>2. Len(t) <= Len(s)
        BY <1>1, <1>2
    <2>3. Len(s) \in Nat /\ Len(t) \in Nat
        OBVIOUS
    <2> QED
        BY ONLY <2>1, <2>2, <2>3
<1> QED
    BY <1>1, <1>2, <1>3, SeqEqual

LEMMA LineIs ==
    ASSUME NEW g \in Seq(Pair), ToSet(g) = Top, Sorted(g)
    PROVE  Lined /\ g = Line
<1>1. Lined
    BY DEF Line, Lined
<1> QED
    BY <1>1, SortedAlike DEF Lined

(* The counter modulo the length goes round. *)
LEMMA NextTurn ==
    ASSUME NEW n \in Nat \ {0}, NEW k \in Nat
    PROVE  /\ k % n \in 0..(n - 1)
           /\ (k + 1) % n = IF (k % n) + 1 = n THEN 0 ELSE (k % n) + 1
<1> DEFINE c == k \div n
           d == (k + 1) \div n
           r == k % n
           x == (k + 1) % n
<1>1. \A y \in Nat : y \div n \in Nat /\ y = (y \div n) * n + (y % n) /\ y % n \in 0..(n - 1)
    BY SMT
<1>2. c \in Nat /\ k = c * n + r /\ r \in 0..(n - 1)
    BY <1>1
<1>3. d \in Nat /\ k + 1 = d * n + x /\ x \in 0..(n - 1)
    <2>1. k + 1 \in Nat
        OBVIOUS
    <2> QED
        BY <1>1, <2>1
<1> HIDE DEF c, d, r, x
<1>4. k + 1 = c * n + (r + 1) /\ r + 1 \in 1..n
    <2>1. c * n \in Int
        BY <1>2, SMT
    <2> QED
        BY <1>2, <2>1
<1>5. CASE x # 0
    <2>1. x \in 1..n /\ d * n + x = c * n + (r + 1)
        BY <1>3, <1>4, <1>5
    <2>2. x = r + 1
        BY <1>2, <1>3, <1>4, <2>1, PlaceUnique
    <2> QED
        BY <1>2, <1>3, <2>2 DEF r, x
<1>6. CASE x = 0
    <2>1. d # 0
        BY <1>3, <1>6
    <2>2. d - 1 \in Nat /\ n \in 1..n
        BY <1>3, <2>1
    <2>3. d * n = (d - 1) * n + n
        BY <1>3, SMT
    <2>4. (d - 1) * n + n = c * n + (r + 1)
        <3>1. d * n \in Int
            BY <1>3, SMT
        <3> QED
            BY <1>3, <1>4, <1>6, <2>3, <3>1
    <2>5. n = r + 1
        BY <1>2, <1>4, <2>2, <2>4, PlaceUnique
    <2> QED
        BY <1>2, <1>6, <2>5 DEF r, x
<1> QED
    BY <1>5, <1>6

(* What calm traffic leaves a request: all it was offered, the rank under  *)
(* way in line, and at its head one of the first rank, with all of them.   *)
CalmDue(q) ==
    /\ pc[q] = "resolve" => asked[q] \in Names
    /\ pc[q] = "select" => \E m \in Names : targets[q] = ResolveModel(cfg, m)
    /\ scheduler[q] = "sequential"
    /\ pc[q] \in {"schedule", "filter", "selected"} => Kept(q) = Offer
    /\ Sorted(group[q])
    /\ \A p \in todo[q], i \in DOMAIN group[q] :
          p.rank = group[q][i].rank => group[q][i].pos < p.pos
    /\ pairs[q] # <<>> => Lined /\ pairs[q][1] \in Top /\ Top \subseteq ToSet(pairs[q])

Leads(p) == {q \in Requests : pairs[q] # <<>> /\ pairs[q][1] = p}

(* The counter of the first rank tells how often each pair has led: those  *)
(* before the place it points to once more than the others.                *)
LeadsEven ==
    /\ \A p \in Top : IsFiniteSet(Leads(p))
    /\ Lined /\ Len(Line) > 1 =>
          \E c \in Nat : \A i \in 1..Len(Line) :
              Cardinality(Leads(Line[i])) =
                  IF i <= rr[Line[1].rank] % Len(Line) THEN c + 1 ELSE c

CalmInv ==
    /\ RoutingInv
    /\ states = [e \in Endpoints |-> NeverFailed]
    /\ \A q \in Requests : CalmDue(q)
    /\ LeadsEven

LEMMA CalmParts ==
    ASSUME CalmInv, NEW q \in Requests
    PROVE  /\ SelectionTypeOK /\ SelectionDue(q) /\ CalmDue(q)
           /\ todo[q] \subseteq Pair /\ group[q] \in Seq(Pair) /\ pairs[q] \in Seq(Pair)
           /\ InOrder(todo[q], group[q], pairs[q]) /\ Once(todo[q], group[q], pairs[q])
    BY DEF CalmInv, RoutingInv, SelectionInv, SelectionDue, SelectionTypeOK

(* Whoever takes its first rank takes the line, and later ranks have other *)
(* counters.                                                               *)
LEMMA FirstRank ==
    ASSUME CalmTraffic, CalmInv, NEW q \in Requests, pc[q] = "filter", RankDone(q),
           group[q] # <<>>, pairs[q] = <<>>
    PROVE  Lined /\ group[q] = Line
<1> DEFINE T == todo[q]
           g == group[q]
<1>1. g \in Seq(Pair) /\ InOrder(T, g, pairs[q]) /\ Sorted(g) /\ Kept(q) = Offer
    BY CalmParts DEF CalmDue
<1>2. Offer = T \cup ToSet(g)
    BY <1>1 DEF Kept, ToSet
<1>3. 1 \in DOMAIN g /\ \A p \in T : p.rank # g[1].rank
    BY <1>1 DEF RankDone
<1>4. \A p \in Offer : p.rank \in Nat
    BY OfferIs DEF Pair
<1>5. ASSUME NEW i \in DOMAIN g, NEW o \in Offer PROVE g[i].rank <= o.rank
    <2>1. g[i] \in Offer
        BY <1>2 DEF ToSet
    <2>2. CASE o \in T
        BY <1>1, <2>2 DEF InOrder
    <2>3. CASE o \in ToSet(g)
        BY <1>1, <1>4, <2>1, <2>3 DEF InOrder, ToSet
    <2> QED
        BY <1>2, <2>2, <2>3
<1>6. ASSUME NEW p \in Top PROVE p \in ToSet(g)
    <2>1. p \in Offer /\ g[1] \in Offer /\ p.rank <= g[1].rank
        BY <1>2, <1>3 DEF Top, ToSet
    <2>2. p.rank = g[1].rank
        BY <1>3, <1>4, <1>5, <2>1
    <2> QED
        BY <1>2, <1>3, <2>1, <2>2
<1>7. ToSet(g) \subseteq Top
    BY <1>2, <1>5 DEF Top, ToSet
<1>8. ToSet(g) = Top
    BY <1>6, <1>7
<1> QED
    BY <1>1, <1>8, LineIs

LEMMA LaterRank ==
    ASSUME CalmTraffic, CalmInv, NEW q \in Requests, pc[q] = "filter",
           group[q] # <<>>, pairs[q] # <<>>
    PROVE  Lined => group[q][1].rank # Line[1].rank
<1> DEFINE g == group[q]
<1>1. /\ g \in Seq(Pair) /\ Once(todo[q], g, pairs[q]) /\ Kept(q) = Offer
      /\ Lined /\ pairs[q][1] \in Top /\ Top \subseteq ToSet(pairs[q])
    BY CalmParts DEF CalmDue
<1>2. g[1] \in ToSet(g) /\ g[1] \in Offer
    BY <1>1 DEF ToSet, Kept
<1>3. g[1] \notin Top
    BY <1>1, <1>2 DEF Once
<1>4. Line[1] \in Top
    <2>1. Line \in Seq(Pair) /\ ToSet(Line) = Top /\ Top # {}
        BY <1>1 DEF Lined
    <2>2. 1 \in DOMAIN Line
        BY <2>1 DEF ToSet
    <2> QED
        BY <2>1, <2>2 DEF ToSet
<1>5. ASSUME g[1].rank = Line[1].rank PROVE g[1] \in Top
    BY <1>2, <1>4, <1>5 DEF Top
<1> QED
    BY <1>3, <1>5

(* A request that does not move keeps what it has. *)
LEMMA CalmElsewhere ==
    ASSUME NEW q \in Requests, CalmDue(q), cfg' = cfg, pc'[q] = pc[q],
           asked'[q] = asked[q], targets'[q] = targets[q], scheduler'[q] = scheduler[q],
           todo'[q] = todo[q], group'[q] = group[q], pairs'[q] = pairs[q]
    PROVE  CalmDue(q)'
    BY DEF CalmDue, Kept, Sorted, ResolveModel, MatchingRoutes

LEMMA AllAvailable ==
    ASSUME states = [e \in Endpoints |-> NeverFailed]
    PROVE  \A e \in Endpoints : IsAvailable(e)
    BY DEF IsAvailable, NeverFailed

(* A pair that is looked at joins the end of the line. *)
LEMMA CalmFilter ==
    ASSUME CalmTraffic, CalmInv, RoutingInv', NEW q \in Requests, FilterPair(q)
    PROVE  CalmDue(q)'
<1>1. PICK p \in todo[q] :
        /\ p = NextPair(todo[q]) /\ p \in Pair
        /\ todo' = [todo EXCEPT ![q] = @ \ {p}]
        /\ \E h \in {group[q], Append(group[q], p)} :
            /\ group' = [group EXCEPT ![q] = h]
            /\ IsAvailable(p.endpoint) => h = Append(group[q], p)
        /\ UNCHANGED pairs
        /\ \E o \in todo[q] : group[q] = <<>> \/ o.rank = group[q][1].rank
    BY CalmParts, FilterShape
<1> DEFINE T == todo[q]
           g == group[q]
           h == Append(g, p)
<1>2. /\ g \in Seq(Pair) /\ T \subseteq Pair /\ DistinctPlaces(T) /\ CalmDue(q)
      /\ SelectionTypeOK
    BY CalmParts DEF SelectionDue
<1>3. group' = [group EXCEPT ![q] = h]
    <2>1. IsAvailable(p.endpoint)
        BY <1>1, AllAvailable DEF CalmInv, Pair
    <2> QED
        BY <1>1, <2>1
<1>4. /\ todo'[q] = T \ {p} /\ group'[q] = h /\ pairs'[q] = pairs[q]
      /\ pc' = pc /\ scheduler' = scheduler /\ pc[q] = "filter"
    BY <1>1, <1>2, <1>3 DEF FilterPair, SelectionTypeOK
<1>5. h \in Seq(Pair) /\ ToSet(h) = ToSet(g) \cup {p} /\ Len(h) = Len(g) + 1 /\ h[Len(h)] = p
      /\ (\A i \in DOMAIN g : h[i] = g[i])
      /\ DOMAIN h = 1..(Len(g) + 1) /\ DOMAIN g = 1..Len(g) /\ Len(g) \in Nat
    <2>1. ToSet(h) = ToSet(g) \cup {p}
        BY <1>1, <1>2, AppendKeeps
    <2> QED
        BY <1>1, <1>2, <2>1
<1> HIDE DEF h
<1>6. \A i \in DOMAIN h : h[i].rank = p.rank
    <2>1. InOrder(todo'[q], group'[q], pairs'[q])
        BY DEF RoutingInv, SelectionInv, SelectionDue
    <2>2. \A i, j \in DOMAIN h : h[i].rank = h[j].rank
        BY <1>4, <2>1 DEF InOrder
    <2>3. Len(h) \in DOMAIN h
        BY <1>5
    <2> QED
        BY <1>5, <2>2, <2>3
<1>7. \A i \in DOMAIN g : g[i].pos < p.pos
    <2>1. \A o \in T, i \in DOMAIN g : o.rank = g[i].rank => g[i].pos < o.pos
        BY <1>2 DEF CalmDue
    <2>2. \A i \in DOMAIN g : i \in DOMAIN h
        BY <1>5
    <2> QED
        BY <1>5, <1>6, <2>1, <2>2
<1>8. \A o \in T \ {p} : o.rank = p.rank => p.pos < o.pos
    <2>1. \A o \in T \ {p} : Before(p, o)
        BY <1>1, <1>2, NextPairIsFirst
    <2>2. p.rank \in Nat
        BY <1>1 DEF Pair
    <2> QED
        BY <2>1, <2>2 DEF Before
<1>9. Sorted(h)
    <2>1. ASSUME NEW i \in DOMAIN h, NEW j \in DOMAIN h, i < j PROVE h[i].pos < h[j].pos
        <3>1. i \in DOMAIN g /\ h[i] = g[i]
            BY <1>5, <2>1
        <3>2. CASE j \in DOMAIN g
            BY <1>2, <1>5, <2>1, <3>1, <3>2 DEF CalmDue, Sorted
        <3>3. CASE j \notin DOMAIN g
            <4>1. h[j] = p
                BY <1>5, <3>3
            <4> QED
                BY <1>7, <3>1, <4>1
        <3> QED
            BY <3>2, <3>3
    <2> QED
        BY <2>1 DEF Sorted
<1>10. \A o \in T \ {p}, i \in DOMAIN h : o.rank = h[i].rank => h[i].pos < o.pos
    <2>1. ASSUME NEW o \in T \ {p}, NEW i \in DOMAIN h, o.rank = h[i].rank
          PROVE  h[i].pos < o.pos
        <3>1. CASE i \in DOMAIN g
            BY <1>2, <1>5, <2>1, <3>1 DEF CalmDue
        <3>2. CASE i \notin DOMAIN g
            <4>1. h[i] = p
                BY <1>5, <3>2
            <4> QED
                BY <1>8, <2>1, <4>1
        <3> QED
            BY <3>1, <3>2
    <2> QED
        BY <2>1
<1>11. Kept(q)' = Offer
    BY <1>1, <1>2, <1>4, <1>5 DEF CalmDue, Kept
<1>12. Sorted(group[q])' /\ Sorted(group'[q])
    BY <1>4, <1>9 DEF Sorted
<1> QED
    BY <1>2, <1>4, <1>10, <1>11, <1>12 DEF CalmDue

(* A rank that is taken goes behind those taken before it. *)
LEMMA CalmTake ==
    ASSUME CalmTraffic, CalmInv, NEW q \in Requests, pc[q] = "filter", RankDone(q),
           group[q] # <<>>, NEW t \in Shuffles(group[q]), Take(q, t)
    PROVE  CalmDue(q)'
<1> DEFINE u == pairs[q] \o t
<1>1. /\ group[q] \in Seq(Pair) /\ pairs[q] \in Seq(Pair) /\ SelectionTypeOK /\ CalmDue(q)
    BY CalmParts
<1>2. t \in Seq(Pair) /\ ToSet(t) = ToSet(group[q]) /\ t # <<>>
    <2>1. t \in Seq(Pair) /\ ToSet(t) = ToSet(group[q]) /\ Len(t) = Len(group[q])
        BY <1>1, ShuffleKeeps
    <2> QED
        BY <1>1, <2>1
<1>3. /\ todo'[q] = todo[q] /\ group'[q] = <<>> /\ pairs'[q] = u
      /\ pc' = pc /\ scheduler' = scheduler
    BY <1>1 DEF Take, SelectionTypeOK
<1>4. /\ u \in Seq(Pair) /\ ToSet(u) = ToSet(pairs[q]) \cup ToSet(t)
      /\ pairs[q] # <<>> => u[1] = pairs[q][1]
      /\ pairs[q] = <<>> => u = t
    <2>1. u \in Seq(Pair) /\ ToSet(u) = ToSet(pairs[q]) \cup ToSet(t)
        BY <1>1, <1>2, ConcatKeeps
    <2>2. CASE pairs[q] # <<>>
        BY <1>1, <1>2, <2>1, <2>2, ConcatProperties
    <2>3. CASE pairs[q] = <<>>
        BY <1>2, <2>1, <2>3, ConcatEmptySeq
    <2> QED
        BY <2>1, <2>2, <2>3
<1> HIDE DEF u
<1>5. Kept(q)' = Offer
    <2>1. Kept(q)' = todo[q] \cup ToSet(<<>>) \cup ToSet(u)
        BY <1>3 DEF Kept, ToSet
    <2>2. ToSet(<<>>) = {}
        BY DEF ToSet
    <2> QED
        BY <1>1, <1>2, <1>4, <2>1, <2>2 DEF CalmDue, Kept
<1>6. Lined /\ u[1] \in Top /\ Top \subseteq ToSet(u)
    <2>1. CASE pairs[q] # <<>>
        BY <1>1, <1>4, <2>1 DEF CalmDue
    <2>2. CASE pairs[q] = <<>>
        <3>1. Lined /\ ToSet(t) = Top
            BY <1>2, <2>2, FirstRank DEF Lined
        <3>2. t[1] \in ToSet(t)
            <4>1. 1 \in DOMAIN t
                BY <1>2
            <4> QED
                BY <4>1 DEF ToSet
        <3> QED
            BY <1>4, <2>2, <3>1, <3>2
    <2> QED
        BY <2>1, <2>2
<1>7. Sorted(group[q])'
    BY <1>3 DEF Sorted
<1> QED
    BY <1>1, <1>3, <1>5, <1>6, <1>7 DEF CalmDue

(* In calm traffic a rank is taken by rotation, or as it is if it is one.  *)
LEMMA CalmShapes ==
    ASSUME CalmTraffic, CalmInv, NEW q \in Requests, SelectionStep(q)
    PROVE  \/ UNCHANGED <<rr, pairs>>
           \/ /\ pc[q] = "filter" /\ RankDone(q) /\ group[q] # <<>>
              /\ \/ RotateRank(q)
                 \/ TakeSingle(q) /\ UNCHANGED rr
<1>1. scheduler[q] = "sequential" /\ group[q] \in Seq(Pair)
    BY CalmParts DEF CalmDue
<1>2. ~ShuffleRank(q)
    BY <1>1 DEF ShuffleRank
<1>3. Len(group[q]) > 0 => group[q] # <<>>
    BY <1>1
<1>4. CASE Resolve(q) \/ Select(q) \/ ReadScheduler(q) \/ FilterPair(q) \/ EndSelection(q)
    BY <1>4 DEF Resolve, Select, ReadScheduler, FilterPair, EndSelection, selectionVars
<1>5. CASE RotateRank(q) \/ TakeSingle(q)
    BY <1>1, <1>3, <1>5 DEF RotateRank, TakeSingle
<1> QED
    BY <1>2, <1>4, <1>5 DEF SelectionStep

LEMMA CalmStep ==
    ASSUME CalmTraffic, CalmInv, RoutingInv', NEW q \in Requests, SelectionStep(q)
    PROVE  CalmDue(q)'
<1>1. /\ CalmDue(q) /\ SelectionTypeOK /\ SelectionDue(q) /\ group[q] \in Seq(Pair)
      /\ pc \in [Requests -> SelectionLabels] /\ now \in Clock /\ cfg \in Configs
    BY CalmParts DEF CalmInv, RoutingInv, TrackerInv, TrackerTypeOK, SelectionTypeOK
<1>2. CASE Resolve(q)
    <2>1. /\ pc'[q] = "select" /\ pc[q] = "resolve" /\ cfg' = cfg
          /\ targets'[q] = ResolveModel(cfg, asked[q])
          /\ todo'[q] = todo[q] /\ group'[q] = group[q] /\ pairs'[q] = pairs[q]
          /\ scheduler'[q] = scheduler[q]
        BY <1>1, <1>2 DEF Resolve, Goto, SelectionTypeOK
    <2>2. PICK m \in Names : m = asked[q]
        BY <1>1, <2>1 DEF CalmDue
    <2>3. targets'[q] = ResolveModel(cfg', m)
        BY <2>1, <2>2
    <2>4. (\E n \in Names : targets[q] = ResolveModel(cfg, n))'
        BY <2>3 DEF ResolveModel, MatchingRoutes
    <2> QED
        BY <1>1, <2>1, <2>4 DEF CalmDue, Sorted
<1>3. CASE Select(q)
    <2> DEFINE all == EndpointsForModel(cfg, targets[q], IsPeakHours(now))
    <2>1. PICK m \in Names : targets[q] = ResolveModel(cfg, m)
        BY <1>1, <1>3 DEF Select, CalmDue
    <2>2. all = Offer
        BY <1>1, <2>1, OfferIs
    <2>3. todo' = [todo EXCEPT ![q] = all]
        BY <1>3 DEF Select
    <2> HIDE DEF all
    <2>4. pc'[q] \in {"selected", "schedule"} /\ pc[q] = "select"
        BY <1>1, <1>3 DEF Select, Goto
    <2>5. /\ todo'[q] = Offer /\ group'[q] = <<>> /\ pairs'[q] = <<>>
          /\ scheduler'[q] = "sequential"
        <3>1. group' = group /\ pairs' = pairs /\ scheduler' = scheduler
            BY <1>3 DEF Select
        <3> QED
            BY <1>1, <2>2, <2>3, <2>4, <3>1
               DEF SelectionTypeOK, SelectionDue, BeforeSelection, CalmDue
    <2>6. Kept(q)' = Offer
        BY <2>5 DEF Kept, ToSet
    <2>7. Sorted(group[q])'
        BY <2>5 DEF Sorted
    <2> QED
        BY <2>4, <2>5, <2>6, <2>7 DEF CalmDue
<1>4. CASE ReadScheduler(q)
    <2>1. /\ pc[q] = "schedule" /\ pc'[q] = "filter" /\ cfg' = cfg
          /\ scheduler'[q] = cfg.scheduler
          /\ todo'[q] = todo[q] /\ group'[q] = group[q] /\ pairs'[q] = pairs[q]
        BY <1>1, <1>4 DEF ReadScheduler, Goto, SelectionTypeOK
    <2>2. cfg.scheduler = "sequential"
        BY <1>1 DEF CalmTraffic
    <2>3. Kept(q)' = Kept(q) /\ (Sorted(group[q])' <=> Sorted(group[q]))
        BY <2>1 DEF Kept, Sorted, ToSet
    <2> QED
        BY <1>1, <2>1, <2>2, <2>3 DEF CalmDue
<1>5. CASE FilterPair(q)
    BY <1>5, CalmFilter
<1>6. CASE RotateRank(q) \/ TakeSingle(q) \/ ShuffleRank(q)
    <2>1. \E t \in Shuffles(group[q]) : Take(q, t)
        BY <1>1, <1>6, RankIsShuffled
    <2>2. pc[q] = "filter" /\ RankDone(q) /\ group[q] # <<>>
        <3>0. ~(Len(<<>>) > 1) /\ Len(<<>>) # 1
            OBVIOUS
        <3>1. Len(group[q]) > 1 \/ Len(group[q]) = 1 => group[q] # <<>>
            BY <3>0, Zenon
        <3>2. CASE RotateRank(q)
            BY <3>1, <3>2, Zenon DEF RotateRank
        <3>3. CASE TakeSingle(q)
            BY <3>1, <3>3, Zenon DEF TakeSingle
        <3>4. CASE ShuffleRank(q)
            BY <3>4, Zenon DEF ShuffleRank
        <3> QED
            BY <1>6, <3>2, <3>3, <3>4
    <2> QED
        BY <2>1, <2>2, CalmTake
<1>7. CASE EndSelection(q)
    <2>1. /\ pc[q] = "filter" /\ pc'[q] = "selected"
          /\ UNCHANGED <<todo, group, pairs, scheduler>>
        BY <1>1, <1>7 DEF EndSelection, Goto, selectionVars
    <2>2. Kept(q)' = Kept(q) /\ (Sorted(group[q])' <=> Sorted(group[q]))
        BY <2>1 DEF Kept, Sorted, ToSet
    <2> QED
        BY <1>1, <2>1, <2>2 DEF CalmDue
<1> QED
    BY <1>2, <1>3, <1>4, <1>5, <1>6, <1>7 DEF SelectionStep

(* Whose first rank is taken joins those its head leads; a later rank      *)
(* changes no lead.                                                        *)
LEMMA LeadsTake ==
    ASSUME SelectionTypeOK, NEW q \in Requests, NEW u \in Seq(Pair), u # <<>>,
           pairs' = [pairs EXCEPT ![q] = u], pairs[q] # <<>> => u[1] = pairs[q][1]
    PROVE  \A p : /\ Leads(p)' = IF pairs[q] = <<>> /\ u[1] = p
                                 THEN Leads(p) \cup {q} ELSE Leads(p)
                  /\ pairs[q] = <<>> => q \notin Leads(p)
<1>1. pairs'[q] = u /\ \A o \in Requests : o # q => pairs'[o] = pairs[o]
    BY DEF SelectionTypeOK
<1>2. ASSUME NEW p
      PROVE  Leads(p)' = IF pairs[q] = <<>> /\ u[1] = p THEN Leads(p) \cup {q} ELSE Leads(p)
    <2>1. Leads(p)' = {o \in Requests : pairs'[o] # <<>> /\ pairs'[o][1] = p}
        BY DEF Leads
    <2> QED
        BY <1>1, <2>1 DEF Leads
<1> QED
    BY <1>2 DEF Leads

(* The next in line leads: r have led once more than the rest, then x. *)
LEMMA TurnTaken ==
    ASSUME NEW n \in Nat \ {0}, NEW r \in 0..(n - 1), NEW c \in Nat, NEW C, NEW D,
           NEW x, x = IF r + 1 = n THEN 0 ELSE r + 1,
           \A i \in 1..n : C[i] = IF i <= r THEN c + 1 ELSE c,
           \A i \in 1..n : D[i] = IF i = r + 1 THEN C[i] + 1 ELSE C[i]
    PROVE  \E d \in Nat : \A i \in 1..n : D[i] = IF i <= x THEN d + 1 ELSE d
<1>1. CASE r + 1 = n
    <2>1. \A i \in 1..n : D[i] = c + 1
        BY <1>1
    <2>2. \A i \in 1..n : ~(i <= x)
        BY <1>1
    <2>3. c + 1 \in Nat
        OBVIOUS
    <2> QED
        BY <2>1, <2>2, <2>3
<1>2. CASE r + 1 # n
    <2>1. \A i \in 1..n : D[i] = IF i <= x THEN c + 1 ELSE c
        BY <1>2
    <2> QED
        BY <2>1
<1> QED
    BY <1>1, <1>2

LEMMA LeadsStep ==
    ASSUME CalmTraffic, CalmInv, NEW q \in Requests, SelectionStep(q)
    PROVE  LeadsEven'
<1>1. /\ SelectionTypeOK /\ SelectionDue(q) /\ CalmDue(q) /\ group[q] \in Seq(Pair)
      /\ pairs[q] \in Seq(Pair) /\ LeadsEven
    BY CalmParts DEF CalmInv
<1>2. CASE UNCHANGED <<rr, pairs>>
    <2>1. \A p : Leads(p)' = Leads(p)
        BY <1>2 DEF Leads
    <2> QED
        BY <1>1, <1>2, <2>1 DEF LeadsEven
<1>3. CASE /\ pc[q] = "filter" /\ RankDone(q) /\ group[q] # <<>>
           /\ RotateRank(q) \/ (TakeSingle(q) /\ UNCHANGED rr)
    <2>1. PICK t \in Shuffles(group[q]) :
            /\ Take(q, t)
            /\ RotateRank(q) => t = Rotated(group[q], rr[group[q][1].rank])
        <3>1. CASE RotateRank(q)
            <4>1. PICK t \in Shuffles(group[q]) : Take(q, t)
                BY <1>1, <3>1, RankIsShuffled
            <4>2. group[q][1].rank \in Ranks
                <5>1. 1 \in DOMAIN group[q]
                    BY <1>1, <1>3
                <5> QED
                    BY <1>1, <5>1 DEF SelectionDue, Ranked, ToSet
            <4>3. rr[group[q][1].rank] \in Nat
                BY <1>1, <4>2 DEF SelectionTypeOK
            <4>4. Rotated(group[q], rr[group[q][1].rank]) \in Shuffles(group[q])
                BY <1>1, <1>3, <4>3, RotatedIsShuffle
            <4> QED
                BY <3>1, <4>4 DEF RotateRank
        <3>2. CASE ~RotateRank(q)
            BY <1>1, <1>3, <3>2, RankIsShuffled
        <3> QED
            BY <3>1, <3>2
    <2> DEFINE u == pairs[q] \o t
    <2>2. t \in Seq(Pair) /\ Len(t) = Len(group[q]) /\ t # <<>>
        <3>1. t \in Seq(Pair) /\ Len(t) = Len(group[q])
            BY <1>1, ShuffleKeeps
        <3> QED
            BY <1>1, <1>3, <3>1
    <2>3. /\ u \in Seq(Pair) /\ u # <<>>
          /\ pairs[q] # <<>> => u[1] = pairs[q][1]
          /\ pairs[q] = <<>> => u = t
        <3>1. u \in Seq(Pair)
            BY <1>1, <2>2, ConcatProperties
        <3>2. CASE pairs[q] # <<>>
            BY <1>1, <2>2, <3>1, <3>2, ConcatProperties
        <3>3. CASE pairs[q] = <<>>
            BY <2>2, <3>1, <3>3, ConcatEmptySeq
        <3> QED
            BY <3>1, <3>2, <3>3
    <2>4. pairs' = [pairs EXCEPT ![q] = u]
        BY <2>1 DEF Take
    <2> HIDE DEF u
    <2>5. \A p : /\ Leads(p)' = IF pairs[q] = <<>> /\ u[1] = p
                                THEN Leads(p) \cup {q} ELSE Leads(p)
                 /\ pairs[q] = <<>> => q \notin Leads(p)
        BY <1>1, <2>3, <2>4, LeadsTake
    <2>6. \A p \in Top : IsFiniteSet(Leads(p)')
        <3>1. \A p \in Top : IsFiniteSet(Leads(p)) /\ IsFiniteSet(Leads(p) \cup {q})
            BY <1>1, FS_AddElement DEF LeadsEven
        <3> QED
            BY <2>5, <3>1
    <2> DEFINE n == Len(Line)
               k == rr[Line[1].rank]
    <2>7. ASSUME Lined, n > 1
          PROVE  \E d \in Nat : \A i \in 1..n :
                    Cardinality(Leads(Line[i])') =
                        IF i <= rr'[Line[1].rank] % n THEN d + 1 ELSE d
        <3>1. PICK c \in Nat : \A i \in 1..n :
                Cardinality(Leads(Line[i])) = IF i <= k % n THEN c + 1 ELSE c
            BY <1>1, <2>7 DEF LeadsEven
        <3>2. CASE pairs[q] # <<>>
            <4>1. \A p : Leads(p)' = Leads(p)
                BY <2>5, <3>2
            <4>2. rr'[Line[1].rank] = rr[Line[1].rank]
                <5>1. group[q][1].rank # Line[1].rank
                    BY <1>3, <2>7, <3>2, LaterRank
                <5>2. Line[1].rank \in Ranks
                    <6>1. Line \in Seq(Pair) /\ ToSet(Line) = Top /\ 1 \in DOMAIN Line
                        BY <2>7 DEF Lined
                    <6>2. Line[1] \in Offer
                        BY <6>1 DEF Top, ToSet
                    <6> QED
                        BY <6>2, OfferIs
                <5>3. CASE RotateRank(q)
                    <6>1. rr' = [rr EXCEPT ![group[q][1].rank] = @ + 1]
                        BY <5>3 DEF RotateRank
                    <6> QED
                        BY <1>1, <5>1, <5>2, <6>1 DEF SelectionTypeOK
                <5> QED
                    BY <1>3, <5>3
            <4> QED
                BY <3>1, <4>1, <4>2
        <3>3. CASE pairs[q] = <<>>
            <4>1. group[q] = Line
                BY <1>3, <3>3, FirstRank
            <4>2. /\ Line \in Seq(Pair) /\ Sorted(Line) /\ n \in Nat \ {0}
                  /\ DOMAIN Line = 1..n /\ \A i \in 1..n : Line[i] \in Top
                <5>1. Line \in Seq(Pair) /\ Sorted(Line) /\ ToSet(Line) = Top
                    BY <2>7 DEF Lined
                <5> QED
                    BY <2>7, <5>1 DEF ToSet
            <4>3. RotateRank(q)
                <5>1. Len(group[q]) # 1
                    BY <2>7, <4>1, <4>2
                <5> QED
                    BY <1>3, <5>1 DEF TakeSingle
            <4>4. Line[1].rank \in Ranks /\ k \in Nat
                <5>1. Line[1] \in Offer
                    BY <4>2 DEF Top
                <5> QED
                    BY <1>1, <5>1, OfferIs DEF SelectionTypeOK
            <4>5. rr'[Line[1].rank] = k + 1
                BY <1>1, <4>1, <4>3, <4>4 DEF RotateRank, SelectionTypeOK
            <4>6. u[1] = Line[(k % n) + 1] /\ (k % n) + 1 \in 1..n
                <5>1. u = Rotated(Line, k)
                    BY <2>1, <2>3, <3>3, <4>1, <4>3
                <5>2. k % n \in 0..(n - 1)
                    BY <4>2, <4>4, NextTurn
                <5>3. 1 \in 1..n /\ 1 - 1 + k = k
                    BY <4>2, <4>4
                <5> HIDE DEF k, n
                <5>4. Rotated(Line, k)[1] = Line[((1 - 1 + k) % n) + 1]
                    BY <5>3 DEF Rotated, n
                <5> QED
                    BY <4>2, <5>1, <5>2, <5>3, <5>4
            <4>7. \A i, j \in 1..n : Line[i] = Line[j] => i = j
                <5>1. \A i \in 1..n : Line[i].pos \in Nat
                    <6>1. \A i \in 1..n : Line[i] \in Pair
                        BY <4>2
                    <6> QED
                        BY <6>1 DEF Pair
                <5> QED
                    BY <4>2, <5>1 DEF Sorted
            <4> DEFINE C == [i \in 1..n |-> Cardinality(Leads(Line[i]))]
                       D == [i \in 1..n |-> Cardinality(Leads(Line[i])')]
            <4>8. ASSUME NEW i \in 1..n
                  PROVE  D[i] = IF i = (k % n) + 1 THEN C[i] + 1 ELSE C[i]
                <5>1. IsFiniteSet(Leads(Line[i])) /\ q \notin Leads(Line[i])
                    BY <1>1, <2>5, <3>3, <4>2 DEF LeadsEven
                <5>2. Cardinality(Leads(Line[i]) \cup {q}) = Cardinality(Leads(Line[i])) + 1
                    BY <5>1, FS_AddElement
                <5>3. Leads(Line[i])' = IF i = (k % n) + 1
                                        THEN Leads(Line[i]) \cup {q} ELSE Leads(Line[i])
                    BY <2>5, <3>3, <4>6, <4>7
                <5> QED
                    BY <5>2, <5>3
            <4>9. \A i \in 1..n : C[i] = IF i <= k % n THEN c + 1 ELSE c
                BY <3>1
            <4> HIDE DEF C, D, k, n
            <4>10. \E d \in Nat : \A i \in 1..n : D[i] = IF i <= (k + 1) % n THEN d + 1 ELSE d
                <5> DEFINE r == k % n
                           x == (k + 1) % n
                <5>1. r \in 0..(n - 1) /\ x = IF r + 1 = n THEN 0 ELSE r + 1
                    BY <4>2, <4>4, NextTurn
                <5>2. /\ \A i \in 1..n : D[i] = IF i = r + 1 THEN C[i] + 1 ELSE C[i]
                      /\ \A i \in 1..n : C[i] = IF i <= r THEN c + 1 ELSE c
                    BY <4>8, <4>9
                <5>3. c \in Nat /\ n \in Nat \ {0}
                    BY <3>1, <4>2
                <5> HIDE DEF r, x
                <5>4. \E d \in Nat : \A i \in 1..n : D[i] = IF i <= x THEN d + 1 ELSE d
                    BY ONLY <5>1, <5>2, <5>3, TurnTaken
                <5> QED
                    BY <5>4 DEF x
            <4> QED
                BY <4>5, <4>10 DEF D
        <3> QED
            BY <3>2, <3>3
    <2> QED
        BY <2>6, <2>7 DEF LeadsEven
<1> QED
    BY <1>2, <1>3, CalmShapes

LEMMA CalmInvInit == CalmTraffic /\ RoutingInit => CalmInv
<1> SUFFICES ASSUME CalmTraffic, RoutingInit PROVE CalmInv
    OBVIOUS
<1>1. RoutingInv /\ states = [e \in Endpoints |-> NeverFailed]
    BY RoutingInvInit DEF RoutingInit, TrackerInit
<1>2. ASSUME NEW q \in Requests
      PROVE  /\ pc[q] = "idle" /\ scheduler[q] = "sequential"
             /\ group[q] = <<>> /\ pairs[q] = <<>>
    BY DEF RoutingInit
<1>3. \A q \in Requests : CalmDue(q)
    BY <1>2 DEF CalmDue, Sorted
<1>4. \A p : Leads(p) = {}
    BY <1>2 DEF Leads
<1>5. LeadsEven
    <2>1. IsFiniteSet({}) /\ Cardinality({}) = 0
        BY FS_EmptySet
    <2>2. ASSUME Lined, Len(Line) > 1
          PROVE  \A i \in 1..Len(Line) :
                    Cardinality(Leads(Line[i])) =
                        IF i <= rr[Line[1].rank] % Len(Line) THEN 0 + 1 ELSE 0
        <3>1. Line \in Seq(Pair) /\ ToSet(Line) = Top /\ 1 \in DOMAIN Line
            BY <2>2 DEF Lined
        <3>2. Line[1] \in Offer
            BY <3>1 DEF Top, ToSet
        <3>3. rr[Line[1].rank] = 0
            BY <3>2, OfferIs DEF RoutingInit
        <3>4. Len(Line) \in Nat \ {0}
            BY <3>1
        <3>5. 0 % Len(Line) = 0
            <4>1. \A n \in Nat \ {0} : 0 % n = 0
                BY SMT
            <4> QED
                BY <3>4, <4>1
        <3> QED
            <4>1. rr[Line[1].rank] % Len(Line) = 0
                BY <3>3, <3>5
            <4>2. \A i \in 1..Len(Line) : ~(i <= 0)
                BY <3>4
            <4> QED
                BY <1>4, <2>1, <4>1, <4>2
    <2>3. \A p \in Top : IsFiniteSet(Leads(p))
        BY <1>4, <2>1
    <2>4. ASSUME Lined, Len(Line) > 1
          PROVE  \E c \in Nat : \A i \in 1..Len(Line) :
                    Cardinality(Leads(Line[i])) =
                        IF i <= rr[Line[1].rank] % Len(Line) THEN c + 1 ELSE c
        <3> DEFINE even(c) ==
                    \A i \in 1..Len(Line) :
                        Cardinality(Leads(Line[i])) =
                            IF i <= rr[Line[1].rank] % Len(Line) THEN c + 1 ELSE c
        <3>1. even(0)
            BY <2>2, <2>4
        <3> HIDE DEF even
        <3>2. \E c \in Nat : even(c)
            BY <3>1
        <3> QED
            BY <3>2 DEF even
    <2> QED
        BY <2>3, <2>4 DEF LeadsEven
<1> QED
    BY <1>1, <1>3, <1>5 DEF CalmInv

LEMMA CalmInvNext == CalmTraffic /\ CalmInv /\ [RoutingNext]_routingVars => CalmInv'
<1> SUFFICES ASSUME CalmTraffic, CalmInv, [RoutingNext]_routingVars PROVE CalmInv'
    OBVIOUS
<1>0. /\ RoutingInv /\ RoutingInv' /\ SelectionTypeOK /\ LeadsEven
      /\ states = [e \in Endpoints |-> NeverFailed]
      /\ \A q \in Requests : CalmDue(q)
    BY RoutingInvNext DEF CalmInv, RoutingInv, SelectionInv
<1>1. ASSUME NEW q \in Requests, SelectionStep(q) PROVE CalmInv'
    <2>1. UNCHANGED <<states, cfg>> /\ LeadsEven' /\ CalmDue(q)'
        BY <1>0, <1>1, LeadsStep, CalmStep, CalmParts, SelectionShapes
    <2>2. ASSUME NEW o \in Requests, o # q PROVE CalmDue(o)'
        <3>1. /\ pc'[o] = pc[o] /\ asked'[o] = asked[o] /\ targets'[o] = targets[o]
              /\ scheduler'[o] = scheduler[o] /\ todo'[o] = todo[o]
              /\ group'[o] = group[o] /\ pairs'[o] = pairs[o]
            BY <1>0, <1>1, <2>2
               DEF SelectionStep, Resolve, Select, ReadScheduler, FilterPair, RotateRank,
                   TakeSingle, ShuffleRank, Take, EndSelection, Goto, selectionVars,
                   SelectionTypeOK
        <3> QED
            BY <1>0, <2>1, <3>1, CalmElsewhere
    <2> QED
        BY <1>0, <2>1, <2>2 DEF CalmInv
(* All that is not a selection's leaves pairs and counters alone. *)
<1>2. ASSUME states' = states, UNCHANGED <<cfg, rr, targets, todo, scheduler, group, pairs>>,
             \A q \in Requests : \/ pc'[q] = pc[q] /\ asked'[q] = asked[q]
                                 \/ pc[q] = "idle" /\ pc'[q] = "resolve" /\ asked'[q] \in Names
      PROVE  CalmInv'
    <2>1. ASSUME NEW q \in Requests PROVE CalmDue(q)'
        <3>1. CASE pc'[q] = pc[q] /\ asked'[q] = asked[q]
            BY <1>0, <1>2, <3>1, CalmElsewhere
        <3>2. CASE pc[q] = "idle" /\ pc'[q] = "resolve" /\ asked'[q] \in Names
            BY <1>0, <1>2, <3>2 DEF CalmDue, Sorted
        <3> QED
            BY <1>2, <3>1, <3>2
    <2>2. \A p : Leads(p)' = Leads(p)
        BY <1>2 DEF Leads
    <2>3. LeadsEven'
        BY <1>0, <1>2, <2>2 DEF LeadsEven
    <2> QED
        BY <1>0, <1>2, <2>1, <2>3 DEF CalmInv
<1>3. CASE OtherTraffic
    <2>1. Replies = {}
        BY DEF CalmTraffic
    <2>2. states' = states
        <3>1. CASE Tick
            BY <3>1 DEF Tick
        <3>2. ASSUME NEW e \in Endpoints, AttemptSucceeds(e) PROVE states' = states
            BY <1>0, <3>2 DEF AttemptSucceeds, ClearCooldown
        <3> QED
            BY <1>3, <2>1, <3>1, <3>2 DEF OtherTraffic, AttemptFails
    <2> QED
        BY <1>2, <1>3, <2>2 DEF OtherTraffic, selectionVars
<1>4. ~Reload
    BY <1>0 DEF CalmTraffic, Reload, SelectionTypeOK
<1>5. ASSUME NEW q \in Requests, Ask(q) PROVE CalmInv'
    <2>1. PICK m \in Names : asked' = [asked EXCEPT ![q] = m]
        BY <1>5 DEF Ask
    <2>2. /\ pc[q] = "idle" /\ pc' = [pc EXCEPT ![q] = "resolve"]
          /\ UNCHANGED <<states, cfg, rr, targets, todo, scheduler, group, pairs>>
        BY <1>5 DEF Ask, Goto
    <2>3. /\ pc \in [Requests -> SelectionLabels]
          /\ asked \in [Requests -> Names \cup {NoModel}]
        BY <1>0 DEF RoutingInv
    <2>4. /\ pc'[q] = "resolve" /\ asked'[q] \in Names
          /\ \A o \in Requests : o # q => pc'[o] = pc[o] /\ asked'[o] = asked[o]
        BY <2>1, <2>2, <2>3
    <2> QED
        BY <1>2, <2>2, <2>4
<1>6. CASE UNCHANGED routingVars
    BY <1>2, <1>6 DEF routingVars, selectionVars
<1> QED
    BY <1>1, <1>3, <1>4, <1>5, <1>6 DEF RoutingNext

LEMMA CalmIsEven == CalmTraffic /\ CalmInv => EvenRotation
<1> SUFFICES ASSUME CalmTraffic, CalmInv, NEW q \in Requests,
                    NEW i \in DOMAIN pairs[q], NEW j \in DOMAIN pairs[q],
                    pairs[q][i].rank = pairs[q][1].rank,
                    pairs[q][j].rank = pairs[q][1].rank
             PROVE  LeadCount(pairs[q][i]) <= LeadCount(pairs[q][j]) + 1
    BY DEF EvenRotation
<1>1. /\ pairs[q] \in Seq(Pair) /\ pairs[q] # <<>> /\ CalmDue(q) /\ SelectionDue(q)
      /\ pc[q] \in SelectionLabels
    BY CalmParts DEF CalmInv, RoutingInv
<1>2. Kept(q) = Offer /\ Lined /\ pairs[q][1] \in Top
    BY <1>1 DEF CalmDue, SelectionDue, BeforeSelection, SelectionLabels
<1>3. pairs[q][i] \in Top /\ pairs[q][j] \in Top
    BY <1>2 DEF Top, Kept, ToSet
<1>4. Line \in Seq(Pair) /\ Len(Line) \in Nat /\ DOMAIN Line = 1..Len(Line)
    BY <1>2 DEF Lined
<1>5. PICK k \in 1..Len(Line), l \in 1..Len(Line) :
        pairs[q][i] = Line[k] /\ pairs[q][j] = Line[l]
    BY <1>2, <1>3, <1>4 DEF Lined, ToSet
<1>6. \A p : LeadCount(p) = Cardinality(Leads(p))
    BY DEF LeadCount, Leads
<1>7. CASE Len(Line) > 1
    <2>1. PICK c \in Nat : \A m \in 1..Len(Line) :
            Cardinality(Leads(Line[m])) =
                IF m <= rr[Line[1].rank] % Len(Line) THEN c + 1 ELSE c
        BY <1>2, <1>7 DEF CalmInv, LeadsEven
    <2>2. /\ LeadCount(Line[k]) \in {c, c + 1}
          /\ LeadCount(Line[l]) \in {c, c + 1}
        BY <1>6, <2>1
    <2> QED
        BY <1>5, <2>2
<1>8. CASE ~(Len(Line) > 1)
    <2>1. k = l
        BY <1>4, <1>5, <1>8
    <2>2. Cardinality(Leads(Line[k])) \in Nat
        <3>1. Line[k] \in Top
            BY <1>3, <1>5
        <3> QED
            BY <3>1, FS_CardinalityType DEF CalmInv, LeadsEven
    <2> QED
        BY <1>5, <1>6, <2>1, <2>2
<1> QED
    BY <1>7, <1>8

(* Round robin is even: in traffic without failures or reloads, where all  *)
(* requests are offered the same pairs, no pair of the first rank leads    *)
(* two requests more than another, however many requests share the counter *)
(* and wherever they stand (rotatePairs, handler.go:631-642).              *)
THEOREM RotationIsEven == CalmTraffic /\ RoutingSpec => []EvenRotation
<1>1. CalmTraffic => CalmTraffic'
    BY DEF CalmTraffic
<1> QED
    BY <1>1, CalmInvInit, CalmInvNext, CalmIsEven, PTL DEF RoutingSpec
=============================================================================
