--------------------------- MODULE AdvisoryProofs ---------------------------
(***************************************************************************)
(* Proofs about Advisory for every catalogue of skills, every request and  *)
(* every answer of Database_Agent: what a recommendation, an ensemble, its *)
(* consensus and a curated policy promise.                                 *)
(*                                                                         *)
(* An answer is computed from what the request listed, while the rows may  *)
(* change.  The invariant ties every answer to its request and its list;   *)
(* what is left are facts about sorting, counting and adding up.           *)
(***************************************************************************)
EXTENDS Advisory, FiniteSetTheorems, WellFoundedInduction, TLAPS

RowType ==
    [approved : BOOLEAN,
     stage : Stages \cup {"candidate", "shadow", "challenger", "champion", "retired"}]

ExecutionType == {Execution(i, row, result) : i \in Ids, row \in RowType, result \in Results}

\* A list that registry.list may return.
Listing(L) ==
    /\ IsFiniteSet(L)
    /\ \A s \in L : s.skill_id \in Ids /\ s = Record(s.skill_id, [stage |-> s.deployment_stage])
    /\ \A s, t \in L : s.skill_id = t.skill_id => s = t

IdsOf(selected) == [i \in DOMAIN selected |-> selected[i].skill_id]

\* What the endpoint holds while it serves a request.
Served ==
    /\ rows \in [Ids -> RowType]
    /\ pc \in {"idle", "running", "answered"}
    /\ Listing(listed)
    /\ executions \in Seq(ExecutionType)
    /\ pc = "idle" => chosen = <<>>
    /\ pc \in {"idle", "running"} => answer = Nothing
    /\ pc = "running" => request \in EnsembleRequests

\* An ensemble is selected from the list of its request.
Selected ==
    chosen # <<>> => /\ request \in EnsembleRequests
                     /\ chosen = IdsOf(SelectSkills(listed, request))

\* Every answer is the one for its request.
Answered ==
    /\ answer.kind = "recommendation" =>
           /\ request \in RecommendRequests
           /\ answer.ranking \in Rankings
           /\ answer.response = RecommendSkills(listed, request, answer.ranking, answer.passed)
    /\ answer.kind = "policy" =>
           request \in PolicyRequests /\ answer.response = CuratePerformancePolicy(request)
    /\ answer.kind = "ensemble" =>
           /\ request \in EnsembleRequests
           /\ answer.consensus = Consensus(executions, request.minimum_agreement)

AdviceInv == Served /\ Selected /\ Answered

-----------------------------------------------------------------------------
(* Sorting                                                                 *)

\* The set of what a function returns for a finite set is finite.
LEMMA ImageFinite ==
    ASSUME NEW S, IsFiniteSet(S), NEW T, NEW f \in [S -> T]
    PROVE  /\ IsFiniteSet(Range(f))
           /\ Cardinality(Range(f)) <= Cardinality(S)
           /\ (\A x, y \in S : f[x] = f[y] => x = y) => Cardinality(Range(f)) = Cardinality(S)
           /\ Cardinality(Range(f)) = Cardinality(S) => \A x, y \in S : f[x] = f[y] => x = y
<1>1. f \in Surjection(S, Range(f))
  BY DEF Surjection, Range
<1>2. f \in Injection(S, Range(f)) <=> \A x, y \in S : f[x] = f[y] => x = y
  BY <1>1 DEF Injection, IsInjective, Surjection
<1> QED
  BY <1>1, <1>2, FS_Surjection

\* A set of naturals that is not empty has a smallest member.
LEMMA SmallestOf ==
    ASSUME NEW T, T \subseteq Nat, T # {}
    PROVE  \E x \in T : \A y \in T : x <= y
<1>1. PICK x \in T : \A y \in T : ~(<<y, x>> \in OpToRel(<, Nat))
  BY NatLessThanWellFounded, WFMin
<1>2. ASSUME NEW y \in T PROVE x <= y
  <2>1. ~(<<y, x>> \in OpToRel(<, Nat))
    BY <1>1
  <2>2. ~(y < x)
    BY <2>1 DEF OpToRel
  <2> QED
    BY <2>2
<1> QED
  BY <1>2

\* The keys of a sort: tuples of n numbers.
Keys(n) == [1..n -> Int]

\* A tuple of n numbers is a key.
LEMMA SeqKey ==
    ASSUME NEW n \in Nat, NEW u \in Seq(Int), Len(u) = n
    PROVE  u \in Keys(n)
BY DEF Keys

\* The order of keys is a strict order, ...
LEMMA LexStrict ==
    ASSUME NEW n \in Nat, NEW a \in Keys(n), NEW b \in Keys(n),
           NEW c \in Keys(n)
    PROVE  /\ ~LexLess(a, a)
           /\ LexLess(a, b) /\ LexLess(b, c) => LexLess(a, c)
<1> USE DEF Keys
<1>1. ~LexLess(a, a)
  BY DEF LexLess
<1>2. ASSUME LexLess(a, b), LexLess(b, c)
      PROVE  LexLess(a, c)
  <2>1. PICK i \in 1..n : a[i] < b[i] /\ \A j \in 1..(i - 1) : a[j] = b[j]
    BY <1>2 DEF LexLess
  <2>2. PICK k \in 1..n : b[k] < c[k] /\ \A j \in 1..(k - 1) : b[j] = c[j]
    BY <1>2 DEF LexLess
  <2>3. CASE i < k
    <3>1. a[i] < c[i] /\ \A j \in 1..(i - 1) : a[j] = c[j]
      BY <2>1, <2>2, <2>3
    <3> QED
      BY <3>1 DEF LexLess
  <2>4. CASE k <= i
    <3>1. a[k] < c[k] /\ \A j \in 1..(k - 1) : a[j] = c[j]
      BY <2>1, <2>2, <2>4
    <3> QED
      BY <3>1 DEF LexLess
  <2> QED
    BY <2>3, <2>4
<1> QED
  BY <1>1, <1>2

\* ... and a total one.
LEMMA LexTotal ==
    ASSUME NEW n \in Nat, NEW a \in Keys(n), NEW b \in Keys(n), a # b
    PROVE  LexLess(a, b) \/ LexLess(b, a)
<1> USE DEF Keys
<1> DEFINE D == {i \in 1..n : a[i] # b[i]}
<1>1. D # {} /\ D \subseteq Nat
  OBVIOUS
<1>2. PICK i \in D : \A j \in D : i <= j
  <2> HIDE DEF D
  <2> QED
    BY <1>1, SmallestOf
<1>3. \A j \in 1..(i - 1) : a[j] = b[j]
  BY <1>2
<1>4. i \in 1..n /\ a[i] \in Int /\ b[i] \in Int /\ a[i] # b[i]
  BY <1>2
<1>5. a[i] < b[i] \/ b[i] < a[i]
  BY <1>4
<1>6. DOMAIN a = 1..n /\ DOMAIN b = 1..n
  OBVIOUS
<1> QED
  BY <1>3, <1>4, <1>5, <1>6 DEF LexLess

\* Members with a smaller key.
Before(key, s) == {t \in DOMAIN key : LexLess(key[t], key[s])}

\* A key that tells the members of a finite set apart.
IsKey(key, S, n) ==
    key \in [S -> Keys(n)] /\ \A s, t \in S : key[s] = key[t] => s = t

\* The places of the members are the numbers below their count, each taken once, and
\* in the order of the keys.
LEMMA Places ==
    ASSUME NEW S, IsFiniteSet(S), NEW n \in Nat, NEW key, IsKey(key, S, n)
    PROVE  LET place(s) == Cardinality(Before(key, s)) IN
           /\ \A s \in S : place(s) \in 0..(Cardinality(S) - 1)
           /\ \A s, t \in S : LexLess(key[s], key[t]) <=> place(s) < place(t)
           /\ \A s, t \in S : place(s) = place(t) => s = t
           /\ \A k \in 0..(Cardinality(S) - 1) : \E s \in S : place(s) = k
<1> DEFINE N == Cardinality(S)
           place == [s \in S |-> Cardinality(Before(key, s))]
<1> USE DEF IsKey
<1>1. N \in Nat
  BY FS_CardinalityType
<1>2. ASSUME NEW s \in S
      PROVE  /\ IsFiniteSet(Before(key, s)) /\ s \notin Before(key, s)
             /\ Before(key, s) \subseteq S \ {s}
             /\ place[s] \in 0..(N - 1)
  <2>1. ~LexLess(key[s], key[s])
    <3>1. key[s] \in Keys(n)
      OBVIOUS
    <3> QED
      BY <3>1, LexStrict
  <2>2. Before(key, s) \subseteq S \ {s}
    BY <2>1 DEF Before
  <2>3. IsFiniteSet(S \ {s}) /\ Cardinality(S \ {s}) = N - 1
    BY FS_RemoveElement
  <2>4. IsFiniteSet(Before(key, s)) /\ Cardinality(Before(key, s)) <= N - 1
    BY <2>2, <2>3, FS_Subset
  <2>5. Cardinality(Before(key, s)) \in Nat
    BY <2>4, FS_CardinalityType
  <2> QED
    BY <1>1, <2>2, <2>4, <2>5
<1>3. ASSUME NEW s \in S, NEW t \in S, LexLess(key[s], key[t])
      PROVE  place[s] < place[t]
  <2>1. Before(key, s) \subseteq Before(key, t)
    <3>1. ASSUME NEW u \in S, LexLess(key[u], key[s]) PROVE LexLess(key[u], key[t])
      <4>1. key[u] \in Keys(n) /\ key[s] \in Keys(n) /\ key[t] \in Keys(n)
        OBVIOUS
      <4> QED
        BY <1>3, <3>1, <4>1, LexStrict
    <3> QED
      BY <3>1 DEF Before
  <2>2. s \in Before(key, t) /\ s \notin Before(key, s)
    BY <1>2, <1>3 DEF Before
  <2>3. /\ IsFiniteSet(Before(key, t))
        /\ Cardinality(Before(key, s)) <= Cardinality(Before(key, t))
        /\ Cardinality(Before(key, t)) # Cardinality(Before(key, s))
    BY <1>2, <2>1, <2>2, FS_Subset
  <2> QED
    BY <1>2, <2>3
<1>4. ASSUME NEW s \in S, NEW t \in S, s # t
      PROVE  LexLess(key[s], key[t]) \/ LexLess(key[t], key[s])
  <2>1. key[s] \in Keys(n) /\ key[t] \in Keys(n) /\ key[s] # key[t]
    BY <1>4
  <2> QED
    BY <2>1, LexTotal
<1>5. ASSUME NEW s \in S, NEW t \in S, place[s] = place[t]
      PROVE  s = t
  BY <1>2, <1>3, <1>4, <1>5
<1>6. ASSUME NEW s \in S, NEW t \in S, place[s] < place[t]
      PROVE  LexLess(key[s], key[t])
  BY <1>2, <1>3, <1>4, <1>6
<1>7. ASSUME NEW k \in 0..(N - 1)
      PROVE  \E s \in S : place[s] = k
  <2>1. place \in [S -> 0..(N - 1)] /\ \A x, y \in S : place[x] = place[y] => x = y
    BY <1>2, <1>5
  <2>2. Range(place) \subseteq 0..(N - 1)
    BY <2>1 DEF Range
  <2>3. Cardinality(Range(place)) = N
    <3> DEFINE T == 0..(N - 1)
    <3>1. place \in [S -> T]
      BY <2>1
    <3>2. (\A x, y \in S : place[x] = place[y] => x = y) => Cardinality(Range(place)) = N
      <4> HIDE DEF place, T
      <4> QED
        BY <3>1, ImageFinite
    <3> QED
      BY <2>1, <3>2
  <2>4. IsFiniteSet(0..(N - 1)) /\ Cardinality(0..(N - 1)) = N
    BY <1>1, FS_Interval
  <2>5. Range(place) = 0..(N - 1)
    <3> HIDE DEF place
    <3> QED
      BY <2>2, <2>3, <2>4, FS_Subset
  <2>6. k \in Range(place)
    BY <2>5
  <2> QED
    BY <2>6 DEF Range
<1> QED
  BY <1>2, <1>3, <1>5, <1>6, <1>7

\* list.sort: every member has one place, and places are in the order of the keys.
LEMMA SortedOrders ==
    ASSUME NEW S, IsFiniteSet(S), NEW n \in Nat, NEW key, IsKey(key, S, n)
    PROVE  /\ Sorted(key) \in [1..Cardinality(S) -> S]
           /\ \A s \in S : \E i \in 1..Cardinality(S) : Sorted(key)[i] = s
           /\ \A i, j \in 1..Cardinality(S) :
                 /\ i < j <=> LexLess(key[Sorted(key)[i]], key[Sorted(key)[j]])
                 /\ Sorted(key)[i] = Sorted(key)[j] => i = j
<1> DEFINE N == Cardinality(S)
           place(s) == Cardinality(Before(key, s))
           q == Sorted(key)
<1>1. N \in Nat
  BY FS_CardinalityType
<1>2. /\ \A s \in S : place(s) \in 0..(N - 1)
      /\ \A s, t \in S : LexLess(key[s], key[t]) <=> place(s) < place(t)
      /\ \A s, t \in S : place(s) = place(t) => s = t
      /\ \A k \in 0..(N - 1) : \E s \in S : place(s) = k
  BY Places
<1>3. DOMAIN key = S
  BY DEF IsKey
<1>4. q = [i \in 1..N |-> CHOOSE s \in S : place(s) = i - 1]
  BY <1>3 DEF Sorted, Before
<1> HIDE DEF place, q
<1>5. ASSUME NEW i \in 1..N
      PROVE  q[i] \in S /\ place(q[i]) = i - 1
  <2>1. \E s \in S : place(s) = i - 1
    BY <1>1, <1>2
  <2> QED
    BY <1>4, <2>1
<1>6. q \in [1..N -> S]
  BY <1>4, <1>5
<1>7. ASSUME NEW s \in S
      PROVE  \E i \in 1..N : q[i] = s
  <2>1. place(s) + 1 \in 1..N
    BY <1>1, <1>2
  <2>2. place(q[place(s) + 1]) = place(s)
    BY <1>1, <1>2, <1>5, <2>1
  <2> QED
    BY <1>2, <1>5, <2>1, <2>2
<1>8. ASSUME NEW i \in 1..N, NEW j \in 1..N
      PROVE  /\ i < j <=> LexLess(key[q[i]], key[q[j]])
             /\ q[i] = q[j] => i = j
  <2>1. place(q[i]) = i - 1 /\ place(q[j]) = j - 1 /\ q[i] \in S /\ q[j] \in S
    BY <1>5
  <2>2. LexLess(key[q[i]], key[q[j]]) <=> place(q[i]) < place(q[j])
    BY <1>2, <2>1
  <2> QED
    BY <1>1, <2>1, <2>2
<1> QED
  BY <1>6, <1>7, <1>8 DEF q

\* f consists of the first c members of q.
IsCut(f, q, c, S) ==
    f \in [1..c -> S] /\ Len(f) = c /\ \A i \in 1..c : f[i] = q[i]

\* seq[:n] of a list.
LEMMA FirstNOf ==
    ASSUME NEW S, NEW m \in Nat, NEW q \in [1..m -> S], NEW k \in Nat,
           NEW c, c = IF k <= m THEN k ELSE m
    PROVE  IsCut(FirstN(q, k), q, c, S)
<1>1. q \in Seq(S) /\ Len(q) = m
  OBVIOUS
<1>2. Min({k, Len(q)}) = IF k <= m THEN k ELSE m
  BY <1>1 DEF Min
<1>3. c \in 0..m
  OBVIOUS
<1>4. FirstN(q, k) = SubSeq(q, 1, c)
  BY <1>2 DEF FirstN
<1>5. FirstN(q, k) = [i \in 1..c |-> q[i]]
  BY <1>1, <1>3, <1>4
<1>6. Len(FirstN(q, k)) = c
  BY <1>3, <1>5
<1>7. FirstN(q, k) \in [1..c -> S] /\ \A i \in 1..c : FirstN(q, k)[i] = q[i]
  BY <1>3, <1>5
<1> QED
  BY <1>6, <1>7 DEF IsCut

\* What a number in front of a key does to the order.
LexFacts(x, y, a, b, n) ==
    /\ <<x>> \o a \in Keys(n + 1)
    /\ <<x>> \o a = <<y>> \o b => a = b
    /\ LexLess(<<x>> \o a, <<y>> \o b) <=> x < y \/ (x = y /\ LexLess(a, b))

\* The number in front decides first.
LEMMA LexPrefix ==
    ASSUME NEW n \in Nat, NEW x \in Int, NEW y \in Int,
           NEW a \in Keys(n), NEW b \in Keys(n)
    PROVE  LexFacts(x, y, a, b, n)
<1> USE DEF Keys
<1> DEFINE u == <<x>> \o a
           v == <<y>> \o b
<1>1. /\ u \in Keys(n + 1) /\ u[1] = x /\ \A i \in 1..n : u[i + 1] = a[i]
      /\ v \in Keys(n + 1) /\ v[1] = y /\ \A i \in 1..n : v[i + 1] = b[i]
  <2>1. a \in Seq(Int) /\ b \in Seq(Int) /\ Len(a) = n /\ Len(b) = n
    OBVIOUS
  <2>2. <<x>> \in Seq(Int) /\ <<y>> \in Seq(Int) /\ Len(<<x>>) = 1 /\ Len(<<y>>) = 1
    OBVIOUS
  <2>3. u \in Seq(Int) /\ Len(u) = n + 1 /\ v \in Seq(Int) /\ Len(v) = n + 1
    BY <2>1, <2>2
  <2>4. u[1] = x /\ v[1] = y
    BY <2>1, <2>2
  <2>5. ASSUME NEW i \in 1..n
        PROVE  u[i + 1] = a[i] /\ v[i + 1] = b[i]
    BY <2>1, <2>2
  <2> HIDE DEF u, v
  <2>6. u \in Keys(n + 1) /\ v \in Keys(n + 1)
    BY <2>3
  <2> QED
    BY <2>4, <2>5, <2>6
<1> HIDE DEF u, v
<1>2. ASSUME u = v PROVE a = b
  BY <1>1, <1>2
<1>3. ASSUME LexLess(u, v) PROVE x < y \/ (x = y /\ LexLess(a, b))
  <2>1. PICK i \in 1..(n + 1) : u[i] < v[i] /\ \A j \in 1..(i - 1) : u[j] = v[j]
    BY <1>1, <1>3 DEF LexLess
  <2>2. CASE i = 1
    BY <1>1, <2>1, <2>2
  <2>3. CASE i > 1
    <3>1. i - 1 \in 1..n /\ a[i - 1] < b[i - 1]
      BY <1>1, <2>1, <2>3
    <3>2. x = y
      BY <1>1, <2>1, <2>3
    <3>3. \A j \in 1..((i - 1) - 1) : a[j] = b[j]
      <4> TAKE j \in 1..((i - 1) - 1)
      <4>1. j + 1 \in 1..(i - 1) /\ j \in 1..n
        BY <2>1, <2>3
      <4> QED
        BY <1>1, <2>1, <4>1
    <3> QED
      BY <3>1, <3>2, <3>3 DEF LexLess
  <2> QED
    BY <2>2, <2>3
<1>4. ASSUME x < y PROVE LexLess(u, v)
  <2>1. 1 \in DOMAIN u /\ u[1] < v[1] /\ \A j \in 1..(1 - 1) : u[j] = v[j]
    BY <1>1, <1>4
  <2> QED
    BY <2>1 DEF LexLess
<1>5. ASSUME x = y, LexLess(a, b) PROVE LexLess(u, v)
  <2>1. PICK i \in 1..n : a[i] < b[i] /\ \A j \in 1..(i - 1) : a[j] = b[j]
    BY <1>5 DEF LexLess
  <2>2. i + 1 \in DOMAIN u /\ u[i + 1] < v[i + 1]
    BY <1>1, <2>1
  <2>3. \A j \in 1..((i + 1) - 1) : u[j] = v[j]
    <3> TAKE j \in 1..((i + 1) - 1)
    <3>1. CASE j = 1
      BY <1>1, <1>5, <3>1
    <3>2. CASE j > 1
      <4>1. j - 1 \in 1..(i - 1) /\ j - 1 \in 1..n
        BY <3>2
      <4>2. a[j - 1] = b[j - 1]
        BY <2>1, <4>1
      <4>3. u[(j - 1) + 1] = a[j - 1] /\ v[(j - 1) + 1] = b[j - 1]
        BY <1>1, <4>1
      <4> QED
        BY <3>2, <4>2, <4>3
    <3> QED
      BY <3>1, <3>2
  <2> QED
    BY <2>2, <2>3 DEF LexLess
<1> QED
  BY <1>1, <1>2, <1>3, <1>4, <1>5 DEF u, v, LexFacts

\* q holds the c members of S with the smallest keys, in their order.
Leading(q, c, key, S) ==
    /\ c \in Nat /\ Len(q) = c
    /\ q \in [1..c -> S]
    /\ \A i, j \in 1..c : q[i] = q[j] => i = j
    /\ \A i \in 1..c : \A s \in S :
          LexLess(key[s], key[q[i]]) => \E j \in 1..(i - 1) : q[j] = s

\* A sorted list that is cut.
LEMMA CutSorted ==
    ASSUME NEW S, IsFiniteSet(S), NEW n \in Nat, NEW key, IsKey(key, S, n), NEW k \in Nat,
           NEW c, c = IF k <= Cardinality(S) THEN k ELSE Cardinality(S)
    PROVE  Leading(FirstN(Sorted(key), k), c, key, S)
<1> DEFINE N == Cardinality(S)
           w == Sorted(key)
           q == FirstN(w, k)
<1>1. N \in Nat
  BY FS_CardinalityType
<1>2. /\ w \in [1..N -> S]
      /\ \A s \in S : \E i \in 1..N : w[i] = s
      /\ \A i, j \in 1..N : /\ i < j <=> LexLess(key[w[i]], key[w[j]])
                            /\ w[i] = w[j] => i = j
  BY SortedOrders
<1>0. c = IF k <= N THEN k ELSE N
  OBVIOUS
<1> HIDE DEF w, N
<1>3. /\ q \in [1..c -> S]
      /\ Len(q) = c
      /\ \A i \in 1..c : q[i] = w[i]
  <2>1. w \in [1..N -> S]
    BY <1>2
  <2>2. IsCut(q, w, c, S)
    BY <1>0, <1>1, <2>1, FirstNOf
  <2> QED
    BY <2>2 DEF IsCut
<1>4. c \in Nat /\ c <= N
  BY <1>0, <1>1
<1> HIDE DEF q
<1>5. \A i, j \in 1..c : q[i] = q[j] => i = j
  <2>1. 1..c \subseteq 1..N
    BY <1>1, <1>4
  <2> QED
    BY <1>2, <1>3, <2>1
<1>6. ASSUME NEW i \in 1..c, NEW s \in S, LexLess(key[s], key[q[i]])
      PROVE  \E j \in 1..(i - 1) : q[j] = s
  <2>1. PICK j \in 1..N : w[j] = s
    BY <1>2
  <2>2. i \in 1..N /\ q[i] = w[i]
    BY <1>1, <1>3, <1>4
  <2>3. j < i
    BY <1>2, <1>6, <2>1, <2>2
  <2>4. j \in 1..(i - 1) /\ j \in 1..c
    BY <1>1, <1>4, <2>3
  <2> QED
    BY <1>3, <2>1, <2>4
<1> QED
  BY <1>3, <1>4, <1>5, <1>6 DEF Leading, q, w

-----------------------------------------------------------------------------
(* The selection of an ensemble                                            *)

\* The sort key of a listed skill of an eligible stage; the id tells skills apart.
LEMMA CandidateKeys ==
    ASSUME NEW L, Listing(L), NEW r
    PROVE  LET C == Candidates(L, r) IN
           /\ IsFiniteSet(C)
           /\ \A s \in C : /\ SortKeyOf(s) \in Keys(4)
                           /\ SortKeyOf(s)[1] = StageOrder[s.deployment_stage]
                           /\ StageOrder[s.deployment_stage] \in Int
           /\ \A s, t \in C : SortKeyOf(s) = SortKeyOf(t) => s = t
<1> DEFINE C == Candidates(L, r)
<1>1. C \subseteq L /\ \A s \in C : s.deployment_stage \in {"champion", "challenger", "shadow"}
  BY DEF Candidates, ELIGIBLE_STAGES
<1>2. IsFiniteSet(C)
  BY <1>1, FS_Subset DEF Listing
<1>3. ASSUME NEW s \in C
      PROVE  /\ s.skill_id \in Int /\ s.skill_family_id \in Int /\ s.version \in Int
             /\ StageOrder[s.deployment_stage] \in Int
  <2>1. s.skill_id \in Ids /\ s = Record(s.skill_id, [stage |-> s.deployment_stage])
    BY <1>1 DEF Listing
  <2>2. /\ s.skill_family_id = Catalog[s.skill_id].skill_family_id
        /\ s.version = Catalog[s.skill_id].version
    BY <2>1 DEF Record
  <2>3. StageOrder[s.deployment_stage] \in Int
    <3>1. s.deployment_stage \in {"champion", "challenger", "shadow"}
      BY <1>1
    <3> QED
      BY <3>1 DEF StageOrder
  <2> QED
    BY <2>1, <2>2, <2>3, AdvisoryAssumption
<1>4. ASSUME NEW s \in C
      PROVE  /\ SortKeyOf(s) \in Keys(4)
             /\ SortKeyOf(s)[1] = StageOrder[s.deployment_stage]
             /\ SortKeyOf(s)[4] = s.skill_id
  <2> DEFINE a == StageOrder[s.deployment_stage]
  <2>1. a \in Int /\ s.skill_id \in Int /\ s.skill_family_id \in Int /\ s.version \in Int
    BY <1>3
  <2>2. SortKeyOf(s) = <<a, s.skill_family_id, s.version, s.skill_id>>
    BY DEF SortKeyOf
  <2> HIDE DEF a
  <2>3. SortKeyOf(s)[1] = a /\ SortKeyOf(s)[4] = s.skill_id
    BY <2>2
  <2>4. SortKeyOf(s) \in Seq(Int) /\ Len(SortKeyOf(s)) = 4
    BY <2>1, <2>2
  <2>5. SortKeyOf(s) \in Keys(4)
    BY <2>4, SeqKey
  <2> QED
    BY <2>3, <2>5 DEF a
<1>5. ASSUME NEW s \in C, NEW t \in C, SortKeyOf(s) = SortKeyOf(t)
      PROVE  s = t
  <2>1. s.skill_id = t.skill_id
    BY <1>4, <1>5
  <2> QED
    BY <1>1, <2>1 DEF Listing
<1> QED
  BY <1>2, <1>3, <1>4, <1>5

\* s comes before t in an ensemble.
Comes(s, t, C) ==
    \/ Leads(s, C) /\ ~Leads(t, C)
    \/ (Leads(s, C) <=> Leads(t, C)) /\ LexLess(SortKeyOf(s), SortKeyOf(t))

\* q holds c candidates, and none before one that comes first.
Selection(q, c, C) ==
    /\ c \in Nat /\ Len(q) = c
    /\ q \in [1..c -> C]
    /\ \A i, j \in 1..c : q[i] = q[j] => i = j
    /\ \A i \in 1..c : \A s \in C : Comes(s, q[i], C) => \E j \in 1..(i - 1) : q[j] = s

\* _select_skills: as many candidates as asked for, each once, and none before one
\* that comes first.
LEMMA SelectionOf ==
    ASSUME NEW L, Listing(L), NEW r, r.max_skills \in Nat, NEW C, C = Candidates(L, r),
           NEW c, c = IF r.max_skills <= Cardinality(C) THEN r.max_skills ELSE Cardinality(C)
    PROVE  Selection(SelectSkills(L, r), c, C)
<1> DEFINE lead(s) == IF Leads(s, C) THEN 0 ELSE 1
           key == [s \in C |-> <<lead(s)>> \o SortKeyOf(s)]
           q == SelectSkills(L, r)
<1>1. /\ IsFiniteSet(C)
      /\ \A s \in C : SortKeyOf(s) \in Keys(4)
      /\ \A s, t \in C : SortKeyOf(s) = SortKeyOf(t) => s = t
  BY CandidateKeys
<1>2. q = FirstN(Sorted(key), r.max_skills)
  BY DEF SelectSkills
<1>3. \A s \in C : lead(s) \in Int /\ (lead(s) = 0 <=> Leads(s, C)) /\ lead(s) \in {0, 1}
  OBVIOUS
<1> HIDE DEF lead
<1>4. ASSUME NEW s \in C, NEW t \in C
      PROVE  /\ key[s] \in Keys(5)
             /\ key[s] = key[t] => s = t
             /\ LexLess(key[s], key[t]) <=> Comes(s, t, C)
  <2>1. SortKeyOf(s) \in Keys(4) /\ SortKeyOf(t) \in Keys(4)
    BY <1>1
  <2>2. /\ <<lead(s)>> \o SortKeyOf(s) \in Keys(4 + 1)
        /\ <<lead(s)>> \o SortKeyOf(s) = <<lead(t)>> \o SortKeyOf(t) =>
              SortKeyOf(s) = SortKeyOf(t)
        /\ LexLess(<<lead(s)>> \o SortKeyOf(s), <<lead(t)>> \o SortKeyOf(t)) <=>
              lead(s) < lead(t) \/ (lead(s) = lead(t) /\ LexLess(SortKeyOf(s), SortKeyOf(t)))
    <3> DEFINE x == lead(s)
               y == lead(t)
               u == SortKeyOf(s)
               v == SortKeyOf(t)
    <3>1. x \in Int /\ y \in Int /\ u \in Keys(4) /\ v \in Keys(4)
      BY <1>3, <2>1
    <3> HIDE DEF x, y, u, v
    <3>2. LexFacts(x, y, u, v, 4)
      BY <3>1, LexPrefix
    <3> QED
      BY <3>2 DEF LexFacts, x, y, u, v
  <2>3. key[s] = <<lead(s)>> \o SortKeyOf(s) /\ key[t] = <<lead(t)>> \o SortKeyOf(t)
    OBVIOUS
  <2>4. /\ lead(s) < lead(t) <=> Leads(s, C) /\ ~Leads(t, C)
        /\ lead(s) = lead(t) <=> (Leads(s, C) <=> Leads(t, C))
    BY <1>3
  <2>5. LexLess(key[s], key[t]) <=> Comes(s, t, C)
    <3> HIDE DEF key
    <3> QED
      BY <2>2, <2>3, <2>4, Zenon DEF Comes
  <2>6. key[s] \in Keys(5)
    <3> HIDE DEF key
    <3> QED
      BY <2>2, <2>3
  <2> QED
    BY <1>1, <2>2, <2>3, <2>5, <2>6
<1>5. IsKey(key, C, 5)
  BY <1>4 DEF IsKey
<1> HIDE DEF key, q
<1>6. Leading(q, c, key, C)
  BY <1>1, <1>2, <1>5, CutSorted
<1>7. ASSUME NEW i \in 1..c, NEW s \in C, Comes(s, q[i], C)
      PROVE  \E j \in 1..(i - 1) : q[j] = s
  <2>1. q[i] \in C
    BY <1>6 DEF Leading
  <2>2. LexLess(key[s], key[q[i]])
    BY <1>4, <1>7, <2>1
  <2> QED
    BY <1>6, <2>2 DEF Leading
<1>8. Selection(q, c, C)
  BY <1>6, <1>7 DEF Leading, Selection
<1> QED
  BY <1>8 DEF q

\* The ids of the selected skills are in the catalogue.
LEMMA SelectedIds ==
    ASSUME NEW L, Listing(L), NEW r, r.max_skills \in Nat
    PROVE  LET ids == IdsOf(SelectSkills(L, r)) IN
           Len(ids) \in Nat /\ \A i \in 1..Len(ids) : ids[i] \in Ids
<1> DEFINE C == Candidates(L, r)
           c == IF r.max_skills <= Cardinality(C) THEN r.max_skills ELSE Cardinality(C)
           q == SelectSkills(L, r)
<1>1. Selection(q, c, C)
  <2>1. C = Candidates(L, r) /\ c = IF r.max_skills <= Cardinality(C) THEN r.max_skills
                                    ELSE Cardinality(C)
    OBVIOUS
  <2> HIDE DEF C, c
  <2> QED
    BY <2>1, SelectionOf
<1>2. C \subseteq L
  BY DEF Candidates
<1> HIDE DEF C, c, q
<1>3. c \in Nat /\ q \in [1..c -> C]
  BY <1>1 DEF Selection
<1>4. Len(IdsOf(q)) = c /\ \A i \in 1..c : IdsOf(q)[i] = q[i].skill_id
  BY <1>3 DEF IdsOf
<1>5. \A i \in 1..c : q[i].skill_id \in Ids
  BY <1>2, <1>3 DEF Listing
<1> QED
  BY <1>3, <1>4, <1>5 DEF q

-----------------------------------------------------------------------------
(* The invariant                                                           *)

\* What registry.list returns is a listing, whatever the rows are.
LEMMA ListApprovedListing ==
    ASSUME rows \in [Ids -> RowType]
    PROVE  Listing(ListApproved)
<1> DEFINE on == {j \in Ids : rows[j].approved}
           f == [i \in on |-> Record(i, rows[i])]
<1>1. IsFiniteSet(on)
  BY FS_Subset, AdvisoryAssumption
<1>2. Range(f) = ListApproved
  BY DEF Range, ListApproved
<1>3. IsFiniteSet(ListApproved)
  <2>1. f \in [on -> ListApproved]
    BY DEF ListApproved
  <2> HIDE DEF f, on
  <2> QED
    BY <1>1, <1>2, <2>1, ImageFinite
<1>4. ASSUME NEW s \in ListApproved
      PROVE  \E i \in Ids : s = Record(i, rows[i])
  BY DEF ListApproved
<1>5. ASSUME NEW s \in ListApproved
      PROVE  /\ s.skill_id \in Ids
             /\ s = Record(s.skill_id, rows[s.skill_id])
             /\ s.deployment_stage = rows[s.skill_id].stage
  BY <1>4 DEF Record
<1>6. ASSUME NEW s \in ListApproved
      PROVE  s = Record(s.skill_id, [stage |-> s.deployment_stage])
  BY <1>5 DEF Record
<1>7. ASSUME NEW s \in ListApproved, NEW t \in ListApproved, s.skill_id = t.skill_id
      PROVE  s = t
  BY <1>5, <1>7
<1> QED
  BY <1>3, <1>5, <1>6, <1>7 DEF Listing

\* The first state.
LEMMA AdviceInit == Init => AdviceInv
<1> SUFFICES ASSUME Init PROVE AdviceInv
  OBVIOUS
<1>1. rows \in [Ids -> RowType]
  <2>1. RowStates \subseteq RowType
    BY DEF RowStates, RowType
  <2> QED
    BY <2>1 DEF Init
<1>2. Listing(listed)
  BY FS_EmptySet DEF Init, Listing
<1>3. executions \in Seq(ExecutionType)
  BY DEF Init
<1> QED
  BY <1>1, <1>2, <1>3 DEF Init, AdviceInv, Served, Selected, Answered, Nothing
\* A step of another process keeps the rows typed.
LEMMA ChangeRowType ==
    ASSUME rows \in [Ids -> RowType], ChangeRow
    PROVE  rows' \in [Ids -> RowType]
<1>1. PICK i \in Ids :
         \/ ~rows[i].approved /\ rows' = [rows EXCEPT ![i].approved = TRUE]
         \/ rows' = [rows EXCEPT ![i] = Deprecated(rows[i])]
         \/ rows[i].approved /\ \E stage \in Stages : rows' = [rows EXCEPT ![i].stage = stage]
  BY DEF ChangeRow
<1>2. CASE rows' = [rows EXCEPT ![i].approved = TRUE]
  BY <1>2 DEF RowType
<1>3. CASE rows' = [rows EXCEPT ![i] = Deprecated(rows[i])]
  BY <1>3 DEF RowType, Deprecated
<1>4. ASSUME NEW stage \in Stages, rows' = [rows EXCEPT ![i].stage = stage]
      PROVE  rows' \in [Ids -> RowType]
  BY <1>4 DEF RowType
<1> QED
  BY <1>1, <1>2, <1>3, <1>4

\* Steps that take up a request.
LEMMA AdviceRequest ==
    ASSUME AdviceInv, Recommend \/ CuratePolicy \/ SelectEnsemble
    PROVE  AdviceInv'
<1> USE DEF AdviceInv, Served
<1>1. CASE Recommend
  <2>1. PICK ranking \in Rankings, passed \in SUBSET Ids :
           answer' = [kind |-> "recommendation", ranking |-> ranking, passed |-> passed,
                      response |-> RecommendSkills(listed', request', ranking, passed)]
    BY <1>1 DEF Recommend
  <2>2. Listing(listed')
    BY <1>1, ListApprovedListing DEF Recommend
  <2>3. Answered'
    BY <1>1, <2>1 DEF Recommend, Answered, Rankings
  <2> QED
    BY <1>1, <2>1, <2>2, <2>3 DEF Recommend, Selected
<1>2. CASE CuratePolicy
  <2>1. Answered'
    BY <1>2 DEF CuratePolicy, Answered
  <2> QED
    BY <1>2, <2>1 DEF CuratePolicy, Selected
<1>3. CASE SelectEnsemble
  <2>1. Listing(listed')
    BY <1>3, ListApprovedListing DEF SelectEnsemble
  <2>2. chosen' = IdsOf(SelectSkills(listed', request')) /\ request' \in EnsembleRequests
    BY <1>3 DEF SelectEnsemble, IdsOf
  <2>3. Answered'
    BY <1>3 DEF SelectEnsemble, Answered, Nothing
  <2> QED
    BY <1>3, <2>1, <2>2, <2>3 DEF SelectEnsemble, Selected
<1> QED
  BY <1>1, <1>2, <1>3

\* Steps of an ensemble, and the answer going out.
LEMMA AdviceServe ==
    ASSUME AdviceInv, RunNext \/ AnswerEnsemble \/ Deliver \/ ChangeRow \/ UNCHANGED vars
    PROVE  AdviceInv'
<1> USE DEF AdviceInv, Served
<1>1. CASE RunNext
  <2>1. PICK result \in Results :
           executions' = Append(executions, Execution(chosen[Len(executions) + 1],
                                                      rows[chosen[Len(executions) + 1]], result))
    BY <1>1 DEF RunNext
  <2>2. chosen[Len(executions) + 1] \in Ids
    <3>1. Len(executions) \in Nat /\ Len(executions) < Len(chosen)
      BY <1>1 DEF RunNext
    <3>2. chosen # <<>>
      BY <3>1
    <3>3. /\ chosen = IdsOf(SelectSkills(listed, request))
          /\ request.max_skills \in Nat
      BY <3>2, RequestAssumption DEF Selected
    <3>4. Len(chosen) \in Nat /\ \A i \in 1..Len(chosen) : chosen[i] \in Ids
      BY <3>3, SelectedIds
    <3> QED
      BY <3>1, <3>4
  <2> QED
    BY <1>1, <2>1, <2>2 DEF RunNext, Selected, Answered, Nothing, ExecutionType
<1>2. CASE AnswerEnsemble
  <2>1. Answered'
    BY <1>2 DEF AnswerEnsemble, Answered
  <2> QED
    BY <1>2, <2>1 DEF AnswerEnsemble, Selected
<1>3. CASE Deliver
  <2>1. Listing(listed') /\ executions' \in Seq(ExecutionType)
    BY <1>3, FS_EmptySet DEF Deliver, Listing
  <2>2. Answered'
    BY <1>3 DEF Deliver, Answered, Nothing
  <2> QED
    BY <1>3, <2>1, <2>2 DEF Deliver, Selected
<1>4. CASE ChangeRow
  <2>1. rows' \in [Ids -> RowType]
    BY <1>4, ChangeRowType
  <2> QED
    BY <1>4, <2>1 DEF ChangeRow, Selected, Answered
<1>5. CASE UNCHANGED vars
  BY <1>5 DEF vars, Selected, Answered
<1> QED
  BY <1>1, <1>2, <1>3, <1>4, <1>5

\* Every answer of the advisory endpoints is the one for its request and the list
\* that the request read, whatever other processes do to the rows meanwhile.
THEOREM AnswersOfRequests == Spec => []AdviceInv
<1>1. AdviceInv /\ [Next]_vars => AdviceInv'
  BY AdviceRequest, AdviceServe DEF Next
<1> QED
  BY <1>1, AdviceInit, PTL DEF Spec

-----------------------------------------------------------------------------
(* The policy                                                              *)

\* What the actions on strategy buckets look like.
LEMMA BucketActionsOf ==
    ASSUME NEW r \in PolicyRequests, NEW a \in BucketActions(r)
    PROVE  LET d == r.strategy_bucket_weights IN
           /\ a.target \in Meaningful(d) /\ a.delta = d[a.target] /\ a.delta \in Int
           /\ a.target_type = "strategy_bucket"
           /\ a.auto_apply => AutoApplyAllowed(r) /\ a.delta > r.pause_threshold
           /\ a.delta < 0 <=> a.action \in {"decrease_weight", "pause_strategy_bucket"}
           /\ a.action \in {"decrease_weight", "pause_strategy_bucket", "increase_weight"}
<1> DEFINE d == r.strategy_bucket_weights
<1>1. r.pause_threshold \in Int /\ r.pause_threshold <= 0 /\ d \in [DOMAIN d -> Int]
  BY RequestAssumption
<1>2. PICK t \in Meaningful(d) :
         a = IF d[t] <= r.pause_threshold
             THEN Action("strategy_bucket", t, "pause_strategy_bucket", d[t], FALSE, "high")
             ELSE Action("strategy_bucket", t,
                         IF d[t] > 0 THEN "increase_weight" ELSE "decrease_weight",
                         d[t], AutoApplyAllowed(r), Priority(d[t]))
  BY DEF BucketActions
<1>3. t \in DOMAIN d /\ d[t] \in Int /\ Abs(d[t]) > 1
  BY <1>1, <1>2 DEF Meaningful, MIN_ACTION_DELTA
<1>4. CASE d[t] <= r.pause_threshold
  <2>1. /\ a.target_type = "strategy_bucket" /\ a.target = t /\ a.delta = d[t]
        /\ a.action = "pause_strategy_bucket" /\ a.auto_apply = FALSE
    BY <1>2, <1>4 DEF Action
  <2>2. d[t] < 0
    BY <1>1, <1>3, <1>4 DEF Abs
  <2> QED
    BY <1>2, <1>3, <2>1, <2>2
<1>5. CASE ~(d[t] <= r.pause_threshold)
  <2>1. /\ a.target_type = "strategy_bucket" /\ a.target = t /\ a.delta = d[t]
        /\ a.action = IF d[t] > 0 THEN "increase_weight" ELSE "decrease_weight"
    BY <1>2, <1>5 DEF Action
  <2>2. a.auto_apply = AutoApplyAllowed(r)
    BY <1>2, <1>5, Zenon DEF Action
  <2>3. d[t] > 0 \/ d[t] < 0
    BY <1>3 DEF Abs
  <2>4. a.auto_apply => AutoApplyAllowed(r) /\ a.delta > r.pause_threshold
    <3>1. a.delta > r.pause_threshold
      BY <1>1, <1>3, <1>5, <2>1
    <3> QED
      BY <2>2, <3>1, Zenon
  <2>5. a.delta < 0 <=> a.action \in {"decrease_weight", "pause_strategy_bucket"}
    BY <1>3, <2>1, <2>3
  <2> QED
    BY <1>2, <1>3, <2>1, <2>4, <2>5
<1> QED
  BY <1>4, <1>5

\* What the actions on symbols look like.
LEMMA SymbolActionsOf ==
    ASSUME NEW r \in PolicyRequests, NEW a \in SymbolActions(r)
    PROVE  LET d == r.asset_biases IN
           /\ a.target \in Meaningful(d) /\ a.delta = d[a.target] /\ a.delta \in Int
           /\ a.target_type = "symbol"
           /\ a.auto_apply => AutoApplyAllowed(r)
           /\ a.delta < 0 <=> a.action = "decrease_bias"
           /\ a.action \in {"decrease_bias", "increase_bias"}
<1> DEFINE d == r.asset_biases
<1>1. d \in [DOMAIN d -> Int]
  BY RequestAssumption
<1>2. PICK t \in Meaningful(d) :
         a = Action("symbol", t, IF d[t] > 0 THEN "increase_bias" ELSE "decrease_bias",
                    d[t], AutoApplyAllowed(r), Priority(d[t]))
  BY DEF SymbolActions
<1>3. t \in DOMAIN d /\ d[t] \in Int /\ Abs(d[t]) > 1
  BY <1>1, <1>2 DEF Meaningful, MIN_ACTION_DELTA
<1>4. /\ a.target_type = "symbol" /\ a.target = t /\ a.delta = d[t]
      /\ a.action = IF d[t] > 0 THEN "increase_bias" ELSE "decrease_bias"
  BY <1>2 DEF Action
<1>5. a.auto_apply = AutoApplyAllowed(r)
  BY <1>2, Zenon DEF Action
<1>6. d[t] > 0 \/ d[t] < 0
  BY <1>3 DEF Abs
<1>7. a.delta < 0 <=> a.action = "decrease_bias"
  BY <1>3, <1>4, <1>6
<1>8. a.auto_apply => AutoApplyAllowed(r)
  BY <1>5, Zenon
<1> QED
  BY <1>2, <1>3, <1>4, <1>7, <1>8

\* What the actions on risks look like: none is applied without review.
LEMMA RiskActionsOf ==
    ASSUME NEW r \in PolicyRequests, NEW a \in RiskActions(r)
    PROVE  LET d == r.risk IN
           /\ a.target \in Meaningful(d) /\ a.delta = d[a.target] /\ a.delta \in Int
           /\ a.target_type = "risk"
           /\ a.auto_apply = FALSE
           /\ a.delta < 0 <=> a.action = "reduce_risk"
           /\ a.action \in {"reduce_risk", "keep_observing"}
<1> DEFINE d == r.risk
<1>1. d \in [DOMAIN d -> Int]
  BY RequestAssumption
<1>2. PICK t \in Meaningful(d) :
         a = IF d[t] < 0
             THEN Action("risk", t, "reduce_risk", d[t], FALSE,
                         IF d[t] <= HIGH_PRIORITY_RISK_REDUCTION THEN "high" ELSE "medium")
             ELSE Action("risk", t, "keep_observing", d[t], FALSE, "low")
  BY DEF RiskActions
<1>3. t \in DOMAIN d /\ d[t] \in Int
  BY <1>1, <1>2 DEF Meaningful
<1>4. /\ a.target_type = "risk" /\ a.target = t /\ a.delta = d[t] /\ a.auto_apply = FALSE
      /\ a.action = IF d[t] < 0 THEN "reduce_risk" ELSE "keep_observing"
  <2>1. CASE d[t] < 0
    BY <1>2, <2>1 DEF Action
  <2>2. CASE ~(d[t] < 0)
    BY <1>2, <2>2 DEF Action
  <2> QED
    BY <2>1, <2>2
<1> QED
  BY <1>2, <1>3, <1>4

\* Every group has one action for each target whose delta is worth one.
LEMMA ActionPerTarget ==
    ASSUME NEW r
    PROVE  /\ \A t \in Meaningful(r.strategy_bucket_weights) :
                 \E a \in BucketActions(r) : a.target = t
           /\ \A a, b \in BucketActions(r) : a.target = b.target => a = b
           /\ \A t \in Meaningful(r.asset_biases) : \E a \in SymbolActions(r) : a.target = t
           /\ \A a, b \in SymbolActions(r) : a.target = b.target => a = b
           /\ \A t \in Meaningful(r.risk) : \E a \in RiskActions(r) : a.target = t
           /\ \A a, b \in RiskActions(r) : a.target = b.target => a = b
<1>1. /\ \A t \in Meaningful(r.strategy_bucket_weights) :
            \E a \in BucketActions(r) : a.target = t
      /\ \A a, b \in BucketActions(r) : a.target = b.target => a = b
  <2> DEFINE d == r.strategy_bucket_weights
             act(t) == IF d[t] <= r.pause_threshold
                       THEN Action("strategy_bucket", t, "pause_strategy_bucket", d[t], FALSE,
                                   "high")
                       ELSE Action("strategy_bucket", t,
                                   IF d[t] > 0 THEN "increase_weight" ELSE "decrease_weight",
                                   d[t], AutoApplyAllowed(r), Priority(d[t]))
  <2>1. BucketActions(r) = {act(t) : t \in Meaningful(d)}
    BY DEF BucketActions
  <2>2. \A t : act(t).target = t
    BY DEF Action
  <2> HIDE DEF act
  <2> QED
    BY <2>1, <2>2
<1>2. /\ \A t \in Meaningful(r.asset_biases) : \E a \in SymbolActions(r) : a.target = t
      /\ \A a, b \in SymbolActions(r) : a.target = b.target => a = b
  <2> DEFINE d == r.asset_biases
             act(t) == Action("symbol", t,
                              IF d[t] > 0 THEN "increase_bias" ELSE "decrease_bias",
                              d[t], AutoApplyAllowed(r), Priority(d[t]))
  <2>1. SymbolActions(r) = {act(t) : t \in Meaningful(d)}
    BY DEF SymbolActions
  <2>2. \A t : act(t).target = t
    BY DEF Action
  <2> HIDE DEF act
  <2> QED
    BY <2>1, <2>2
<1>3. /\ \A t \in Meaningful(r.risk) : \E a \in RiskActions(r) : a.target = t
      /\ \A a, b \in RiskActions(r) : a.target = b.target => a = b
  <2> DEFINE d == r.risk
             act(t) == IF d[t] < 0
                       THEN Action("risk", t, "reduce_risk", d[t], FALSE,
                                   IF d[t] <= HIGH_PRIORITY_RISK_REDUCTION THEN "high"
                                   ELSE "medium")
                       ELSE Action("risk", t, "keep_observing", d[t], FALSE, "low")
  <2>1. RiskActions(r) = {act(t) : t \in Meaningful(d)}
    BY DEF RiskActions
  <2>2. \A t : act(t).target = t
    BY DEF Action
  <2> HIDE DEF act
  <2> QED
    BY <2>1, <2>2
<1> QED
  BY <1>1, <1>2, <1>3

\* An action with all its fields.
Shaped(a) ==
    \E type, target, action, delta, auto, priority :
        a = Action(type, target, action, delta, auto, priority)

\* Whatever the three loops and the guardrail propose is one.
LEMMA ProposedShaped ==
    ASSUME NEW r, NEW a \in ProposedActions(r)
    PROVE  Shaped(a)
<1>1. CASE a \in BucketActions(r)
  BY <1>1, Zenon DEF BucketActions, Shaped
<1>2. CASE a \in SymbolActions(r)
  BY <1>2, Zenon DEF SymbolActions, Shaped
<1>3. CASE a \in RiskActions(r)
  BY <1>3, Zenon DEF RiskActions, Shaped
<1>4. CASE a = ReviewAction
  BY <1>4, Zenon DEF ReviewAction, Shaped
<1> QED
  BY <1>1, <1>2, <1>3, <1>4 DEF ProposedActions

\* The action as it is answered: without confidence nothing is applied.
Final(r, a) ==
    IF r.confidence_score >= r.min_confidence_to_apply THEN a
    ELSE [a EXCEPT !.auto_apply = FALSE]

\* The last loop of curate_performance_policy changes auto_apply only.
LEMMA FinalFields ==
    ASSUME NEW r, NEW a, Shaped(a)
    PROVE  /\ Final(r, a).target_type = a.target_type
           /\ Final(r, a).target = a.target
           /\ Final(r, a).action = a.action
           /\ Final(r, a).delta = a.delta
           /\ Final(r, a).auto_apply =>
                 a.auto_apply /\ r.confidence_score >= r.min_confidence_to_apply
<1>1. PICK type, target, action, delta, auto, priority :
         a = Action(type, target, action, delta, auto, priority)
  BY DEF Shaped
<1>2. CASE r.confidence_score >= r.min_confidence_to_apply
  BY <1>2 DEF Final
<1>3. CASE ~(r.confidence_score >= r.min_confidence_to_apply)
  <2>1. Final(r, a) = Action(type, target, action, delta, FALSE, priority)
    BY <1>1, <1>3 DEF Final, Action
  <2> QED
    BY <1>1, <2>1 DEF Action
<1> QED
  BY <1>2, <1>3

\* curate_performance_policy: nothing while Learning_Agent is warming up, otherwise
\* the proposed actions, or the one that says that there is none.
LEMMA CuratedActions ==
    ASSUME NEW r
    PROVE  LET p == CuratePerformancePolicy(r)
               final == {Final(r, a) : a \in ProposedActions(r)}
           IN \/ p.actions = {} /\ p.curation_state = "observation_only"
              \/ /\ p.curation_state = IF HumanReviewRequired(r) THEN "review_required"
                                       ELSE "approved_for_review"
                 /\ p.actions = IF final = {} THEN {ObserveAction} ELSE final
<1> DEFINE final == {Final(r, a) : a \in ProposedActions(r)}
           shown == IF final = {} THEN {ObserveAction} ELSE final
           state == IF HumanReviewRequired(r) THEN "review_required" ELSE "approved_for_review"
<1>1. CuratePerformancePolicy(r) =
         IF r.learning_state \in {"warmup", "insufficient_data"}
         THEN [curation_state |-> "observation_only", actions |-> {}]
         ELSE [curation_state |-> state, actions |-> shown]
  BY Zenon DEF CuratePerformancePolicy, Final
<1> HIDE DEF shown, state
<1>2. CASE r.learning_state \in {"warmup", "insufficient_data"}
  BY <1>1, <1>2
<1>3. CASE ~(r.learning_state \in {"warmup", "insufficient_data"})
  <2>1. /\ CuratePerformancePolicy(r).curation_state = state
        /\ CuratePerformancePolicy(r).actions = shown
    BY <1>1, <1>3
  <2> QED
    BY <2>1, Zenon DEF state, shown
<1> QED
  BY <1>2, <1>3

\* What is applied without review was allowed by the guardrails.
LEMMA AutoApplyGuardrails ==
    ASSUME NEW r, AutoApplyAllowed(r)
    PROVE  /\ {"auto_apply", "requires_human_review"} \subseteq DOMAIN r.guardrails
           /\ r.confidence_score >= r.min_confidence_to_apply
           /\ ~HumanReviewRequired(r)
<1>1. "auto_apply" \in DOMAIN r.guardrails
  BY DEF AutoApplyAllowed, Guardrail
<1>2. "requires_human_review" \in DOMAIN r.guardrails
  BY DEF AutoApplyAllowed, HumanReviewRequired, Guardrail
<1> QED
  BY <1>1, <1>2 DEF AutoApplyAllowed

\* Nothing is applied without review unless Learning_Agent said so, and no pause and
\* no change of a risk (AutoApplyIsCleared), for every policy it may send.
THEOREM AutoApplyIsAlwaysCleared == Spec => []AutoApplyIsCleared
<1>1. ASSUME AdviceInv PROVE AutoApplyIsCleared
  <2> DEFINE p == CuratePerformancePolicy(request)
  <2> SUFFICES ASSUME answer.kind = "policy", NEW b \in answer.response.actions, b.auto_apply
               PROVE  /\ {"auto_apply", "requires_human_review"} \subseteq DOMAIN request.guardrails
                      /\ request.confidence_score >= request.min_confidence_to_apply
                      /\ answer.response.curation_state = "approved_for_review"
                      /\ b.target_type \in {"strategy_bucket", "symbol"}
                      /\ b.target_type = "strategy_bucket" => b.delta > request.pause_threshold
    BY DEF AutoApplyIsCleared
  <2>1. request \in PolicyRequests /\ answer.response = p
    BY <1>1 DEF AdviceInv, Answered
  <2> HIDE DEF p
  <2>2. /\ p.curation_state = IF HumanReviewRequired(request) THEN "review_required"
                              ELSE "approved_for_review"
        /\ b = ObserveAction \/ \E a \in ProposedActions(request) : b = Final(request, a)
    <3> DEFINE final == {Final(request, a) : a \in ProposedActions(request)}
               state == IF HumanReviewRequired(request) THEN "review_required"
                        ELSE "approved_for_review"
    <3>1. \/ p.actions = {}
          \/ p.curation_state = state /\ p.actions = IF final = {} THEN {ObserveAction} ELSE final
      BY CuratedActions, Zenon DEF p
    <3>2. b \in p.actions
      BY <2>1
    <3> HIDE DEF final, state
    <3>3. p.curation_state = state /\ (b = ObserveAction \/ b \in final)
      BY <3>1, <3>2
    <3> QED
      BY <3>3, Zenon DEF final, state
  <2>3. b # ObserveAction
    <3>1. ObserveAction.auto_apply = FALSE
      BY DEF ObserveAction, Action
    <3> QED
      BY <3>1
  <2>4. PICK a \in ProposedActions(request) : b = Final(request, a)
    BY <2>2, <2>3
  <2>5. /\ b.target_type = a.target_type /\ b.delta = a.delta
        /\ a.auto_apply
    BY <2>4, ProposedShaped, FinalFields
  <2>6. /\ AutoApplyAllowed(request) /\ a.target_type \in {"strategy_bucket", "symbol"}
        /\ a.target_type = "strategy_bucket" => a.delta > request.pause_threshold
    <3>1. CASE a \in BucketActions(request)
      BY <2>1, <2>5, <3>1, BucketActionsOf
    <3>2. CASE a \in SymbolActions(request)
      BY <2>1, <2>5, <3>2, SymbolActionsOf
    <3>3. CASE a \in RiskActions(request)
      BY <2>1, <2>5, <3>3, RiskActionsOf
    <3>4. CASE a = ReviewAction
      <4>1. ReviewAction.auto_apply = FALSE
        BY DEF ReviewAction, Action
      <4> QED
        BY <2>5, <3>4, <4>1
    <3> QED
      BY <3>1, <3>2, <3>3, <3>4 DEF ProposedActions
  <2> QED
    BY <2>1, <2>2, <2>5, <2>6, AutoApplyGuardrails
<1> QED
  BY <1>1, AnswersOfRequests, PTL

\* The directions that lower something.
Lowering == {"decrease_weight", "pause_strategy_bucket", "decrease_bias", "reduce_risk"}

\* What is answered for a target of a group.
ActionsFor(r, type, t) ==
    {a \in CuratePerformancePolicy(r).actions : a.target_type = type /\ a.target = t}

\* The target t of a group is accounted for.
Accounted(r, type, d, t) ==
    IF Abs(d[t]) <= 1 THEN ActionsFor(r, type, t) = {}
    ELSE /\ Cardinality(ActionsFor(r, type, t)) = 1
         /\ \A a \in ActionsFor(r, type, t) :
               a.delta = d[t] /\ (d[t] < 0 <=> a.action \in Lowering)

\* G are the actions that one of the loops proposes for the deltas d.
Proposes(r, type, d, G) ==
    /\ type # "guardrail" /\ d \in [DOMAIN d -> Int]
    /\ \A a \in ProposedActions(r) : a.target_type = type => a \in G
    /\ G \subseteq ProposedActions(r)
    /\ \A a \in G : /\ a.target_type = type
                    /\ a.target \in Meaningful(d) /\ a.delta = d[a.target]
                    /\ a.delta < 0 <=> a.action \in Lowering
    /\ \A t \in Meaningful(d) : \E a \in G : a.target = t
    /\ \A a, b \in G : a.target = b.target => a = b

\* A group is accounted for if its loop has one action per delta.
LEMMA GroupAccounted ==
    ASSUME NEW r, CuratePerformancePolicy(r).curation_state # "observation_only",
           NEW type, NEW d, NEW G, Proposes(r, type, d, G), NEW t \in DOMAIN d
    PROVE  Accounted(r, type, d, t)
<1> DEFINE p == CuratePerformancePolicy(r)
           final == {Final(r, a) : a \in ProposedActions(r)}
<1>1. p.actions = IF final = {} THEN {ObserveAction} ELSE final
  BY CuratedActions, Zenon
<1>2. ObserveAction.target_type = "guardrail"
  BY DEF ObserveAction, Action
<1>3. ASSUME NEW b \in ActionsFor(r, type, t)
      PROVE  \E a \in G : a.target = t /\ b = Final(r, a)
  <2>1. b \in p.actions /\ b.target_type = type /\ b.target = t
    BY <1>3 DEF ActionsFor
  <2>2. type # "guardrail"
    BY DEF Proposes
  <2>3. b # ObserveAction
    BY <1>2, <2>1, <2>2
  <2> HIDE DEF p
  <2>4. b \in final
    <3> HIDE DEF final
    <3> QED
      BY <1>1, <2>1, <2>3
  <2>5. PICK a \in ProposedActions(r) : b = Final(r, a)
    BY <2>4
  <2>6. a.target_type = type /\ a.target = t
    BY <2>1, <2>5, ProposedShaped, FinalFields
  <2> QED
    BY <2>5, <2>6 DEF Proposes
<1>4. ASSUME NEW a \in G, a.target = t
      PROVE  Final(r, a) \in ActionsFor(r, type, t)
  <2>1. a \in ProposedActions(r) /\ a.target_type = type
    BY DEF Proposes
  <2>2. Final(r, a) \in final
    BY <2>1
  <2>3. Final(r, a) \in p.actions
    <3> HIDE DEF final, p
    <3> QED
      BY <1>1, <2>2
  <2>4. Final(r, a).target_type = type /\ Final(r, a).target = t
    BY <1>4, <2>1, ProposedShaped, FinalFields
  <2> QED
    BY <2>3, <2>4 DEF ActionsFor
<1> HIDE DEF p, final
<1>5. d[t] \in Int
  BY DEF Proposes
<1>6. t \in Meaningful(d) <=> ~(Abs(d[t]) <= 1)
  BY <1>5 DEF Meaningful, MIN_ACTION_DELTA, Abs
<1>7. CASE Abs(d[t]) <= 1
  <2>1. \A a \in G : a.target # t
    BY <1>6, <1>7 DEF Proposes
  <2>2. ActionsFor(r, type, t) = {}
    BY <1>3, <2>1
  <2> QED
    BY <1>7, <2>2 DEF Accounted
<1>8. CASE ~(Abs(d[t]) <= 1)
  <2>1. PICK a \in G : a.target = t
    BY <1>6, <1>8 DEF Proposes
  <2>2. \A b \in G : b.target = t => b = a
    BY <2>1 DEF Proposes
  <2>3. ActionsFor(r, type, t) = {Final(r, a)}
    BY <1>3, <1>4, <2>1, <2>2
  <2>4. Cardinality(ActionsFor(r, type, t)) = 1
    BY <2>3, FS_Singleton
  <2>5. a.delta = d[t] /\ (d[t] < 0 <=> a.action \in Lowering)
    BY <2>1 DEF Proposes
  <2>6. Final(r, a).delta = a.delta /\ Final(r, a).action = a.action
    <3>1. a \in ProposedActions(r)
      BY <2>1 DEF Proposes
    <3> QED
      BY <3>1, ProposedShaped, FinalFields
  <2> QED
    BY <1>8, <2>3, <2>4, <2>5, <2>6 DEF Accounted
<1> QED
  BY <1>7, <1>8

\* The loops over buckets, symbols and risks have one action per delta each.
LEMMA LoopsPropose ==
    ASSUME NEW r \in PolicyRequests
    PROVE  /\ Proposes(r, "strategy_bucket", r.strategy_bucket_weights, BucketActions(r))
           /\ Proposes(r, "symbol", r.asset_biases, SymbolActions(r))
           /\ Proposes(r, "risk", r.risk, RiskActions(r))
<1>1. \A a \in BucketActions(r) :
         /\ a.target_type = "strategy_bucket"
         /\ a.target \in Meaningful(r.strategy_bucket_weights)
         /\ a.delta = r.strategy_bucket_weights[a.target]
         /\ a.delta < 0 <=> a.action \in Lowering
  BY BucketActionsOf DEF Lowering
<1>2. \A a \in SymbolActions(r) :
         /\ a.target_type = "symbol"
         /\ a.target \in Meaningful(r.asset_biases) /\ a.delta = r.asset_biases[a.target]
         /\ a.delta < 0 <=> a.action \in Lowering
  BY SymbolActionsOf DEF Lowering
<1>3. \A a \in RiskActions(r) :
         /\ a.target_type = "risk"
         /\ a.target \in Meaningful(r.risk) /\ a.delta = r.risk[a.target]
         /\ a.delta < 0 <=> a.action \in Lowering
  BY RiskActionsOf DEF Lowering
<1>4. ReviewAction.target_type = "guardrail"
  BY DEF ReviewAction, Action
<1>5. ASSUME NEW a \in ProposedActions(r)
      PROVE  a \in BucketActions(r) \cup SymbolActions(r) \cup RiskActions(r) \cup {ReviewAction}
  BY DEF ProposedActions
<1>6. BucketActions(r) \cup SymbolActions(r) \cup RiskActions(r) \subseteq ProposedActions(r)
  BY DEF ProposedActions
<1>7. /\ r.strategy_bucket_weights \in [DOMAIN r.strategy_bucket_weights -> Int]
      /\ r.asset_biases \in [DOMAIN r.asset_biases -> Int]
      /\ r.risk \in [DOMAIN r.risk -> Int]
  BY RequestAssumption
<1>8. Proposes(r, "strategy_bucket", r.strategy_bucket_weights, BucketActions(r))
  <2>1. \A a \in ProposedActions(r) : a.target_type = "strategy_bucket" => a \in BucketActions(r)
    BY <1>2, <1>3, <1>4, <1>5
  <2> QED
    BY <1>1, <1>6, <1>7, <2>1, ActionPerTarget DEF Proposes
<1>9. Proposes(r, "symbol", r.asset_biases, SymbolActions(r))
  <2>1. \A a \in ProposedActions(r) : a.target_type = "symbol" => a \in SymbolActions(r)
    BY <1>1, <1>3, <1>4, <1>5
  <2> QED
    BY <1>2, <1>6, <1>7, <2>1, ActionPerTarget DEF Proposes
<1>10. Proposes(r, "risk", r.risk, RiskActions(r))
  <2>1. \A a \in ProposedActions(r) : a.target_type = "risk" => a \in RiskActions(r)
    BY <1>1, <1>2, <1>4, <1>5
  <2> QED
    BY <1>3, <1>6, <1>7, <2>1, ActionPerTarget DEF Proposes
<1> QED
  BY <1>8, <1>9, <1>10

\* Every delta above the minimum leads to one action in its direction, every other
\* one to none (DeltasAccounted), whatever the policy.
THEOREM DeltasAreAccounted == Spec => []DeltasAccounted
<1>1. ASSUME AdviceInv PROVE DeltasAccounted
  <2> SUFFICES ASSUME answer.kind = "policy",
                      answer.response.curation_state # "observation_only"
               PROVE  DeltasAccounted
    BY DEF DeltasAccounted
  <2>1. /\ request \in PolicyRequests /\ answer.response = CuratePerformancePolicy(request)
        /\ CuratePerformancePolicy(request).curation_state # "observation_only"
    BY <1>1 DEF AdviceInv, Answered
  <2>2. answer.response.actions # {}
    <3> DEFINE final == {Final(request, a) : a \in ProposedActions(request)}
    <3>1. CuratePerformancePolicy(request).actions =
              IF final = {} THEN {ObserveAction} ELSE final
      BY <2>1, CuratedActions, Zenon
    <3> HIDE DEF final
    <3> QED
      BY <2>1, <3>1
  <2>3. /\ \A t \in DOMAIN request.strategy_bucket_weights :
              Accounted(request, "strategy_bucket", request.strategy_bucket_weights, t)
        /\ \A t \in DOMAIN request.asset_biases :
              Accounted(request, "symbol", request.asset_biases, t)
        /\ \A t \in DOMAIN request.risk : Accounted(request, "risk", request.risk, t)
    BY <2>1, LoopsPropose, GroupAccounted
  <2> DEFINE groups == [strategy_bucket |-> request.strategy_bucket_weights,
                        symbol |-> request.asset_biases, risk |-> request.risk]
  <2>4. ASSUME NEW type \in {"strategy_bucket", "symbol", "risk"}, NEW t \in DOMAIN groups[type]
        PROVE  Accounted(request, type, groups[type], t)
    BY <2>3, <2>4
  <2> HIDE DEF groups
  <2>5. \A type \in {"strategy_bucket", "symbol", "risk"} : \A t \in DOMAIN groups[type] :
           LET for == {a \in answer.response.actions : a.target_type = type /\ a.target = t} IN
           IF Abs(groups[type][t]) <= 1 THEN for = {}
           ELSE /\ Cardinality(for) = 1
                /\ \A a \in for : /\ a.delta = groups[type][t]
                                  /\ groups[type][t] < 0 <=> a.action \in Lowering
    BY <2>1, <2>4, Zenon DEF Accounted, ActionsFor
  <2> QED
    BY <2>2, <2>5, Zenon DEF DeltasAccounted, Lowering, groups
<1> QED
  BY <1>1, AnswersOfRequests, PTL

-----------------------------------------------------------------------------
(* The recommendation                                                      *)

\* The smaller and the greater of two numbers.
LEMMA MinMaxOf ==
    ASSUME NEW a \in Int, NEW b \in Int
    PROVE  /\ Min({a, b}) = IF a <= b THEN a ELSE b
           /\ Max({a, b}) = IF a >= b THEN a ELSE b
BY DEF Min, Max

\* The score with its cap, from the base that the ranking or the fallback gives.
ScoreFrom(base, tested, champion) ==
    LET capped(n) == IF n <= 100 THEN n ELSE 100
        first == IF tested THEN capped(base + 5) ELSE base
        total == IF champion THEN capped(first + 3) ELSE first
    IN IF capped(total) >= 0 THEN capped(total) ELSE 0

\* The base of the score.
Base(s, r, ranking) ==
    IF s.skill_id \in DOMAIN ranking /\ ranking[s.skill_id] # 0 THEN ranking[s.skill_id]
    ELSE FallbackScore(s, r)

\* The rankings of Database_Agent give numbers.
LEMMA RankingType ==
    ASSUME NEW ranking \in Rankings, NEW i \in DOMAIN ranking
    PROVE  ranking[i] \in Int
<1>1. PICK known \in SUBSET Ids : ranking \in [known -> Scores]
  BY DEF Rankings
<1> QED
  BY <1>1, AdvisoryAssumption

\* The base of the score is a number, whether the ranking has the skill or not.
LEMMA BaseType ==
    ASSUME NEW s, NEW r, NEW ranking \in Rankings
    PROVE  Base(s, r, ranking) \in Int
<1>1. FallbackScore(s, r) \in Int
  <2> DEFINE n == 50 + Points(r.tags \cap s.tags # {}, 10)
                     + Points(Fits(r.strategy_bucket, s, "strategy_bucket"), 10)
                     + Points(Fits(r.market_regime, s, "regime"), 10)
                     + Points(Champion(s), 5)
  <2>1. n \in Int
    BY DEF Points
  <2>2. FallbackScore(s, r) = Min({80, n})
    BY DEF FallbackScore
  <2> HIDE DEF n
  <2> QED
    BY <2>1, <2>2, MinMaxOf
<1>2. CASE s.skill_id \in DOMAIN ranking /\ ranking[s.skill_id] # 0
  BY <1>2, RankingType DEF Base
<1>3. CASE ~(s.skill_id \in DOMAIN ranking /\ ranking[s.skill_id] # 0)
  BY <1>1, <1>3 DEF Base
<1> QED
  BY <1>2, <1>3

\* The score of a skill is a number of hundredths.
LEMMA ScoreOf ==
    ASSUME NEW s, NEW r, NEW ranking \in Rankings, NEW passed
    PROVE  /\ Score(s, r, ranking, passed)
                 = ScoreFrom(Base(s, r, ranking), s.skill_id \in passed, Champion(s))
           /\ Score(s, r, ranking, passed) \in 0..100
<1> DEFINE reported == IF s.skill_id \in DOMAIN ranking THEN ranking[s.skill_id] ELSE 0
           base == IF reported = 0 THEN FallbackScore(s, r) ELSE reported
           tested == IF s.skill_id \in passed THEN Min({100, base + 5}) ELSE base
           total == IF Champion(s) THEN Min({100, tested + 3}) ELSE tested
<1>1. Score(s, r, ranking, passed) = Max({0, Min({100, total})})
  BY DEF Score
<1>2. base = Base(s, r, ranking)
  BY DEF Base
<1>3. base \in Int
  BY <1>2, BaseType
<1> HIDE DEF base
<1> DEFINE capped(n) == IF n <= 100 THEN n ELSE 100
<1>4. \A n \in Int : Min({100, n}) = capped(n)
  BY MinMaxOf
<1>5. tested = IF s.skill_id \in passed THEN capped(base + 5) ELSE base
  BY <1>3, <1>4
<1>6. tested \in Int
  BY <1>3, <1>5
<1> HIDE DEF tested
<1>7. total = IF Champion(s) THEN capped(tested + 3) ELSE tested
  BY <1>4, <1>6
<1>8. total \in Int
  BY <1>6, <1>7
<1> HIDE DEF total
<1>9. Min({100, total}) = capped(total) /\ capped(total) \in Int
  BY <1>4, <1>8
<1>10. Max({0, Min({100, total})}) = IF capped(total) >= 0 THEN capped(total) ELSE 0
  <2> DEFINE m == Min({100, total})
  <2>1. m \in Int
    BY <1>9
  <2>2. Max({0, m}) = IF m >= 0 THEN m ELSE 0
    <3> HIDE DEF m
    <3> QED
      BY <2>1, MinMaxOf
  <2> QED
    BY <1>9, <2>2
<1>11. Score(s, r, ranking, passed)
          = ScoreFrom(base, s.skill_id \in passed, Champion(s))
  BY <1>1, <1>5, <1>7, <1>10 DEF ScoreFrom
<1>12. Score(s, r, ranking, passed) \in 0..100
  BY <1>1, <1>8, <1>10
<1> QED
  BY <1>2, <1>11, <1>12

\* More evidence makes the score higher, up to the cap.
LEMMA EvidenceScores ==
    ASSUME NEW a \in Int, NEW b \in Int, b > 0, a > b,
           NEW tested \in BOOLEAN, NEW champion \in BOOLEAN
    PROVE  \/ ScoreFrom(a, tested, champion) > ScoreFrom(b, tested, champion)
           \/ ScoreFrom(b, tested, champion) = 100
BY DEF ScoreFrom

\* Four numbers are a key.
LEMMA QuadKey ==
    ASSUME NEW a \in Int, NEW b \in Int, NEW c \in Int, NEW d \in Int
    PROVE  <<a, b, c, d>> \in Keys(4)
<1> DEFINE u == <<a, b, c, d>>
<1>1. u \in Seq(Int) /\ Len(u) = 4
  OBVIOUS
<1> HIDE DEF u
<1>2. u \in Keys(4)
  BY <1>1, SeqKey
<1> QED
  BY <1>2 DEF u

\* The key of a recommendation is one: no two skills were created together.
LEMMA RecommendationKey ==
    ASSUME NEW L, Listing(L), NEW r, NEW ranking \in Rankings, NEW passed,
           NEW G, G \subseteq L,
           NEW key, key = [s \in G |-> SortKey(s, Score(s, r, ranking, passed))]
    PROVE  /\ IsKey(key, G, 4)
           /\ \A s \in G : /\ key[s][1] = -Points(Champion(s), 1)
                           /\ key[s][2] = -Score(s, r, ranking, passed)
<1>1. ASSUME NEW s \in G
      PROVE  /\ s.version \in Int /\ s.created = Catalog[s.skill_id].created
             /\ s.created \in Int /\ s.skill_id \in Ids
  <2>1. s.skill_id \in Ids /\ s = Record(s.skill_id, [stage |-> s.deployment_stage])
    BY DEF Listing
  <2>2. /\ s.created = Catalog[s.skill_id].created
        /\ s.version = Catalog[s.skill_id].version
    BY <2>1 DEF Record
  <2> QED
    BY <2>1, <2>2, AdvisoryAssumption
<1>2. ASSUME NEW s \in G
      PROVE  /\ key[s] \in Keys(4)
             /\ key[s][1] = -Points(Champion(s), 1)
             /\ key[s][2] = -Score(s, r, ranking, passed)
             /\ key[s][4] = -s.created
  <2> DEFINE n == Score(s, r, ranking, passed)
             c == Points(Champion(s), 1)
  <2>1. n \in 0..100
    BY ScoreOf
  <2>2. c \in Int
    BY DEF Points
  <2>3. key[s] = <<-c, -n, -s.version, -s.created>>
    BY DEF SortKey
  <2> HIDE DEF n, c
  <2>4. /\ -c \in Int /\ -n \in Int /\ -s.version \in Int /\ -s.created \in Int
    BY <1>1, <2>1, <2>2
  <2>5. key[s] \in Keys(4)
    <3> DEFINE k == key[s]
    <3>1. k = <<-c, -n, -s.version, -s.created>>
      BY <2>3
    <3> HIDE DEF k
    <3>2. k \in Keys(4)
      BY <2>4, <3>1, QuadKey
    <3> QED
      BY <3>2 DEF k
  <2>6. key[s][1] = -c /\ key[s][2] = -n /\ key[s][4] = -s.created
    BY <2>3
  <2> QED
    BY <2>5, <2>6 DEF n, c
<1>3. ASSUME NEW s \in G, NEW t \in G, key[s] = key[t]
      PROVE  s = t
  <2>1. -s.created = -t.created
    BY <1>2, <1>3
  <2>2. s.created = t.created
    BY <1>1, <2>1
  <2>3. s.skill_id = t.skill_id
    <3>1. \A i, j \in Ids : Catalog[i].created = Catalog[j].created => i = j
      BY AdvisoryAssumption
    <3>2. Catalog[s.skill_id].created = Catalog[t.skill_id].created
      BY <1>1, <2>2
    <3> QED
      BY <1>1, <3>1, <3>2
  <2> QED
    BY <2>3 DEF Listing
<1> QED
  BY <1>2, <1>3 DEF IsKey

\* What recommend_skills answers: the skills of q, which are the first c of those
\* that pass the gate.
Recommends(p, q, c, key, M, G, r, ranking, passed) ==
    /\ IsKey(key, G, 4) /\ Leading(q, c, key, G)
    /\ IsFiniteSet(M) /\ IsFiniteSet(G) /\ G \subseteq M
    /\ c = IF r.top_k <= Cardinality(G) THEN r.top_k ELSE Cardinality(G)
    /\ \A s \in G : /\ key[s][1] = -Points(Champion(s), 1)
                    /\ key[s][2] = -Score(s, r, ranking, passed)
    /\ p.state \in {"no_approved_skills", "no_backtest_passed_skills"} <=> G = {}
    /\ p.rejected_count = (Cardinality(M) - Cardinality(G)) + (Cardinality(G) - c)
    /\ p.recommended = [i \in 1..c |-> [skill_id |-> q[i].skill_id,
                                        score |-> Score(q[i], r, ranking, passed)]]

\* recommend_skills, from the match to the cut.
LEMMA RecommendSkillsOf ==
    ASSUME NEW L, Listing(L), NEW r, r.top_k \in Nat, NEW ranking \in Rankings, NEW passed
    PROVE  LET M == Matching(L, r) IN
           \E q, c, key : Recommends(RecommendSkills(L, r, ranking, passed), q, c, key, M,
                                     Gated(M, r, passed), r, ranking, passed)
<1> DEFINE M == Matching(L, r)
           G == Gated(M, r, passed)
           key == [s \in G |-> SortKey(s, Score(s, r, ranking, passed))]
           q == FirstN(Sorted(key), r.top_k)
           c == IF r.top_k <= Cardinality(G) THEN r.top_k ELSE Cardinality(G)
           state == CASE M = {} -> "no_approved_skills"
                      [] M # {} /\ G = {} -> "no_backtest_passed_skills"
                      [] OTHER -> IF DOMAIN ranking # {} THEN "ranked" ELSE "fallback_no_database"
           shown == [i \in DOMAIN q |-> [skill_id |-> q[i].skill_id,
                                         score |-> Score(q[i], r, ranking, passed)]]
           p == RecommendSkills(L, r, ranking, passed)
<1>1. /\ p.state = state /\ p.rejected_count = Rejected(M, G, q)
      /\ p.recommended = shown
  BY DEF RecommendSkills
<1>2. M \subseteq L /\ G \subseteq M
  BY DEF Matching, Gated
<1>3. IsFiniteSet(M) /\ IsFiniteSet(G)
  BY <1>2, FS_Subset DEF Listing
<1>4. state \in {"no_approved_skills", "no_backtest_passed_skills"} <=> G = {}
  <2>1. CASE M = {}
    BY <1>2, <2>1
  <2>2. CASE M # {} /\ G = {}
    BY <2>2
  <2>3. CASE M # {} /\ G # {}
    BY <2>3
  <2> HIDE DEF state
  <2> QED
    BY <1>2, <2>1, <2>2, <2>3
<1> HIDE DEF state, M, G, p
<1>5. /\ IsKey(key, G, 4)
      /\ \A s \in G : /\ key[s][1] = -Points(Champion(s), 1)
                      /\ key[s][2] = -Score(s, r, ranking, passed)
  <2>1. G \subseteq L /\ key = [s \in G |-> SortKey(s, Score(s, r, ranking, passed))]
    BY <1>2
  <2> HIDE DEF key
  <2> QED
    BY <2>1, RecommendationKey
<1> HIDE DEF key
<1>6. c = IF r.top_k <= Cardinality(G) THEN r.top_k ELSE Cardinality(G)
  OBVIOUS
<1> HIDE DEF c
<1>7. Leading(q, c, key, G)
  BY <1>3, <1>5, <1>6, CutSorted
<1> HIDE DEF q
<1>8. Len(q) = c /\ DOMAIN q = 1..c
  BY <1>7 DEF Leading
<1>9. p.rejected_count = (Cardinality(M) - Cardinality(G)) + (Cardinality(G) - c)
  BY <1>1, <1>8 DEF Rejected
<1>10. p.recommended = [i \in 1..c |-> [skill_id |-> q[i].skill_id,
                                        score |-> Score(q[i], r, ranking, passed)]]
  BY <1>1, <1>8
<1>11. p.state \in {"no_approved_skills", "no_backtest_passed_skills"} <=> G = {}
  BY <1>1, <1>4
<1> HIDE DEF shown
<1>12. Recommends(p, q, c, key, M, G, r, ranking, passed)
  BY <1>2, <1>3, <1>5, <1>6, <1>7, <1>9, <1>10, <1>11 DEF Recommends
<1> QED
  BY <1>12 DEF p, M, G

\* What the invariant says of a recommendation, with its skills and their places.
LEMMA RecommendationAnswer ==
    ASSUME AdviceInv, answer.kind = "recommendation"
    PROVE  LET M == Matching(listed, request) IN
           /\ request.top_k \in Nat \ {0} /\ answer.ranking \in Rankings
           /\ Listing(listed)
           /\ \E q, c, key :
                 Recommends(answer.response, q, c, key, M, Gated(M, request, answer.passed),
                            request, answer.ranking, answer.passed)
<1>1. /\ request \in RecommendRequests /\ answer.ranking \in Rankings
      /\ answer.response = RecommendSkills(listed, request, answer.ranking, answer.passed)
      /\ Listing(listed)
  BY DEF AdviceInv, Answered, Served
<1>2. request.top_k \in Nat \ {0}
  BY <1>1, RequestAssumption
<1> QED
  BY <1>1, <1>2, RecommendSkillsOf

\* Every matching skill is recommended or rejected, once, and none without its
\* backtest where one is required (RecommendationAccounts), for any catalogue and
\* any answer of Database_Agent.
THEOREM RecommendationsAccount == Spec => []RecommendationAccounts
<1>1. ASSUME AdviceInv PROVE RecommendationAccounts
  <2> SUFFICES ASSUME answer.kind = "recommendation" PROVE RecommendationAccounts
    BY DEF RecommendationAccounts
  <2> DEFINE M == Matching(listed, request)
             G == Gated(M, request, answer.passed)
             p == answer.response
             shown == p.recommended
             ids == {shown[i].skill_id : i \in DOMAIN shown}
  <2>1. request.top_k \in Nat \ {0} /\ Listing(listed)
    BY <1>1, RecommendationAnswer
  <2>2. PICK q, c, key : Recommends(p, q, c, key, M, G, request, answer.ranking, answer.passed)
    BY <1>1, RecommendationAnswer
  <2>3. M \subseteq listed /\ \A s \in G : request.require_backtest_passed => s.skill_id \in answer.passed
    BY DEF Matching, Gated
  <2> HIDE DEF M, G, p
  <2>4. /\ Leading(q, c, key, G) /\ IsFiniteSet(M) /\ IsFiniteSet(G) /\ G \subseteq M
        /\ c = IF request.top_k <= Cardinality(G) THEN request.top_k ELSE Cardinality(G)
        /\ p.state \in {"no_approved_skills", "no_backtest_passed_skills"} <=> G = {}
        /\ p.rejected_count = (Cardinality(M) - Cardinality(G)) + (Cardinality(G) - c)
        /\ shown = [i \in 1..c |-> [skill_id |-> q[i].skill_id,
                                    score |-> Score(q[i], request, answer.ranking, answer.passed)]]
    BY <2>2 DEF Recommends
  <2>5. c \in Nat /\ q \in [1..c -> G] /\ \A i, j \in 1..c : q[i] = q[j] => i = j
    BY <2>4 DEF Leading
  <2> HIDE DEF shown
  <2>6. /\ DOMAIN shown = 1..c /\ Len(shown) = c
        /\ \A i \in 1..c : shown[i].skill_id = q[i].skill_id
    BY <2>4, <2>5
  <2>7. ids = {q[i].skill_id : i \in 1..c}
    BY <2>6
  <2>8. Cardinality(ids) = c
    <3> DEFINE f == [i \in 1..c |-> q[i].skill_id]
    <3>1. Range(f) = ids
      BY <2>7 DEF Range
    <3>2. \A x, y \in 1..c : f[x] = f[y] => x = y
      <4>1. \A x \in 1..c : q[x] \in listed /\ f[x] = q[x].skill_id
        BY <2>3, <2>4, <2>5
      <4>2. \A s, t \in listed : s.skill_id = t.skill_id => s = t
        BY <2>1 DEF Listing
      <4> QED
        BY <2>5, <4>1, <4>2
    <3>3. f \in [1..c -> ids]
      BY <2>7
    <3>4. IsFiniteSet(1..c) /\ Cardinality(1..c) = c
      BY <2>5, FS_Interval
    <3> HIDE DEF f, ids
    <3> QED
      BY <3>1, <3>2, <3>3, <3>4, ImageFinite
  <2>9. Cardinality(M) \in Nat /\ Cardinality(G) \in Nat /\ (G = {} <=> Cardinality(G) = 0)
    BY <2>4, FS_CardinalityType, FS_EmptySet
  <2>10. c <= request.top_k /\ (c = 0 <=> G = {})
    BY <2>1, <2>4, <2>9
  <2>11. c + p.rejected_count = Cardinality(M)
    BY <2>4, <2>5, <2>9
  <2>12. ids = {} <=> c = 0
    <3> HIDE DEF ids
    <3>1. CASE c = 0
      BY <2>7, <3>1
    <3>2. CASE c > 0
      <4>1. 1 \in 1..c
        BY <2>5, <3>2
      <4>2. q[1].skill_id \in ids
        BY <2>7, <4>1
      <4> QED
        BY <3>2, <4>2
    <3> QED
      BY <2>5, <3>1, <3>2
  <2>13. request.require_backtest_passed => ids \subseteq answer.passed
    BY <2>3, <2>5, <2>7
  <2> HIDE DEF ids
  <2>14. /\ Cardinality(ids) = Len(shown)
         /\ Len(shown) + p.rejected_count = Cardinality(M)
         /\ Len(shown) <= request.top_k
         /\ request.require_backtest_passed => ids \subseteq answer.passed
         /\ p.state \in {"no_approved_skills", "no_backtest_passed_skills"} <=> ids = {}
    BY <2>4, <2>6, <2>8, <2>10, <2>11, <2>12, <2>13
  <2> QED
    BY <2>14, Zenon DEF RecommendationAccounts, ids, shown, p, M
<1> QED
  BY <1>1, AnswersOfRequests, PTL

\* A recommended skill keeps none with more evidence behind it or out, up to the cap
\* on scores (EvidenceOrders), for any catalogue and any answer of Database_Agent.
THEOREM EvidenceAlwaysOrders == Spec => []EvidenceOrders
<1>1. ASSUME AdviceInv PROVE EvidenceOrders
  <2> DEFINE M == Matching(listed, request)
             G == Gated(M, request, answer.passed)
             p == answer.response
             shown == p.recommended
             score(s) == Score(s, request, answer.ranking, answer.passed)
  <2> SUFFICES ASSUME answer.kind = "recommendation",
                      NEW i \in DOMAIN shown, NEW s \in M, NEW t \in M,
                      shown[i].skill_id = t.skill_id, MoreEvidence(s, t)
               PROVE  \/ \E j \in 1..(i - 1) : shown[j].skill_id = s.skill_id
                      \/ shown[i].score = 100
    BY DEF EvidenceOrders
  <2>1. answer.ranking \in Rankings /\ Listing(listed)
    BY <1>1, RecommendationAnswer
  <2>2. PICK q, c, key : Recommends(p, q, c, key, M, G, request, answer.ranking, answer.passed)
    BY <1>1, RecommendationAnswer
  <2>3. /\ M \subseteq listed
        /\ \A u \in M : u \in G <=> (request.require_backtest_passed => u.skill_id \in answer.passed)
    BY DEF Matching, Gated
  <2> HIDE DEF M, G, p
  <2>4. /\ IsKey(key, G, 4) /\ Leading(q, c, key, G) /\ G \subseteq M
        /\ \A u \in G : key[u][1] = -Points(Champion(u), 1) /\ key[u][2] = -score(u)
        /\ shown = [j \in 1..c |-> [skill_id |-> q[j].skill_id, score |-> score(q[j])]]
    BY <2>2 DEF Recommends
  <2>5. c \in Nat /\ q \in [1..c -> G]
    BY <2>4 DEF Leading
  <2> HIDE DEF shown, score
  <2>6. i \in 1..c /\ \A j \in 1..c : shown[j].skill_id = q[j].skill_id /\ shown[j].score = score(q[j])
    BY <2>4
  <2>7. q[i] = t /\ t \in G
    <3>1. q[i] \in listed /\ t \in listed /\ q[i].skill_id = t.skill_id
      BY <2>3, <2>4, <2>5, <2>6
    <3>2. q[i] = t
      BY <2>1, <3>1 DEF Listing
    <3> QED
      BY <2>5, <2>6, <3>2
  <2>8. s \in G
    BY <2>3, <2>7 DEF MoreEvidence
  <2>9. score(s) > score(t) \/ score(t) = 100
    <3> DEFINE a == answer.ranking[s.skill_id]
               b == answer.ranking[t.skill_id]
               tested == s.skill_id \in answer.passed
    <3>1. a \in Int /\ b \in Int /\ b > 0 /\ a > b
      BY <2>1, RankingType DEF MoreEvidence
    <3>2. Base(s, request, answer.ranking) = a /\ Base(t, request, answer.ranking) = b
      BY <3>1 DEF Base, MoreEvidence
    <3>3. /\ score(s) = ScoreFrom(a, tested, Champion(s))
          /\ score(t) = ScoreFrom(b, t.skill_id \in answer.passed, Champion(t))
      BY <2>1, <3>2, ScoreOf DEF score
    <3>4. (t.skill_id \in answer.passed) = tested /\ Champion(t) = Champion(s)
      BY DEF MoreEvidence, Champion
    <3>5. tested \in BOOLEAN /\ Champion(s) \in BOOLEAN
      BY DEF Champion
    <3>6. \/ ScoreFrom(a, tested, Champion(s)) > ScoreFrom(b, tested, Champion(s))
          \/ ScoreFrom(b, tested, Champion(s)) = 100
      <4> HIDE DEF a, b, tested
      <4> QED
        BY <3>1, <3>5, EvidenceScores
    <3>7. score(t) = ScoreFrom(b, tested, Champion(s))
      BY <3>3, <3>4, Zenon
    <3> HIDE DEF a, b, tested
    <3> QED
      BY <3>3, <3>6, <3>7
  <2>10. CASE score(t) = 100
    BY <2>6, <2>7, <2>10
  <2>11. CASE score(s) > score(t)
    <3>1. score(s) \in Int /\ score(t) \in Int
      <4>1. score(s) \in 0..100 /\ score(t) \in 0..100
        BY <2>1, ScoreOf DEF score
      <4> QED
        BY <4>1
    <3>2. Points(Champion(s), 1) = Points(Champion(t), 1)
      BY DEF MoreEvidence, Points
    <3>3. key[s][1] = key[t][1] /\ key[s][2] < key[t][2]
      BY <2>4, <2>7, <2>8, <2>11, <3>1, <3>2
    <3>4. LexLess(key[s], key[t])
      <4>1. DOMAIN key[s] = 1..4
        BY <2>4, <2>8 DEF IsKey, Keys
      <4>2. 2 \in DOMAIN key[s] /\ \A j \in 1..(2 - 1) : key[s][j] = key[t][j]
        BY <3>3, <4>1
      <4> QED
        BY <3>3, <4>2 DEF LexLess
    <3>5. PICK j \in 1..(i - 1) : q[j] = s
      BY <2>4, <2>6, <2>7, <2>8, <3>4 DEF Leading
    <3>6. j \in 1..c
      BY <2>5, <2>6
    <3> QED
      BY <2>6, <3>5, <3>6
  <2> QED
    BY <2>9, <2>10, <2>11
<1> QED
  BY <1>1, AnswersOfRequests, PTL

-----------------------------------------------------------------------------
(* The diversity of an ensemble                                            *)

\* A finite set that is not empty has a member with the smallest key.
LEMMA SmallestKey ==
    ASSUME NEW S, IsFiniteSet(S), S # {}, NEW n \in Nat, NEW key, IsKey(key, S, n)
    PROVE  \E s \in S : \A t \in S : ~LexLess(key[t], key[s])
<1>1. Cardinality(S) \in Nat /\ Cardinality(S) # 0
  BY FS_CardinalityType, FS_EmptySet
<1>2. 0 \in 0..(Cardinality(S) - 1)
  BY <1>1
<1>3. PICK s \in S : Cardinality(Before(key, s)) = 0
  BY <1>2, Places
<1>4. DOMAIN key = S
  BY DEF IsKey
<1>5. IsFiniteSet(Before(key, s))
  BY <1>4, FS_Subset DEF Before
<1>6. Before(key, s) = {}
  BY <1>3, <1>5, FS_EmptySet
<1> QED
  BY <1>4, <1>6 DEF Before

\* The candidates that come first in their groups.
Leaders(C) == {s \in C : Leads(s, C)}

GroupsOf(S) == {DiversityGroup(s) : s \in S}

\* Candidates with keys that tell them apart.
Keyed(C) ==
    /\ IsFiniteSet(C)
    /\ \A s \in C : SortKeyOf(s) \in Keys(4)
    /\ \A s, t \in C : SortKeyOf(s) = SortKeyOf(t) => s = t

\* Of two candidates one comes first.
LEMMA KeyedOrder ==
    ASSUME NEW C, Keyed(C), NEW s \in C, NEW t \in C, s # t
    PROVE  LexLess(SortKeyOf(s), SortKeyOf(t)) \/ LexLess(SortKeyOf(t), SortKeyOf(s))
<1>1. SortKeyOf(s) \in Keys(4) /\ SortKeyOf(t) \in Keys(4) /\ SortKeyOf(s) # SortKeyOf(t)
  BY DEF Keyed
<1> QED
  BY <1>1, LexTotal

\* Every group has one leader.
LEMMA OneLeader ==
    ASSUME NEW C, Keyed(C)
    PROVE  /\ \A s, t \in Leaders(C) : DiversityGroup(s) = DiversityGroup(t) => s = t
           /\ GroupsOf(Leaders(C)) = GroupsOf(C)
<1>1. ASSUME NEW s \in Leaders(C), NEW t \in Leaders(C), DiversityGroup(s) = DiversityGroup(t),
             s # t
      PROVE  FALSE
  <2>1. s \in C /\ t \in C
    BY DEF Leaders
  <2>2. LexLess(SortKeyOf(s), SortKeyOf(t)) \/ LexLess(SortKeyOf(t), SortKeyOf(s))
    BY <1>1, <2>1, KeyedOrder
  <2> QED
    BY <1>1, <2>1, <2>2 DEF Leaders, Leads
<1>2. ASSUME NEW u \in C
      PROVE  \E s \in Leaders(C) : DiversityGroup(s) = DiversityGroup(u)
  <2> DEFINE S == {s \in C : DiversityGroup(s) = DiversityGroup(u)}
             key == [s \in S |-> SortKeyOf(s)]
  <2>1. IsFiniteSet(S) /\ S # {}
    BY FS_Subset DEF Keyed
  <2>2. IsKey(key, S, 4)
    BY DEF IsKey, Keyed
  <2>3. PICK s \in S : \A t \in S : ~LexLess(key[t], key[s])
    <3> HIDE DEF S, key
    <3> QED
      BY <2>1, <2>2, SmallestKey
  <2>4. \A t \in S : ~LexLess(SortKeyOf(t), SortKeyOf(s))
    BY <2>3
  <2>5. Leads(s, C)
    BY <2>4 DEF Leads
  <2> QED
    BY <2>5 DEF Leaders
<1>3. GroupsOf(Leaders(C)) \subseteq GroupsOf(C)
  BY DEF GroupsOf, Leaders
<1>4. GroupsOf(C) \subseteq GroupsOf(Leaders(C))
  BY <1>2 DEF GroupsOf
<1> QED
  BY <1>1, <1>3, <1>4

\* The groups of a finite set: as many as its members if no two share one.
LEMMA GroupCount ==
    ASSUME NEW S, IsFiniteSet(S)
    PROVE  /\ IsFiniteSet(GroupsOf(S)) /\ Cardinality(GroupsOf(S)) \in Nat
           /\ (\A s, t \in S : DiversityGroup(s) = DiversityGroup(t) => s = t) =>
                 Cardinality(GroupsOf(S)) = Cardinality(S)
<1> DEFINE f == [s \in S |-> DiversityGroup(s)]
           T == GroupsOf(S)
<1>1. f \in [S -> T] /\ Range(f) = GroupsOf(S) /\ \A s \in S : f[s] = DiversityGroup(s)
  BY DEF GroupsOf, Range
<1> HIDE DEF f, T
<1>2. /\ IsFiniteSet(Range(f))
      /\ (\A x, y \in S : f[x] = f[y] => x = y) => Cardinality(Range(f)) = Cardinality(S)
  BY <1>1, ImageFinite
<1>3. IsFiniteSet(GroupsOf(S)) /\ Cardinality(GroupsOf(S)) \in Nat
  BY <1>1, <1>2, FS_CardinalityType
<1>4. ASSUME \A s, t \in S : DiversityGroup(s) = DiversityGroup(t) => s = t
      PROVE  Cardinality(GroupsOf(S)) = Cardinality(S)
  <2>1. \A x, y \in S : f[x] = f[y] => x = y
    BY <1>1, <1>4
  <2> QED
    BY <1>1, <1>2, <2>1
<1> QED
  BY <1>3, <1>4

\* A selection that holds with a candidate all that come before it is diverse.
LEMMA ClosedIsDiverse ==
    ASSUME NEW C, Keyed(C), NEW Q, Q \subseteq C,
           \A u \in Q, s \in C : Comes(s, u, C) => s \in Q
    PROVE  Cardinality(GroupsOf(Q)) =
              IF Cardinality(Q) <= Cardinality(GroupsOf(C)) THEN Cardinality(Q)
              ELSE Cardinality(GroupsOf(C))
<1>1. IsFiniteSet(C) /\ IsFiniteSet(Q) /\ IsFiniteSet(Leaders(C))
  BY FS_Subset DEF Keyed, Leaders
<1>2. Cardinality(Q) \in Nat /\ Cardinality(Leaders(C)) \in Nat
  BY <1>1, FS_CardinalityType
<1>3. Cardinality(GroupsOf(C)) = Cardinality(Leaders(C))
  BY <1>1, OneLeader, GroupCount
<1>4. CASE Q \subseteq Leaders(C)
  <2>1. \A s, t \in Q : DiversityGroup(s) = DiversityGroup(t) => s = t
    BY <1>4, OneLeader
  <2>2. Cardinality(GroupsOf(Q)) = Cardinality(Q)
    BY <1>1, <2>1, GroupCount
  <2>3. Cardinality(Q) <= Cardinality(Leaders(C))
    BY <1>1, <1>4, FS_Subset
  <2> QED
    BY <1>3, <2>2, <2>3
<1>5. CASE ~(Q \subseteq Leaders(C))
  <2>1. PICK u \in Q : ~Leads(u, C)
    BY <1>5 DEF Leaders
  <2>2. Leaders(C) \subseteq Q
    BY <2>1 DEF Leaders, Comes
  <2>3. GroupsOf(Q) = GroupsOf(C)
    <3>1. GroupsOf(Leaders(C)) \subseteq GroupsOf(Q) /\ GroupsOf(Q) \subseteq GroupsOf(C)
      BY <2>2 DEF GroupsOf
    <3> QED
      BY <3>1, OneLeader
  <2>4. Cardinality(Leaders(C)) <= Cardinality(Q)
    BY <1>1, <2>2, FS_Subset
  <2> QED
    BY <1>2, <1>3, <2>3, <2>4
<1> QED
  BY <1>4, <1>5

\* A candidate that is left out for one with a later key makes room for a group.
LEMMA LeftOutForGroup ==
    ASSUME NEW C, Keyed(C), NEW Q, Q \subseteq C,
           \A u \in Q, s \in C : Comes(s, u, C) => s \in Q,
           NEW s \in Q, NEW t \in C \ Q, LexLess(SortKeyOf(t), SortKeyOf(s))
    PROVE  DiversityGroup(s) \notin GroupsOf(Q \ {s})
<1>1. Leads(s, C) /\ ~Leads(t, C)
  BY DEF Comes
<1>2. ASSUME NEW u \in Q, u # s, DiversityGroup(u) = DiversityGroup(s)
      PROVE  FALSE
  <2>1. u \in C /\ s \in C /\ t \in C /\ u # t
    OBVIOUS
  <2>2. ~Leads(u, C)
    BY <1>1, <1>2, <2>1, OneLeader DEF Leaders
  <2>3. ~LexLess(SortKeyOf(t), SortKeyOf(u))
    BY <1>1, <2>1, <2>2 DEF Comes
  <2>4. LexLess(SortKeyOf(u), SortKeyOf(t))
    BY <2>1, <2>3, KeyedOrder
  <2>5. LexLess(SortKeyOf(u), SortKeyOf(s))
    <3>1. SortKeyOf(u) \in Keys(4) /\ SortKeyOf(t) \in Keys(4) /\ SortKeyOf(s) \in Keys(4)
      BY <2>1 DEF Keyed
    <3> QED
      BY <2>4, <3>1, LexStrict
  <2> QED
    BY <1>1, <1>2, <2>1, <2>5 DEF Leads
<1> QED
  BY <1>2 DEF GroupsOf

\* An ensemble has as many skills and as many groups as it can, and leaves out a
\* candidate of a better stage only for a group (EnsembleIsDiverse), for any
\* catalogue and any state of the rows.
THEOREM EnsemblesAreDiverse == Spec => []EnsembleIsDiverse
<1>1. ASSUME AdviceInv PROVE EnsembleIsDiverse
  <2> SUFFICES ASSUME chosen # <<>> PROVE EnsembleIsDiverse
    BY DEF EnsembleIsDiverse
  <2> DEFINE C == Candidates(listed, request)
             N == Cardinality(C)
             c == IF request.max_skills <= N THEN request.max_skills ELSE N
             q == SelectSkills(listed, request)
             Q == {s \in C : s.skill_id \in Range(chosen)}
  <2>1. /\ request \in EnsembleRequests /\ Listing(listed) /\ chosen = IdsOf(q)
        /\ request.max_skills \in Nat
    BY <1>1, RequestAssumption DEF AdviceInv, Selected, Served
  <2>2. /\ Keyed(C)
        /\ \A s \in C : /\ SortKeyOf(s)[1] = StageOrder[s.deployment_stage]
                        /\ StageOrder[s.deployment_stage] \in Int
    BY <2>1, CandidateKeys DEF Keyed
  <2>3. Selection(q, c, C)
    <3>1. c = IF request.max_skills <= Cardinality(C) THEN request.max_skills ELSE Cardinality(C)
      OBVIOUS
    <3>2. C = Candidates(listed, request)
      OBVIOUS
    <3> HIDE DEF C, c
    <3> QED
      BY <2>1, <3>1, <3>2, SelectionOf
  <2>4. C \subseteq listed
    BY DEF Candidates
  <2>5. N \in Nat
    BY <2>2, FS_CardinalityType DEF Keyed
  <2>6. c = Min({request.max_skills, N})
    <3> HIDE DEF N
    <3> QED
      BY <2>1, <2>5, MinMaxOf
  <2> HIDE DEF C, N, c, q
  <2>7. /\ c \in Nat /\ q \in [1..c -> C]
        /\ \A i, j \in 1..c : q[i] = q[j] => i = j
        /\ \A i \in 1..c : \A s \in C : Comes(s, q[i], C) => \E j \in 1..(i - 1) : q[j] = s
    BY <2>3 DEF Selection
  <2>8. DOMAIN chosen = 1..c /\ Len(chosen) = c /\ \A i \in 1..c : chosen[i] = q[i].skill_id
    BY <2>1, <2>7 DEF IdsOf
  <2>9. Q = Range(q)
    <3>1. ASSUME NEW i \in 1..c PROVE q[i] \in Q
      BY <2>7, <2>8 DEF Range
    <3>2. ASSUME NEW s \in Q PROVE \E i \in 1..c : q[i] = s
      <4>1. PICK i \in 1..c : q[i].skill_id = s.skill_id
        BY <2>8 DEF Range
      <4>2. q[i] \in listed /\ s \in listed
        BY <2>4, <2>7
      <4> QED
        BY <2>1, <4>1, <4>2 DEF Listing
    <3>3. Range(q) = {q[i] : i \in 1..c}
      BY <2>7 DEF Range
    <3> QED
      BY <3>1, <3>2, <3>3
  <2> HIDE DEF Q
  <2>10. Cardinality(Q) = c
    <3>1. IsFiniteSet(1..c) /\ Cardinality(1..c) = c
      BY <2>7, FS_Interval
    <3>2. (\A x, y \in 1..c : q[x] = q[y] => x = y) =>
             Cardinality(Range(q)) = Cardinality(1..c)
      BY <2>7, <3>1, ImageFinite
    <3> QED
      BY <2>7, <2>9, <3>1, <3>2
  <2>11. Q \subseteq C /\ \A u \in Q, s \in C : Comes(s, u, C) => s \in Q
    <3>1. Range(q) = {q[i] : i \in 1..c}
      BY <2>7 DEF Range
    <3>2. Q \subseteq C
      BY <2>7, <2>9, <3>1
    <3>3. ASSUME NEW u \in Q, NEW s \in C, Comes(s, u, C) PROVE s \in Q
      <4>1. PICK i \in 1..c : u = q[i]
        BY <2>9, <3>1
      <4>2. PICK j \in 1..(i - 1) : q[j] = s
        BY <2>7, <3>3, <4>1
      <4>3. j \in 1..c
        BY <2>7
      <4> QED
        BY <2>9, <3>1, <4>2, <4>3
    <3> QED
      BY <3>2, <3>3
  <2>12. Cardinality(GroupsOf(Q)) = Min({c, Cardinality(GroupsOf(C))})
    <3> DEFINE g == Cardinality(GroupsOf(C))
    <3>1. g \in Nat
      BY <2>2, GroupCount DEF Keyed
    <3>2. Cardinality(GroupsOf(Q)) = IF c <= g THEN c ELSE g
      BY <2>2, <2>10, <2>11, ClosedIsDiverse
    <3> HIDE DEF g
    <3>3. Min({c, g}) = IF c <= g THEN c ELSE g
      BY <2>7, <3>1, MinMaxOf
    <3> QED
      BY <3>2, <3>3 DEF g
  <2>13. ASSUME NEW s \in Q, NEW t \in C \ Q,
                StageOrder[t.deployment_stage] < StageOrder[s.deployment_stage]
         PROVE  DiversityGroup(s) \notin GroupsOf(Q \ {s})
    <3>1. SortKeyOf(t)[1] < SortKeyOf(s)[1] /\ SortKeyOf(t) \in Keys(4)
      BY <2>2, <2>11, <2>13 DEF Keyed
    <3>2. 1 \in DOMAIN SortKeyOf(t) /\ \A j \in 1..(1 - 1) : SortKeyOf(t)[j] = SortKeyOf(s)[j]
      BY <3>1 DEF Keys
    <3>3. LexLess(SortKeyOf(t), SortKeyOf(s))
      BY <3>1, <3>2 DEF LexLess
    <3> QED
      BY <2>2, <2>11, <3>3, LeftOutForGroup
  <2>14. /\ Cardinality(Q) = Min({request.max_skills, N})
         /\ Len(chosen) = Cardinality(Q)
         /\ Cardinality(GroupsOf(Q)) = Min({Len(chosen), Cardinality(GroupsOf(C))})
    BY <2>6, <2>8, <2>10, <2>12
  <2> QED
    BY <2>13, <2>14, Zenon DEF EnsembleIsDiverse, GroupsOf, Q, C, N
<1> QED
  BY <1>1, AnswersOfRequests, PTL

-----------------------------------------------------------------------------
(* The consensus: a sum of weights is a number of slots                    *)

\* As many pairs for every member of S as its weight.
Slots(w, S) == {p \in S \X Nat : p[2] \in 1..w[p[1]]}

\* One member more.
LEMMA SlotsStep ==
    ASSUME NEW S, NEW w, NEW x \in S, w[x] \in Nat, IsFiniteSet(Slots(w, S \ {x}))
    PROVE  /\ IsFiniteSet(Slots(w, S))
           /\ Cardinality(Slots(w, S)) = w[x] + Cardinality(Slots(w, S \ {x}))
<1> DEFINE own == {<<x, k>> : k \in 1..w[x]}
           rest == Slots(w, S \ {x})
           f == [k \in 1..w[x] |-> <<x, k>>]
<1>1. Slots(w, S) = own \cup rest /\ own \cap rest = {}
  BY DEF Slots
<1>2. IsFiniteSet(own) /\ Cardinality(own) = w[x]
  <2>1. f \in [1..w[x] -> own] /\ Range(f) = own /\ \A a, b \in 1..w[x] : f[a] = f[b] => a = b
    BY DEF Range
  <2>2. IsFiniteSet(1..w[x]) /\ Cardinality(1..w[x]) = w[x]
    BY FS_Interval
  <2> HIDE DEF f, own
  <2> QED
    BY <2>1, <2>2, ImageFinite
<1> HIDE DEF own, rest
<1>3. /\ IsFiniteSet(own \cup rest)
      /\ Cardinality(own \cup rest)
            = Cardinality(own) + Cardinality(rest) - Cardinality(own \cap rest)
  BY <1>2, FS_Union DEF rest
<1>4. Cardinality(own \cap rest) = 0 /\ Cardinality(rest) \in Nat
  BY <1>1, FS_EmptySet, FS_CardinalityType DEF rest
<1> QED
  BY <1>1, <1>2, <1>3, <1>4 DEF rest

\* The weights of a finite set.
Weights(w, S) == IsFiniteSet(S) /\ \A i \in S : w[i] \in Nat

\* Finitely many members have finitely many slots.
LEMMA SlotsFinite ==
    ASSUME NEW w, NEW S, Weights(w, S), NEW s \in SUBSET S
    PROVE  IsFiniteSet(Slots(w, s))
<1> DEFINE bad(n) == \E u \in SUBSET S : Cardinality(u) = n /\ ~IsFiniteSet(Slots(w, u))
           T == {n \in Nat : bad(n)}
<1> USE DEF Weights
<1>1. \A u \in SUBSET S : IsFiniteSet(u) /\ Cardinality(u) \in Nat
  BY FS_Subset, FS_CardinalityType
<1>2. ASSUME T # {} PROVE FALSE
  <2>1. PICK n \in T : \A m \in T : n <= m
    <3>1. T \subseteq Nat
      OBVIOUS
    <3> HIDE DEF T
    <3> QED
      BY <1>2, <3>1, SmallestOf
  <2>2. PICK u \in SUBSET S : Cardinality(u) = n /\ ~IsFiniteSet(Slots(w, u))
    BY <2>1
  <2>3. u # {}
    <3>1. Slots(w, {}) = {}
      BY DEF Slots
    <3> QED
      BY <2>2, <3>1, FS_EmptySet
  <2>4. PICK x \in u : TRUE
    BY <2>3
  <2>5. Cardinality(u \ {x}) = n - 1 /\ n - 1 \in Nat
    <3>1. IsFiniteSet(u) /\ Cardinality(u \ {x}) \in Nat
      BY <1>1
    <3> QED
      BY <2>2, <2>4, <3>1, FS_RemoveElement
  <2>6. IsFiniteSet(Slots(w, u \ {x}))
    BY <2>1, <2>5
  <2>7. IsFiniteSet(Slots(w, u))
    BY <2>4, <2>6, SlotsStep
  <2> QED
    BY <2>2, <2>7
<1> QED
  BY <1>1, <1>2

\* The equation of the fold that adds up the weights.
AddsUp(f, w, S) ==
    f = [s \in SUBSET S |->
            IF s = {} THEN 0
            ELSE w[CHOOSE x \in s : TRUE] + f[s \ {CHOOSE x \in s : TRUE}]]

\* A sum counts the slots.
LEMMA SumCounts ==
    ASSUME NEW w, NEW S, Weights(w, S)
    PROVE  SumFunctionOnSet(w, S) = Cardinality(Slots(w, S))
<1> DEFINE count == [s \in SUBSET S |-> Cardinality(Slots(w, s))]
           iter == CHOOSE f : AddsUp(f, w, S)
           some(s) == CHOOSE x \in s : TRUE
<1>1. SumFunctionOnSet(w, S) = iter[S]
  BY DEF SumFunctionOnSet, FoldFunctionOnSet, MapThenFoldSet, AddsUp
<1>2. Slots(w, {}) = {}
  BY DEF Slots
<1>3. ASSUME NEW s \in SUBSET S, s # {}
      PROVE  some(s) \in s /\ count[s] = w[some(s)] + count[s \ {some(s)}]
  <2>1. some(s) \in s
    BY <1>3
  <2> HIDE DEF some
  <2>2. w[some(s)] \in Nat /\ IsFiniteSet(Slots(w, s \ {some(s)}))
    BY <2>1, SlotsFinite DEF Weights
  <2>3. Cardinality(Slots(w, s)) = w[some(s)] + Cardinality(Slots(w, s \ {some(s)}))
    BY <2>1, <2>2, SlotsStep
  <2> QED
    BY <2>1, <2>3
<1>4. AddsUp(count, w, S)
  <2>1. count[{}] = 0
    BY <1>2, FS_EmptySet
  <2>2. \A s \in SUBSET S :
           count[s] = IF s = {} THEN 0 ELSE w[some(s)] + count[s \ {some(s)}]
    BY <1>3, <2>1
  <2>3. count = [s \in SUBSET S |-> count[s]]
    OBVIOUS
  <2> HIDE DEF count
  <2> QED
    BY <2>2, <2>3, Zenon DEF AddsUp
<1>5. AddsUp(iter, w, S)
  <2> HIDE DEF count
  <2> QED
    BY <1>4, Zenon
<1> HIDE DEF iter
<1>6. \A s \in SUBSET S : iter[s] = IF s = {} THEN 0 ELSE w[some(s)] + iter[s \ {some(s)}]
  BY <1>5, Zenon DEF AddsUp
<1> HIDE DEF count, some
<1> DEFINE T == {n \in Nat : \E u \in SUBSET S : Cardinality(u) = n /\ iter[u] # count[u]}
<1>7. \A u \in SUBSET S : IsFiniteSet(u) /\ Cardinality(u) \in Nat
  BY FS_Subset, FS_CardinalityType DEF Weights
<1>8. ASSUME T # {} PROVE FALSE
  <2>1. PICK n \in T : \A m \in T : n <= m
    <3>1. T \subseteq Nat
      OBVIOUS
    <3> HIDE DEF T
    <3> QED
      BY <1>8, <3>1, SmallestOf
  <2>2. PICK u \in SUBSET S : Cardinality(u) = n /\ iter[u] # count[u]
    BY <2>1
  <2>3. u # {}
    <3>1. iter[{}] = 0
      BY <1>6
    <3>2. count[{}] = 0
      BY <1>2, FS_EmptySet DEF count
    <3> QED
      BY <2>2, <3>1, <3>2
  <2> DEFINE v == u \ {some(u)}
  <2>4. v \in SUBSET S /\ Cardinality(v) = n - 1 /\ n - 1 \in Nat
    <3>1. some(u) \in u /\ v \in SUBSET S
      BY <1>3, <2>3
    <3>2. IsFiniteSet(u) /\ Cardinality(v) \in Nat
      BY <1>7, <3>1
    <3> QED
      BY <2>2, <3>1, <3>2, FS_RemoveElement
  <2> HIDE DEF v
  <2>5. iter[v] = count[v]
    BY <2>1, <2>4
  <2>6. iter[u] = w[some(u)] + iter[v]
    BY <1>6, <2>3 DEF v
  <2>7. count[u] = w[some(u)] + count[v]
    BY <1>3, <2>3 DEF v
  <2> QED
    BY <2>2, <2>5, <2>6, <2>7
<1>9. iter[S] = count[S]
  <2>1. Cardinality(S) \in Nat
    BY <1>7
  <2> QED
    BY <1>8, <2>1
<1> QED
  BY <1>1, <1>9 DEF count

\* Sums of weights are ordered as the weights.
LEMMA SumMonotone ==
    ASSUME NEW w, NEW v, NEW A, Weights(w, A), Weights(v, A), \A i \in A : w[i] <= v[i]
    PROVE  /\ SumFunctionOnSet(w, A) \in Nat /\ SumFunctionOnSet(v, A) \in Nat
           /\ SumFunctionOnSet(w, A) <= SumFunctionOnSet(v, A)
<1>1. Slots(w, A) \subseteq Slots(v, A)
  BY DEF Slots, Weights
<1>2. IsFiniteSet(Slots(w, A)) /\ IsFiniteSet(Slots(v, A))
  BY SlotsFinite
<1>3. Cardinality(Slots(w, A)) <= Cardinality(Slots(v, A))
  BY <1>1, <1>2, FS_Subset
<1> QED
  BY <1>2, <1>3, SumCounts, FS_CardinalityType

\* A sum depends on the weights of its members only.
LEMMA SumSame ==
    ASSUME NEW w, NEW v, NEW A, Weights(w, A), \A i \in A : w[i] = v[i]
    PROVE  SumFunctionOnSet(w, A) = SumFunctionOnSet(v, A)
<1>1. Weights(v, A)
  BY DEF Weights
<1>2. Slots(w, A) = Slots(v, A)
  BY DEF Slots, Weights
<1> QED
  BY <1>1, <1>2, SumCounts

\* Sums over disjoint sets add up.
LEMMA SumUnion ==
    ASSUME NEW w, NEW A, NEW B, Weights(w, A), Weights(w, B), A \cap B = {}
    PROVE  SumFunctionOnSet(w, A \cup B) = SumFunctionOnSet(w, A) + SumFunctionOnSet(w, B)
<1>1. Weights(w, A \cup B)
  BY FS_Union DEF Weights
<1> DEFINE U == A \cup B
           P == Slots(w, A)
           R == Slots(w, B)
<1>2. Slots(w, U) = P \cup R /\ P \cap R = {}
  BY DEF Slots
<1>3. IsFiniteSet(P) /\ IsFiniteSet(R)
  BY SlotsFinite
<1> HIDE DEF U, P, R
<1>4. Cardinality(P \cup R) = Cardinality(P) + Cardinality(R)
  <2>1. Cardinality(P \cup R) = Cardinality(P) + Cardinality(R) - Cardinality(P \cap R)
    BY <1>3, FS_Union
  <2>2. Cardinality(P \cap R) = 0 /\ Cardinality(P) \in Nat /\ Cardinality(R) \in Nat
    BY <1>2, <1>3, FS_EmptySet, FS_CardinalityType
  <2> QED
    BY <2>1, <2>2
<1>5. SumFunctionOnSet(w, U) = Cardinality(Slots(w, U))
  <2>1. Weights(w, U)
    BY <1>1 DEF U
  <2> QED
    BY <2>1, SumCounts
<1>6. SumFunctionOnSet(w, A) = Cardinality(P) /\ SumFunctionOnSet(w, B) = Cardinality(R)
  BY SumCounts DEF P, R
<1>7. SumFunctionOnSet(w, U) = SumFunctionOnSet(w, A) + SumFunctionOnSet(w, B)
  BY <1>2, <1>4, <1>5, <1>6
<1> QED
  BY <1>7 DEF U

\* The confidence of a vote is a share, whatever the output says.
LEMMA VoteConfidenceType ==
    ASSUME NEW output \in Outputs
    PROVE  VoteConfidence(output) \in 0..100
<1> DEFINE named == {"calibrated_confidence", "confidence"} \cap DOMAIN output
           key == IF "calibrated_confidence" \in named THEN "calibrated_confidence"
                  ELSE "confidence"
<1>1. VoteConfidence(output) = IF named # {} /\ "val" \in DOMAIN output[key]
                               THEN Max({0, Min({100, output[key].val})}) ELSE 50
  BY DEF VoteConfidence
<1>2. CASE named # {} /\ "val" \in DOMAIN output[key]
  <2>1. key \in named
    BY <1>2
  <2>2. output[key].val \in Int
    <3> HIDE DEF key
    <3> QED
      BY <1>2, <2>1, OutputAssumption
  <2> DEFINE n == output[key].val
             m == Min({100, n})
  <2> HIDE DEF n
  <2>3. m = IF 100 <= n THEN 100 ELSE n
    BY <2>2, MinMaxOf DEF n
  <2>4. m \in Int /\ m <= 100
    BY <2>2, <2>3 DEF n
  <2> HIDE DEF m
  <2>5. Max({0, m}) = IF 0 >= m THEN 0 ELSE m
    BY <2>4, MinMaxOf
  <2>6. Max({0, m}) \in 0..100
    BY <2>4, <2>5
  <2> QED
    BY <1>1, <1>2, <2>6 DEF m, n
<1>3. CASE ~(named # {} /\ "val" \in DOMAIN output[key])
  BY <1>1, <1>3
<1> QED
  BY <1>2, <1>3

\* What an execution may weigh at most.
MostOf(stage) ==
    CASE stage = "champion" -> 1000
      [] stage = "challenger" -> 800
      [] stage = "shadow" -> 600
      [] OTHER -> 500

\* A vote weighs at most what its stage allows.
LEMMA VoteWeightBound ==
    ASSUME NEW X \in Seq(ExecutionType), NEW i \in Voting(X)
    PROVE  /\ VoteWeight(X[i]) \in Nat /\ MostOf(X[i].deployment_stage) \in Nat
           /\ VoteWeight(X[i]) <= MostOf(X[i].deployment_stage)
<1>1. i \in DOMAIN X /\ X[i].status = "success"
  BY DEF Voting
<1>2. X[i] \in ExecutionType
  BY <1>1
<1>3. PICK j \in Ids, row \in RowType, result \in Results : X[i] = Execution(j, row, result)
  BY <1>2 DEF ExecutionType
<1>4. X[i].status = result.status /\ X[i].output = result.output
  BY <1>3 DEF Execution
<1>5. X[i].output \in Outputs
  BY <1>1, <1>4 DEF Results
<1> DEFINE n == VoteConfidence(X[i].output)
           stage == X[i].deployment_stage
<1>6. n \in 0..100
  BY <1>5, VoteConfidenceType
<1>7. VoteWeight(X[i]) = StageWeight(stage) * n
  BY DEF VoteWeight
<1> HIDE DEF n, stage
<1>8. CASE stage = "champion"
  <2>1. StageWeight(stage) = 10 /\ MostOf(stage) = 1000
    BY <1>8 DEF StageWeight, MostOf
  <2> QED
    BY <1>6, <1>7, <2>1 DEF stage
<1>9. CASE stage = "challenger"
  <2>1. StageWeight(stage) = 8 /\ MostOf(stage) = 800
    BY <1>9 DEF StageWeight, MostOf
  <2> QED
    BY <1>6, <1>7, <2>1 DEF stage
<1>10. CASE stage = "shadow"
  <2>1. StageWeight(stage) = 6 /\ MostOf(stage) = 600
    BY <1>10 DEF StageWeight, MostOf
  <2> QED
    BY <1>6, <1>7, <2>1 DEF stage
<1>11. CASE stage \notin {"champion", "challenger", "shadow"}
  <2>1. StageWeight(stage) = 5 /\ MostOf(stage) = 500
    BY <1>11 DEF StageWeight, MostOf
  <2> QED
    BY <1>6, <1>7, <2>1 DEF stage
<1> QED
  BY <1>8, <1>9, <1>10, <1>11

\* The votes for a signal.
VotesFor(X, signal) == {i \in Voting(X) : X[i].output.signal = signal}

\* The weights of the votes.
VoteWeights(X) == [i \in Voting(X) |-> VoteWeight(X[i])]

\* The votes of an ensemble have weights.
LEMMA VoteWeightsOf ==
    ASSUME NEW X \in Seq(ExecutionType), NEW A, A \subseteq Voting(X)
    PROVE  Weights(VoteWeights(X), A)
<1>1. DOMAIN X = 1..Len(X) /\ Len(X) \in Nat
  OBVIOUS
<1>2. A \subseteq 1..Len(X) /\ IsFiniteSet(1..Len(X))
  BY <1>1, FS_Interval DEF Voting
<1>3. IsFiniteSet(A)
  BY <1>2, FS_Subset
<1>4. ASSUME NEW i \in A PROVE VoteWeights(X)[i] \in Nat
  <2>1. i \in Voting(X) /\ VoteWeights(X)[i] = VoteWeight(X[i])
    BY DEF VoteWeights
  <2> QED
    BY <2>1, VoteWeightBound
<1> QED
  BY <1>3, <1>4 DEF Weights

\* max(votes.items(), ...): one of the signals with a vote leads.
LEMMA LeaderExists ==
    ASSUME NEW weight \in [VALID_SIGNALS -> Nat], NEW voted \in SUBSET VALID_SIGNALS, voted # {}
    PROVE  \E s \in voted : \A t \in voted :
               \/ weight[s] > weight[t]
               \/ weight[s] = weight[t] /\ Alphabetical[s] >= Alphabetical[t]
<1> USE DEF VALID_SIGNALS
<1> DEFINE beats(s, t) == \/ weight[s] > weight[t]
                          \/ weight[s] = weight[t] /\ Alphabetical[s] >= Alphabetical[t]
<1>1. /\ Alphabetical["buy"] = 1 /\ Alphabetical["hold"] = 2 /\ Alphabetical["sell"] = 3
  BY DEF Alphabetical
<1>2. \A s, t \in VALID_SIGNALS : beats(s, t) \/ beats(t, s)
  BY <1>1
<1>3. \A s, t, u \in VALID_SIGNALS : beats(s, t) /\ beats(t, u) => beats(s, u)
  BY <1>1
<1> HIDE DEF beats
<1>4. \E s \in voted : \A t \in voted : beats(s, t)
  BY <1>2, <1>3
<1> QED
  BY <1>4 DEF beats

\* A signal other than hold has votes, and its share of the weight.
LEMMA ConsensusOf ==
    ASSUME NEW X \in Seq(ExecutionType), NEW m, NEW signal, signal = Consensus(X, m).signal,
           signal # "hold"
    PROVE  /\ signal \in VALID_SIGNALS /\ VotesFor(X, signal) # {}
           /\ WeightFor(X, signal) * 100
                 >= m * (WeightFor(X, "buy") + WeightFor(X, "hold") + WeightFor(X, "sell"))
<1> DEFINE weight == [s \in VALID_SIGNALS |-> WeightFor(X, s)]
           total == weight["buy"] + weight["hold"] + weight["sell"]
           voted == {X[i].output.signal : i \in Voting(X)}
           leader == CHOOSE s \in voted : \A t \in voted :
                         \/ weight[s] > weight[t]
                         \/ weight[s] = weight[t] /\ Alphabetical[s] >= Alphabetical[t]
<1>1. Consensus(X, m) =
         CASE total = 0 -> [signal |-> "hold", state |-> "no_valid_votes"]
           [] total > 0 /\ AgreementAccepted(weight[leader], total, m) ->
                [signal |-> leader, state |-> "consensus"]
           [] OTHER -> [signal |-> "hold", state |-> "insufficient_agreement"]
  BY DEF Consensus
<1>2. \A s : WeightFor(X, s) = SumFunctionOnSet(VoteWeights(X), VotesFor(X, s))
  BY DEF WeightFor, VoteWeights, VotesFor
<1>3. \A s : WeightFor(X, s) \in Nat /\ (VotesFor(X, s) = {} => WeightFor(X, s) = 0)
  <2> TAKE s
  <2>1. VotesFor(X, s) \subseteq Voting(X)
    BY DEF VotesFor
  <2>2. Weights(VoteWeights(X), VotesFor(X, s))
    BY <2>1, VoteWeightsOf
  <2>3. /\ WeightFor(X, s) = Cardinality(Slots(VoteWeights(X), VotesFor(X, s)))
        /\ IsFiniteSet(Slots(VoteWeights(X), VotesFor(X, s)))
    BY <1>2, <2>2, SumCounts, SlotsFinite
  <2>4. VotesFor(X, s) = {} => Slots(VoteWeights(X), VotesFor(X, s)) = {}
    BY DEF Slots
  <2> QED
    BY <2>3, <2>4, FS_CardinalityType, FS_EmptySet
<1>4. weight \in [VALID_SIGNALS -> Nat] /\ voted \in SUBSET VALID_SIGNALS
  BY <1>3 DEF Voting
<1>5. /\ weight["buy"] = WeightFor(X, "buy") /\ weight["hold"] = WeightFor(X, "hold")
      /\ weight["sell"] = WeightFor(X, "sell")
      /\ \A s \in VALID_SIGNALS : weight[s] = WeightFor(X, s)
  BY DEF VALID_SIGNALS
<1>6. voted = {} => total = 0
  <2>1. ASSUME voted = {} PROVE \A s : VotesFor(X, s) = {}
    BY <2>1 DEF VotesFor
  <2>2. ASSUME voted = {}
        PROVE  WeightFor(X, "buy") = 0 /\ WeightFor(X, "hold") = 0 /\ WeightFor(X, "sell") = 0
    BY <1>3, <2>1, <2>2
  <2> HIDE DEF weight, voted
  <2> QED
    BY <1>5, <2>2
<1>7. total \in Nat
  BY <1>3, <1>5
<1> HIDE DEF weight, voted, total
<1>8. voted # {} => leader \in voted
  BY <1>4, LeaderExists
<1> HIDE DEF leader
<1>9. total > 0 /\ AgreementAccepted(weight[leader], total, m) /\ signal = leader
  <2>1. CASE total = 0
    BY <1>1, <2>1
  <2>2. CASE total > 0 /\ AgreementAccepted(weight[leader], total, m)
    BY <1>1, <2>2
  <2>3. CASE total > 0 /\ ~AgreementAccepted(weight[leader], total, m)
    BY <1>1, <2>3
  <2> QED
    BY <1>7, <2>1, <2>2, <2>3
<1>10. signal \in voted /\ signal \in VALID_SIGNALS
  BY <1>4, <1>6, <1>7, <1>8, <1>9
<1>11. VotesFor(X, signal) # {}
  BY <1>10 DEF voted, VotesFor
<1>12. WeightFor(X, signal) * 100 >= m * total
  BY <1>5, <1>9, <1>10 DEF AgreementAccepted
<1> QED
  BY <1>5, <1>10, <1>11, <1>12 DEF total

\* The arithmetic of a share: raising the weight that is for a signal, and not
\* the one against it, keeps the share.
LEMMA ShareKept ==
    ASSUME NEW W \in Nat, NEW A \in Nat, NEW M \in Nat, NEW m \in 0..100,
           W <= M, W * 100 >= m * (W + A)
    PROVE  100 * M >= m * (M + A)
<1> DEFINE d == M - W
           n == 100 - m
<1>1. d \in Nat /\ M = W + d /\ n \in Nat /\ 100 = m + n
  OBVIOUS
<1>2. n * d >= 0
  BY <1>1
<1>3. 100 * d = m * d + n * d
  BY <1>1
<1>4. m * (M + A) = m * (W + A) + m * d
  BY <1>1
<1>5. 100 * M = W * 100 + 100 * d
  BY <1>1
<1> DEFINE p == m * (W + A)
           r == m * d
           s == n * d
<1>6. p \in Int /\ r \in Int /\ s \in Int
  BY <1>1
<1> HIDE DEF p, r, s, d, n
<1>7. 100 * M >= p + r
  BY <1>1, <1>2, <1>3, <1>5, <1>6 DEF p, r, s
<1> QED
  BY <1>4, <1>7 DEF p, r

\* The weights of all votes, those for a signal and those for another one.
LEMMA VotesSplit ==
    ASSUME NEW X \in Seq(ExecutionType), NEW signal \in VALID_SIGNALS,
           NEW others, others = {i \in Voting(X) : X[i].output.signal # signal}
    PROVE  /\ WeightFor(X, signal) \in Nat
           /\ SumFunctionOnSet(VoteWeights(X), others) \in Nat
           /\ WeightFor(X, "buy") + WeightFor(X, "hold") + WeightFor(X, "sell")
                = WeightFor(X, signal) + SumFunctionOnSet(VoteWeights(X), others)
<1> DEFINE w == VoteWeights(X)
           B == VotesFor(X, "buy")
           H == VotesFor(X, "hold")
           S == VotesFor(X, "sell")
<1>1. \A s : WeightFor(X, s) = SumFunctionOnSet(w, VotesFor(X, s))
  BY DEF WeightFor, VoteWeights, VotesFor
<1>2. B \subseteq Voting(X) /\ H \subseteq Voting(X) /\ S \subseteq Voting(X)
  BY DEF VotesFor
<1>3. B \cap H = {} /\ B \cap S = {} /\ H \cap S = {}
  BY DEF VotesFor
<1>4. /\ signal = "buy" => others = H \cup S
      /\ signal = "hold" => others = B \cup S
      /\ signal = "sell" => others = B \cup H
  BY DEF VotesFor, Voting, VALID_SIGNALS
<1> HIDE DEF B, H, S, w
<1>5. Weights(w, B) /\ Weights(w, H) /\ Weights(w, S)
  BY <1>2, VoteWeightsOf DEF w
<1>6. /\ SumFunctionOnSet(w, H \cup S) = SumFunctionOnSet(w, H) + SumFunctionOnSet(w, S)
      /\ SumFunctionOnSet(w, B \cup S) = SumFunctionOnSet(w, B) + SumFunctionOnSet(w, S)
      /\ SumFunctionOnSet(w, B \cup H) = SumFunctionOnSet(w, B) + SumFunctionOnSet(w, H)
  BY <1>3, <1>5, SumUnion
<1>7. /\ SumFunctionOnSet(w, B) \in Nat /\ SumFunctionOnSet(w, H) \in Nat
      /\ SumFunctionOnSet(w, S) \in Nat
  <2>1. ASSUME NEW A, Weights(w, A) PROVE SumFunctionOnSet(w, A) \in Nat
    <3>1. \A i \in A : w[i] <= w[i]
      BY <2>1 DEF Weights
    <3> QED
      BY <2>1, <3>1, SumMonotone
  <2> QED
    BY <1>5, <2>1
<1>8. /\ WeightFor(X, "buy") = SumFunctionOnSet(w, B)
      /\ WeightFor(X, "hold") = SumFunctionOnSet(w, H)
      /\ WeightFor(X, "sell") = SumFunctionOnSet(w, S)
  BY <1>1 DEF B, H, S
<1>9. signal = "buy" \/ signal = "hold" \/ signal = "sell"
  BY DEF VALID_SIGNALS
<1> DEFINE o == SumFunctionOnSet(w, others)
<1>10. CASE signal = "buy"
  <2>1. o = SumFunctionOnSet(w, H) + SumFunctionOnSet(w, S)
    BY <1>4, <1>6, <1>10, Zenon DEF o
  <2> HIDE DEF o
  <2>2. WeightFor(X, signal) = SumFunctionOnSet(w, B)
    BY <1>8, <1>10
  <2>3. /\ WeightFor(X, signal) \in Nat /\ o \in Nat
        /\ WeightFor(X, "buy") + WeightFor(X, "hold") + WeightFor(X, "sell")
              = WeightFor(X, signal) + o
    BY <1>7, <1>8, <2>1, <2>2
  <2> QED
    BY <2>3 DEF o, w
<1>11. CASE signal = "hold"
  <2>1. o = SumFunctionOnSet(w, B) + SumFunctionOnSet(w, S)
    BY <1>4, <1>6, <1>11, Zenon DEF o
  <2> HIDE DEF o
  <2>2. WeightFor(X, signal) = SumFunctionOnSet(w, H)
    BY <1>8, <1>11
  <2>3. /\ WeightFor(X, signal) \in Nat /\ o \in Nat
        /\ WeightFor(X, "buy") + WeightFor(X, "hold") + WeightFor(X, "sell")
              = WeightFor(X, signal) + o
    BY <1>7, <1>8, <2>1, <2>2
  <2> QED
    BY <2>3 DEF o, w
<1>12. CASE signal = "sell"
  <2>1. o = SumFunctionOnSet(w, B) + SumFunctionOnSet(w, H)
    BY <1>4, <1>6, <1>12, Zenon DEF o
  <2> HIDE DEF o
  <2>2. WeightFor(X, signal) = SumFunctionOnSet(w, S)
    BY <1>8, <1>12
  <2>3. /\ WeightFor(X, signal) \in Nat /\ o \in Nat
        /\ WeightFor(X, "buy") + WeightFor(X, "hold") + WeightFor(X, "sell")
              = WeightFor(X, signal) + o
    BY <1>7, <1>8, <2>1, <2>2
  <2> QED
    BY <2>3 DEF o, w
<1> QED
  BY <1>9, <1>10, <1>11, <1>12

\* A signal other than hold is trusted only with the asked share of the weight of
\* all votes (TrustedSignalIsBacked), whatever the skills answer, for any catalogue,
\* any outputs and any state of the rows that are read again.
THEOREM TrustedSignalsAreBacked == Spec => []TrustedSignalIsBacked
<1>1. ASSUME AdviceInv PROVE TrustedSignalIsBacked
  <2> SUFFICES ASSUME answer.kind = "ensemble", answer.consensus.signal # "hold"
               PROVE  TrustedSignalIsBacked
    BY DEF TrustedSignalIsBacked
  <2> DEFINE X == executions
             m == request.minimum_agreement
             signal == answer.consensus.signal
             gave(signals) == {i \in DOMAIN X :
                                 /\ X[i].status = "success"
                                 /\ "signal" \in DOMAIN X[i].output
                                 /\ X[i].output.signal \in signals}
             for == gave({signal})
             others == gave(VALID_SIGNALS \ {signal})
             most == [i \in DOMAIN X |-> MostOf(X[i].deployment_stage)]
             weight == [i \in DOMAIN X |-> VoteWeight(X[i])]
             W == WeightFor(X, signal)
             A == SumFunctionOnSet(weight, others)
             M == SumFunctionOnSet(most, for)
  <2>1. /\ X \in Seq(ExecutionType) /\ m \in 0..100 /\ signal = Consensus(X, m).signal
        /\ signal # "hold"
    BY <1>1, RequestAssumption DEF AdviceInv, Answered, Served
  <2>2. /\ signal \in VALID_SIGNALS /\ VotesFor(X, signal) # {}
        /\ W * 100 >= m * (WeightFor(X, "buy") + WeightFor(X, "hold") + WeightFor(X, "sell"))
    <3> HIDE DEF X, m, signal
    <3> QED
      BY <2>1, ConsensusOf
  <2>3. for = VotesFor(X, signal) /\ others = {i \in Voting(X) : X[i].output.signal # signal}
    BY <2>2 DEF VotesFor, Voting
  <2>4. for \subseteq Voting(X) /\ others \subseteq Voting(X) /\ Voting(X) \subseteq DOMAIN X
    BY <2>3 DEF VotesFor, Voting
  <2>5. /\ \A i \in Voting(X) : weight[i] = VoteWeights(X)[i]
        /\ \A i \in Voting(X) : most[i] = MostOf(X[i].deployment_stage)
    BY <2>4 DEF VoteWeights
  <2> HIDE DEF for, others, most, weight, gave, X, m, signal
  <2>6. /\ W \in Nat /\ SumFunctionOnSet(VoteWeights(X), others) \in Nat
        /\ WeightFor(X, "buy") + WeightFor(X, "hold") + WeightFor(X, "sell")
              = W + SumFunctionOnSet(VoteWeights(X), others)
    BY <2>1, <2>2, <2>3, VotesSplit
  <2>7. A = SumFunctionOnSet(VoteWeights(X), others)
    <3>1. Weights(VoteWeights(X), others)
      BY <2>1, <2>4, VoteWeightsOf
    <3>2. \A i \in others : VoteWeights(X)[i] = weight[i]
      BY <2>4, <2>5
    <3> QED
      BY <3>1, <3>2, SumSame
  <2>8. M \in Nat /\ W <= M
    <3>1. Weights(VoteWeights(X), for)
      BY <2>1, <2>4, VoteWeightsOf
    <3>2. \A i \in for : most[i] \in Nat /\ VoteWeights(X)[i] <= most[i]
      <4> SUFFICES ASSUME NEW i \in for
                   PROVE  most[i] \in Nat /\ VoteWeights(X)[i] <= most[i]
        OBVIOUS
      <4>1. i \in Voting(X) /\ VoteWeights(X)[i] = VoteWeight(X[i])
        BY <2>4 DEF VoteWeights
      <4> QED
        BY <2>1, <2>5, <4>1, VoteWeightBound
    <3>3. Weights(most, for)
      BY <3>1, <3>2 DEF Weights
    <3>4. W = SumFunctionOnSet(VoteWeights(X), for)
      BY <2>3 DEF WeightFor, VoteWeights, VotesFor
    <3> QED
      BY <3>1, <3>2, <3>3, <3>4, SumMonotone
  <2> HIDE DEF W, A, M
  <2>9. 100 * M >= m * (M + A)
    <3>1. A \in Nat /\ W * 100 >= m * (W + A)
      BY <2>2, <2>6, <2>7
    <3> QED
      BY <2>1, <2>6, <2>8, <3>1, ShareKept
  <2>10. for # {}
    BY <2>2, <2>3
  <2> QED
    BY <2>9, <2>10, Zenon
    DEF TrustedSignalIsBacked, A, M, for, others, gave, most, weight, X, m, signal, MostOf
<1> QED
  BY <1>1, AnswersOfRequests, PTL
=============================================================================
