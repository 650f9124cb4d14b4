-------------------------- MODULE WorkerAuthProofs --------------------------
(***************************************************************************)
(* Proofs about WorkerAuth, for any number of requests, any capacity of    *)
(* the guard, any skew and any number of restarts: the guard keeps within  *)
(* its capacity, holds only what was admitted, and admits a request once.  *)
(***************************************************************************)
EXTENDS WorkerAuth, FiniteSetTheorems, SequenceTheorems, WellFoundedInduction, TLAPS

\* The API's clock is ahead of the worker's by at most two seconds less than the
\* skew that the worker allows (max_clock_skew_seconds is from 5 to 300, and 30 by
\* default).
ClocksAgree == MaxAhead + 2 <= MaxSkew

-----------------------------------------------------------------------------
(* The inductive invariant                                                 *)

Entry == [nonce : Nonces, expires : Time, place : Nat]

Types ==
    /\ clock \in Time
    /\ stamp \in [Nonces -> Nat \cup {None}]
    /\ entries \in SUBSET Entry
    /\ epoch \in 1..MaxEpoch
    /\ log \in Seq([nonce : Nonces, epoch : 1..epoch])

\* Every admitted request was signed, and every stamp was at most MaxAhead ahead.
Stamped ==
    /\ \A n \in Nonces : stamp[n] # None => stamp[n] <= clock.sec + MaxAhead
    /\ \A i \in DOMAIN log : stamp[log[i].nonce] # None

\* An entry stands for the admission at its place and, if the clocks agree, lasts
\* until copies of its request are too old, with a second to spare.
Held ==
    \A e \in entries :
        /\ e.place \in DOMAIN log
        /\ log[e.place] = [nonce |-> e.nonce, epoch |-> epoch]
        /\ NotAfter(e.expires, Expiry(clock))
        /\ ClocksAgree => stamp[e.nonce] + MaxSkew + 2 <= e.expires.sec

\* Two entries are of two requests, and the older one expires first.
Ordered ==
    \A e, f \in entries :
        /\ e # f => e.nonce # f.nonce
        /\ e.place < f.place => NotAfter(e.expires, f.expires)

Bounded == IsFiniteSet(entries) /\ Cardinality(entries) <= MaxEntries

\* The requests admitted after the i-th admission.
Since(i) == {log[k].nonce : k \in i+1 .. Len(log)}

\* An admission since the worker started is remembered, or too old to be
\* repeated, or was crowded out.
Covered ==
    \A i \in DOMAIN log :
        log[i].epoch = epoch =>
            \/ \E e \in entries : e.place = i
            \/ stamp[log[i].nonce] + MaxSkew < clock.sec
            \/ MaxEntries <= Cardinality(Since(i))

AuthInv ==
    /\ Types /\ Stamped /\ Held /\ Ordered /\ Bounded
    /\ ClocksAgree => Covered /\ AdmittedOnce

-----------------------------------------------------------------------------
(* The guard's operators                                                   *)

\* A set of naturals that is not empty has a smallest member.
LEMMA SmallestOf ==
    ASSUME NEW T, T \subseteq Nat, T # {}
    PROVE  \E x \in T : \A y \in T : x <= y
<1>1. PICK x \in T : \A y \in T : ~(<<y, x>> \in OpToRel(<, Nat))
  BY NatLessThanWellFounded, WFMin
<1>2. ASSUME NEW y \in T PROVE x <= y
  <2>1. ~(<<y, x>> \in OpToRel(<, Nat))
    BY <1>1
  <2>2. ~(y < x)
    BY <2>1 DEF OpToRel
  <2> QED
    BY <2>2
<1> QED
  BY <1>2

\* popitem(last=False) in consume leaves room for one more entry.
LEMMA RoomBounded ==
    ASSUME NEW S, IsFiniteSet(S), \A e \in S : e.place \in Nat,
           \A e, f \in S : e.place = f.place => e = f
    PROVE  /\ IsFiniteSet(Room(S))
           /\ Cardinality(Room(S)) <= MaxEntries - 1
<1> DEFINE R == Room(S)
<1>1. R \subseteq S /\ IsFiniteSet(R)
  BY FS_Subset DEF Room
<1>2. CASE R = {}
  BY <1>2, FS_EmptySet, WorkerAuthAssumption
<1>3. CASE R # {}
  <2> DEFINE T == {e.place : e \in R}
  <2>0. T \subseteq Nat /\ T # {}
    BY <1>1, <1>3
  <2>1. PICK p \in T : \A q \in T : p <= q
    <3> HIDE DEF T
    <3> QED
      BY <2>0, SmallestOf
  <2>2. PICK e \in R : p = e.place
    BY <2>1
  <2>3. R \ {e} \subseteq Newer(S, e)
    <3>1. ASSUME NEW f \in R \ {e} PROVE f \in Newer(S, e)
      <4>1. e \in S /\ f \in S /\ f # e
        BY <1>1
      <4>2. e.place \in Nat /\ f.place \in Nat /\ e.place # f.place
        BY <4>1
      <4>3. e.place <= f.place
        BY <2>1, <2>2
      <4> QED
        BY <4>1, <4>2, <4>3 DEF Newer
    <3> QED
      BY <3>1
  <2>4. IsFiniteSet(Newer(S, e)) /\ Cardinality(Newer(S, e)) < MaxEntries - 1
    BY <2>2, FS_Subset DEF Room, Newer
  <2>5. Cardinality(R \ {e}) <= Cardinality(Newer(S, e))
    BY <2>3, <2>4, FS_Subset
  <2>6. Cardinality(R \ {e}) = Cardinality(R) - 1
    BY <1>1, <2>2, FS_RemoveElement
  <2> QED
    BY <1>1, <2>4, <2>5, <2>6, FS_CardinalityType, WorkerAuthAssumption
<1> QED
  BY <1>1, <1>2, <1>3
-----------------------------------------------------------------------------
(* The clock                                                               *)

\* time.time() does not go back, and two readings within an arrival are at most a
\* second apart.
LEMMA Readings ==
    ASSUME Types, NEW t, t = clock \/ t = NextReading(clock)
    PROVE  /\ t \in Time
           /\ clock.sec <= t.sec /\ t.sec <= clock.sec + 1
           /\ NotAfter(clock, t)
<1>1. clock \in [sec : Nat, frac : 0..(Fractions - 1)] /\ Fractions \in Nat \ {0}
  BY WorkerAuthAssumption DEF Types, Time
<1>2. CASE t = clock
  BY <1>1, <1>2 DEF Time, NotAfter
<1>3. CASE t = NextReading(clock) /\ clock.frac + 1 < Fractions
  <2>1. t = [clock EXCEPT !.frac = @ + 1]
    BY <1>3 DEF NextReading
  <2>2. t = [sec |-> clock.sec, frac |-> clock.frac + 1]
    BY <1>1, <2>1
  <2>3. t.sec = clock.sec /\ t.frac = clock.frac + 1
    BY <2>2
  <2>4. t.frac \in 0..(Fractions - 1)
    BY <1>1, <1>3, <2>3
  <2> QED
    BY <1>1, <2>2, <2>3, <2>4 DEF Time, NotAfter
<1>4. CASE t = NextReading(clock) /\ ~(clock.frac + 1 < Fractions)
  <2>1. t = [sec |-> clock.sec + 1, frac |-> 0]
    BY <1>4 DEF NextReading
  <2>2. t.sec = clock.sec + 1 /\ 0 \in 0..(Fractions - 1)
    BY <1>1, <2>1
  <2> QED
    BY <1>1, <2>1, <2>2 DEF Time, NotAfter
<1> QED
  BY <1>2, <1>3, <1>4

\* Comparing times is transitive.
LEMMA NotAfterTransitive ==
    ASSUME NEW a \in Time, NEW b \in Time, NEW c \in Time, NotAfter(a, b), NotAfter(b, c)
    PROVE  NotAfter(a, c)
BY WorkerAuthAssumption DEF Time, NotAfter

\* What Expiry gives: the same fraction, twice the skew later.
LEMMA ExpiryFacts ==
    ASSUME NEW t \in Time
    PROVE  /\ Expiry(t) \in Time
           /\ Expiry(t).sec = t.sec + 2 * MaxSkew /\ Expiry(t).frac = t.frac
<1>1. Expiry(t) = [sec |-> t.sec + 2 * MaxSkew, frac |-> t.frac]
  BY DEF Expiry, Time
<1> QED
  BY <1>1, WorkerAuthAssumption DEF Time

\* An entry that expires no later than what is added now also does so later.
LEMMA ExpiryLater ==
    ASSUME NEW a \in Time, NEW t \in Time, NEW e \in Time,
           NotAfter(a, t), NotAfter(e, Expiry(a))
    PROVE  NotAfter(e, Expiry(t))
<1>1. NotAfter(Expiry(a), Expiry(t))
  BY ExpiryFacts, WorkerAuthAssumption DEF Time, NotAfter
<1> QED
  BY <1>1, ExpiryFacts, NotAfterTransitive

-----------------------------------------------------------------------------
(* What the log and the entries hold                                       *)

\* Every record of the log is of a known request and of a start so far.
LEMMA LogFacts ==
    ASSUME Types
    PROVE  /\ Len(log) \in Nat /\ DOMAIN log = 1..Len(log)
           /\ \A i \in DOMAIN log :
                /\ log[i] = [nonce |-> log[i].nonce, epoch |-> log[i].epoch]
                /\ log[i].nonce \in Nonces /\ log[i].epoch \in 1..epoch
<1>1. Len(log) \in Nat /\ DOMAIN log = 1..Len(log)
  BY DEF Types
<1>2. ASSUME NEW i \in DOMAIN log
      PROVE  log[i] \in [nonce : Nonces, epoch : 1..epoch]
  BY <1>1, ElementOfSeq DEF Types
<1> QED
  BY <1>1, <1>2

\* Every entry is of an admitted request with a stamp.
LEMMA EntryFacts ==
    ASSUME Types, Stamped, Held, NEW e \in entries
    PROVE  /\ e.place \in DOMAIN log /\ e.place \in Nat
           /\ log[e.place].nonce = e.nonce /\ log[e.place].epoch = epoch
           /\ e.nonce \in Nonces /\ stamp[e.nonce] \in Nat
           /\ e.expires \in Time /\ e.expires.sec \in Nat
           /\ ClocksAgree => stamp[e.nonce] + MaxSkew + 2 <= e.expires.sec
<1>1. e \in Entry
  BY DEF Types
<1>2. /\ e.place \in DOMAIN log
      /\ log[e.place] = [nonce |-> e.nonce, epoch |-> epoch]
      /\ ClocksAgree => stamp[e.nonce] + MaxSkew + 2 <= e.expires.sec
  BY DEF Held
<1>3. log[e.place].nonce = e.nonce /\ log[e.place].epoch = epoch
  BY <1>2
<1>4. stamp[e.nonce] \in Nat
  BY <1>1, <1>2, <1>3 DEF Stamped, Types, Entry
<1> QED
  BY <1>1, <1>2, <1>3, <1>4 DEF Entry, Time

-----------------------------------------------------------------------------
(* Steps that admit nothing                                                *)

\* The clock moves, and consume may have dropped what expired.
LEMMA AgeStep ==
    ASSUME AuthInv, NEW t, t = clock \/ t = NextReading(clock), clock' = t,
           entries' = entries \/ entries' = Unexpired(t),
           UNCHANGED <<stamp, epoch, log>>
    PROVE  AuthInv'
<1>1. t \in Time /\ clock \in Time /\ clock.sec <= t.sec /\ NotAfter(clock, t)
  BY Readings DEF AuthInv, Types
<1>2. entries' \subseteq entries
        /\ \A e \in entries : e \notin entries' => NotAfter(e.expires, t)
  BY DEF Unexpired
<1>3. clock.sec \in Nat /\ t.sec \in Nat /\ MaxAhead \in Nat /\ MaxSkew \in Nat
  BY <1>1, WorkerAuthAssumption DEF Time
<1>4. Types'
  BY <1>1, <1>2 DEF AuthInv, Types
<1>5. Stamped'
  BY <1>1, <1>3 DEF AuthInv, Types, Stamped
<1>6. Held'
  <2> SUFFICES ASSUME NEW e \in entries' PROVE NotAfter(e.expires, Expiry(t))
    BY <1>2 DEF AuthInv, Held
  <2>1. e.expires \in Time /\ NotAfter(e.expires, Expiry(clock))
    BY <1>2 DEF AuthInv, Held, Types, Entry
  <2> QED
    BY <1>1, <2>1, ExpiryLater
<1>7. Ordered'
  BY <1>2 DEF AuthInv, Ordered
<1>8. Bounded'
  <2>1. IsFiniteSet(entries') /\ Cardinality(entries') <= Cardinality(entries)
    BY <1>2, FS_Subset DEF AuthInv, Bounded
  <2> QED
    BY <1>2, <2>1, FS_CardinalityType, WorkerAuthAssumption DEF AuthInv, Bounded
<1>9. ClocksAgree => Covered'
  <2> SUFFICES ASSUME ClocksAgree, NEW i \in DOMAIN log, log[i].epoch = epoch,
                      ~ (MaxEntries <= Cardinality(Since(i)))
               PROVE  \/ \E e \in entries' : e.place = i
                      \/ stamp[log[i].nonce] + MaxSkew < t.sec
    BY DEF Covered, Since
  <2>1. log[i].nonce \in Nonces /\ stamp[log[i].nonce] \in Nat
    BY LogFacts DEF AuthInv, Types, Stamped
  <2>2. CASE stamp[log[i].nonce] + MaxSkew < clock.sec
    BY <1>1, <1>3, <2>1, <2>2
  <2>3. CASE \E e \in entries : e.place = i
    <3>1. PICK e \in entries : e.place = i
      BY <2>3
    <3>2. e.expires \in Time /\ e.nonce = log[i].nonce
            /\ stamp[e.nonce] + MaxSkew + 2 <= e.expires.sec
      BY <3>1, EntryFacts DEF AuthInv
    <3>3. CASE e \notin entries'
      <4>1. e.expires.sec <= t.sec /\ e.expires.sec \in Nat
        BY <1>1, <1>2, <3>2, <3>3 DEF NotAfter, Time
      <4> QED
        BY <1>3, <2>1, <3>2, <4>1
    <3> QED
      BY <3>1, <3>3
  <2> QED
    BY <2>2, <2>3 DEF AuthInv, Covered
<1>10. ClocksAgree => AdmittedOnce'
  BY DEF AuthInv, AdmittedOnce
<1> QED
  BY <1>4, <1>5, <1>6, <1>7, <1>8, <1>9, <1>10 DEF AuthInv

\* RemoteSandboxExecutor._request signs.
LEMMA SignStep ==
    ASSUME AuthInv, NEW n \in Nonces, Sign(n)
    PROVE  AuthInv'
<1> USE WorkerAuthAssumption
<1>1. PICK ahead \in 0..MaxAhead : stamp' = [stamp EXCEPT ![n] = clock.sec + ahead]
  BY DEF Sign
<1>2. stamp[n] = None /\ UNCHANGED <<clock, entries, epoch, log>>
  BY DEF Sign
<1>3. clock.sec \in Nat /\ ahead \in Nat /\ ahead <= MaxAhead
  BY DEF AuthInv, Types, Time
<1>4. \A m \in Nonces \ {n} : stamp'[m] = stamp[m]
  BY <1>1 DEF AuthInv, Types
<1>5. stamp'[n] = clock.sec + ahead
  BY <1>1 DEF AuthInv, Types
<1>6. \A i \in DOMAIN log : log[i].nonce \in Nonces \ {n}
  BY <1>2, LogFacts DEF AuthInv, Stamped
<1>7. \A e \in entries : e.nonce \in Nonces \ {n}
  <2> SUFFICES ASSUME NEW e \in entries PROVE e.nonce \in Nonces \ {n}
    OBVIOUS
  <2>1. e.place \in DOMAIN log /\ log[e.place].nonce = e.nonce
    BY EntryFacts DEF AuthInv
  <2> QED
    BY <1>6, <2>1
<1>8. Types'
  BY <1>1, <1>2, <1>3 DEF AuthInv, Types
<1>9. Stamped'
  <2>1. \A m \in Nonces : stamp'[m] # None => stamp'[m] <= clock.sec + MaxAhead
    BY <1>3, <1>4, <1>5 DEF AuthInv, Stamped
  <2>2. \A i \in DOMAIN log : stamp'[log[i].nonce] # None
    BY <1>4, <1>6 DEF AuthInv, Stamped
  <2> QED
    BY <1>2, <2>1, <2>2 DEF Stamped
<1>10. Held' /\ Ordered' /\ Bounded'
  BY <1>2, <1>4, <1>7 DEF AuthInv, Held, Ordered, Bounded
<1>11. ClocksAgree => Covered'
  <2>1. \A i \in DOMAIN log : stamp'[log[i].nonce] = stamp[log[i].nonce]
    BY <1>4, <1>6
  <2>2. \A i : Since(i)' = Since(i)
    BY <1>2 DEF Since
  <2> QED
    BY <1>2, <2>1, <2>2 DEF AuthInv, Covered
<1>12. ClocksAgree => AdmittedOnce'
  BY <1>2 DEF AuthInv, AdmittedOnce
<1> QED
  BY <1>8, <1>9, <1>10, <1>11, <1>12 DEF AuthInv

\* create_worker_app: an empty guard.
LEMMA RestartStep ==
    ASSUME AuthInv, Restart
    PROVE  AuthInv'
<1> USE WorkerAuthAssumption
<1>1. entries' = {} /\ epoch' = epoch + 1 /\ epoch < MaxEpoch
        /\ UNCHANGED <<clock, stamp, log>>
  BY DEF Restart
<1>2. epoch \in Nat /\ epoch' \in 1..MaxEpoch
  BY <1>1 DEF AuthInv, Types
<1>3. \A i \in DOMAIN log : log[i].epoch \in 1..epoch
  BY LogFacts DEF AuthInv
<1>4. Types'
  <2>1. log \in Seq([nonce : Nonces, epoch : 1..epoch'])
    <3> DEFINE A == [nonce : Nonces, epoch : 1..epoch]
               B == [nonce : Nonces, epoch : 1..epoch']
    <3>1. A \subseteq B
      BY <1>1, <1>2
    <3>2. log \in Seq(A)
      BY DEF AuthInv, Types
    <3> HIDE DEF A, B
    <3>3. log \in Seq(B)
      BY <3>1, <3>2, SeqMonotonic
    <3> QED
      BY <3>3 DEF B
  <2> QED
    BY <1>1, <1>2, <2>1 DEF AuthInv, Types
<1>5. Stamped' /\ Held' /\ Ordered'
  BY <1>1 DEF AuthInv, Stamped, Held, Ordered
<1>6. Bounded'
  BY <1>1, FS_EmptySet DEF Bounded
<1>7. Covered'
  <2>1. \A i \in DOMAIN log : log[i].epoch # epoch'
    BY <1>1, <1>2, <1>3
  <2> QED
    BY <1>1, <2>1 DEF Covered
<1>8. ClocksAgree => AdmittedOnce'
  BY <1>1 DEF AuthInv, AdmittedOnce
<1> QED
  BY <1>4, <1>5, <1>6, <1>7, <1>8 DEF AuthInv

-----------------------------------------------------------------------------
(* An admission                                                            *)

\* Finitely many requests are admitted between two places of a log.
LEMMA NoncesFinite ==
    ASSUME NEW s, NEW a \in Nat, NEW b \in Nat
    PROVE  IsFiniteSet({s[k].nonce : k \in a..b})
<1> DEFINE f == [k \in a..b |-> s[k].nonce]
           T == {s[k].nonce : k \in a..b}
<1>1. f \in Surjection(a..b, T)
  BY DEF Surjection
<1>2. IsFiniteSet(a..b)
  BY FS_Interval
<1> QED
  BY <1>1, <1>2, FS_Surjection

\* When consume drops an entry to make room, as many requests as the guard has room
\* for were admitted after it, the one that is being admitted included.
LEMMA CrowdedOut ==
    ASSUME AuthInv, NEW n \in Nonces, NEW t, Fresh(n, t),
           NEW e \in Unexpired(t) \ Room(Unexpired(t))
    PROVE  MaxEntries <= Cardinality(Since(e.place) \cup {n})
<1> USE WorkerAuthAssumption
<1> DEFINE W == Newer(Unexpired(t), e)
           U == Since(e.place) \cup {n}
           f == [w \in W |-> w.nonce]
<1>0. W \subseteq entries /\ IsFiniteSet(W)
  BY FS_Subset DEF Newer, Unexpired, AuthInv, Bounded
<1>1. ~ (Cardinality(W) < MaxEntries - 1)
  BY DEF Room
<1>2. \A w \in W : w.nonce \in Since(e.place) /\ w.nonce # n
  <2> SUFFICES ASSUME NEW w \in W PROVE w.nonce \in Since(e.place) /\ w.nonce # n
    OBVIOUS
  <2>1. w \in entries /\ e.place < w.place /\ w.nonce # n /\ e \in entries
    BY DEF Newer, Unexpired, Fresh
  <2>2. /\ w.place \in 1..Len(log) /\ e.place \in 1..Len(log) /\ Len(log) \in Nat
        /\ log[w.place].nonce = w.nonce
    BY <2>1, EntryFacts, LogFacts DEF AuthInv
  <2>3. w.place \in e.place + 1 .. Len(log)
    BY <2>1, <2>2
  <2> QED
    BY <2>1, <2>2, <2>3 DEF Since
<1>3. f \in Injection(W, U \ {n})
  <2>1. f \in [W -> U \ {n}]
    BY <1>2
  <2>2. \A v, w \in W : f[v] = f[w] => v = w
    BY <1>0 DEF AuthInv, Ordered
  <2> HIDE DEF W, U, f
  <2> QED
    BY <2>1, <2>2 DEF Injection, IsInjective
<1>4. IsFiniteSet(U)
  <2>1. e \in entries
    BY DEF Unexpired
  <2>2. e.place + 1 \in Nat /\ Len(log) \in Nat
    BY <2>1, EntryFacts, LogFacts DEF AuthInv
  <2>3. IsFiniteSet(Since(e.place))
    BY <2>2, NoncesFinite DEF Since
  <2> QED
    BY <2>3, FS_AddElement
<1>5. IsFiniteSet(U \ {n}) /\ Cardinality(U \ {n}) = Cardinality(U) - 1
  BY <1>4, FS_RemoveElement
<1>6. Cardinality(W) <= Cardinality(U \ {n})
  <2> HIDE DEF W, U, f
  <2> QED
    BY <1>3, <1>5, FS_Injection
<1> QED
  BY <1>0, <1>1, <1>4, <1>5, <1>6, FS_CardinalityType

\* The admitted request was not admitted since the start, unless it was crowded
\* out: it would be remembered, or too old.
LEMMA AdmittedAfresh ==
    ASSUME AuthInv, ClocksAgree, NEW n \in Nonces, NEW t, t = clock \/ t = NextReading(clock),
           stamp[n] # None, ~Stale(stamp[n], clock), Fresh(n, t),
           NEW i \in DOMAIN log, log[i] = [nonce |-> n, epoch |-> epoch]
    PROVE  MaxEntries <= Cardinality(Since(i))
<1> USE WorkerAuthAssumption
<1>1. clock.sec \in Nat /\ t.sec \in Nat /\ t.sec <= clock.sec + 1 /\ t \in Time
  BY Readings DEF AuthInv, Types, Time
<1>2. stamp[n] \in Nat /\ ~(stamp[n] + MaxSkew < clock.sec)
  BY DEF AuthInv, Types, Stale
<1>3. log[i].nonce = n /\ log[i].epoch = epoch
  OBVIOUS
<1>4. ASSUME NEW e \in entries, e.place = i PROVE FALSE
  <2>1. /\ e.nonce = n /\ e.expires \in Time /\ e.expires.sec \in Nat
        /\ stamp[n] + MaxSkew + 2 <= e.expires.sec
    BY <1>3, <1>4, EntryFacts DEF AuthInv
  <2>2. NotAfter(e.expires, t)
    BY <2>1 DEF Fresh, Unexpired
  <2>3. e.expires.sec <= t.sec
    BY <1>1, <2>1, <2>2 DEF NotAfter
  <2> QED
    BY <1>1, <1>2, <2>1, <2>3
<1> QED
  BY <1>2, <1>3, <1>4 DEF AuthInv, Covered

\* A timely, genuine and fresh request is admitted and remembered.
LEMMA AdmitStep ==
    ASSUME AuthInv, NEW n \in Nonces, NEW t, t = clock \/ t = NextReading(clock),
           clock' = t, stamp[n] # None, ~Stale(stamp[n], clock), Fresh(n, t),
           Consume(n, t), Admitted(n), UNCHANGED <<stamp, epoch>>
    PROVE  AuthInv'
<1> USE WorkerAuthAssumption
<1> DEFINE L == Len(log)
           S == Unexpired(t)
           new == [nonce |-> n, expires |-> Expiry(t), place |-> L + 1]
<1>1. /\ t \in Time /\ t.sec \in Nat /\ clock \in Time /\ clock.sec \in Nat
      /\ clock.sec <= t.sec /\ t.sec <= clock.sec + 1 /\ NotAfter(clock, t)
  BY Readings DEF AuthInv, Types, Time
<1>2. entries' = Room(S) \cup {new}
  BY DEF Consume
<1>3. S \subseteq entries /\ Room(S) \subseteq S
        /\ \A e \in entries : e \notin S => NotAfter(e.expires, t)
  BY DEF Unexpired, Room
<1>4. L \in Nat /\ DOMAIN log = 1..L
  BY LogFacts DEF AuthInv
<1>5. /\ Len(log') = L + 1 /\ DOMAIN log' = 1..(L + 1)
      /\ \A i \in 1..L : log'[i] = log[i]
      /\ log'[L + 1] = [nonce |-> n, epoch |-> epoch]
  BY <1>4 DEF Admitted, AuthInv, Types
<1>6. log' \in Seq([nonce : Nonces, epoch : 1..epoch])
  <2>1. [nonce |-> n, epoch |-> epoch] \in [nonce : Nonces, epoch : 1..epoch]
    BY DEF AuthInv, Types
  <2> QED
    BY <2>1 DEF Admitted, AuthInv, Types
<1>7. stamp[n] \in Nat /\ stamp[n] <= clock.sec + MaxAhead
  BY DEF AuthInv, Types, Stamped
<1>8. /\ Expiry(t) \in Time /\ Expiry(t).sec = t.sec + 2 * MaxSkew
      /\ Expiry(t).frac = t.frac
  BY <1>1, ExpiryFacts
<1>9. Types'
  <2>1. new \in Entry
    BY <1>4, <1>8 DEF Entry
  <2> QED
    BY <1>1, <1>2, <1>3, <1>6, <2>1 DEF AuthInv, Types
<1>10. Stamped'
  <2>1. \A m \in Nonces : stamp[m] # None => stamp[m] <= t.sec + MaxAhead
    BY <1>1 DEF AuthInv, Types, Stamped
  <2>2. \A i \in DOMAIN log' : stamp[log'[i].nonce] # None
    BY <1>4, <1>5 DEF AuthInv, Stamped
  <2> QED
    BY <2>1, <2>2 DEF Stamped
<1>11. \A e \in entries : NotAfter(e.expires, Expiry(t))
  <2> SUFFICES ASSUME NEW e \in entries PROVE NotAfter(e.expires, Expiry(t))
    OBVIOUS
  <2>1. e.expires \in Time /\ NotAfter(e.expires, Expiry(clock))
    BY EntryFacts DEF AuthInv, Held
  <2> QED
    BY <1>1, <2>1, ExpiryLater
<1>12. Held'
  <2> SUFFICES ASSUME NEW e \in entries'
               PROVE  /\ e.place \in DOMAIN log'
                      /\ log'[e.place] = [nonce |-> e.nonce, epoch |-> epoch]
                      /\ NotAfter(e.expires, Expiry(t))
                      /\ ClocksAgree => stamp[e.nonce] + MaxSkew + 2 <= e.expires.sec
    BY DEF Held
  <2>1. CASE e \in entries
    BY <1>4, <1>5, <1>11, <2>1 DEF AuthInv, Held
  <2>2. CASE e = new
    <3>1. e.place = L + 1 /\ e.nonce = n /\ e.expires = Expiry(t)
      BY <2>2
    <3>2. NotAfter(Expiry(t), Expiry(t))
      BY <1>1, <1>8 DEF NotAfter, Time
    <3>3. ClocksAgree => stamp[n] + MaxSkew + 2 <= Expiry(t).sec
      BY <1>1, <1>7, <1>8 DEF ClocksAgree
    <3> QED
      BY <1>4, <1>5, <3>1, <3>2, <3>3
  <2> QED
    BY <1>2, <1>3, <2>1, <2>2
<1>13. Ordered'
  <2> SUFFICES ASSUME NEW e \in entries', NEW f \in entries'
               PROVE  /\ e # f => e.nonce # f.nonce
                      /\ e.place < f.place => NotAfter(e.expires, f.expires)
    BY DEF Ordered
  <2>1. \A g \in Room(S) : g.nonce # n /\ g.place \in 1..L /\ g \in entries
    BY <1>3, <1>4, EntryFacts DEF Fresh, AuthInv
  <2>2. new.nonce = n /\ new.place = L + 1 /\ new.expires = Expiry(t)
    OBVIOUS
  <2>3. CASE e \in Room(S) /\ f \in Room(S)
    BY <2>1, <2>3 DEF AuthInv, Ordered
  <2>4. CASE e \in Room(S) /\ f = new
    BY <1>4, <1>11, <2>1, <2>2, <2>4
  <2>5. CASE e = new /\ f \in Room(S)
    BY <1>4, <2>1, <2>2, <2>5
  <2>6. CASE e = new /\ f = new
    BY <1>4, <2>2, <2>6
  <2> QED
    BY <1>2, <2>3, <2>4, <2>5, <2>6
<1>14. Bounded'
  <2>1. IsFiniteSet(S)
    BY <1>3, FS_Subset DEF AuthInv, Bounded
  <2>2. \A e \in S : e.place \in Nat
    BY <1>3, EntryFacts DEF AuthInv
  <2>3. ASSUME NEW e \in S, NEW f \in S, e.place = f.place PROVE e = f
    <3>1. e \in entries /\ f \in entries
      BY <1>3
    <3>2. log[e.place].nonce = e.nonce /\ log[f.place].nonce = f.nonce
      BY <3>1, EntryFacts DEF AuthInv
    <3> QED
      BY <2>3, <3>1, <3>2 DEF AuthInv, Ordered
  <2>4. IsFiniteSet(Room(S)) /\ Cardinality(Room(S)) <= MaxEntries - 1
    <3> HIDE DEF S
    <3> QED
      BY <2>1, <2>2, <2>3, RoomBounded
  <2>5. /\ IsFiniteSet(Room(S) \cup {new})
        /\ Cardinality(Room(S) \cup {new}) <= Cardinality(Room(S)) + 1
    <3> HIDE DEF S, new
    <3>1. /\ IsFiniteSet(Room(S) \cup {new})
          /\ \/ Cardinality(Room(S) \cup {new}) = Cardinality(Room(S))
             \/ Cardinality(Room(S) \cup {new}) = Cardinality(Room(S)) + 1
      BY <2>4, FS_AddElement
    <3>2. Cardinality(Room(S)) \in Nat
      BY <2>4, FS_CardinalityType
    <3> QED
      BY <3>1, <3>2
  <2>6. Cardinality(Room(S)) \in Nat /\ Cardinality(Room(S) \cup {new}) \in Nat
    BY <2>4, <2>5, FS_CardinalityType
  <2> QED
    BY <1>2, <2>4, <2>5, <2>6 DEF Bounded
<1>15. \A i \in 1..L : Since(i)' = Since(i) \cup {n}
  <2> SUFFICES ASSUME NEW i \in 1..L PROVE Since(i)' = Since(i) \cup {n}
    OBVIOUS
  <2>1. Since(i)' = {log'[k].nonce : k \in i+1 .. L+1}
    BY <1>5 DEF Since
  <2>2. i+1 .. L+1 = (i+1 .. L) \cup {L+1}
    BY <1>4
  <2>3. \A k \in i+1 .. L : log'[k] = log[k]
    BY <1>4, <1>5
  <2> QED
    BY <1>4, <1>5, <2>1, <2>2, <2>3 DEF Since
<1>16. \A i \in 1..L : MaxEntries <= Cardinality(Since(i))
                          => MaxEntries <= Cardinality(Since(i)')
  <2> SUFFICES ASSUME NEW i \in 1..L, MaxEntries <= Cardinality(Since(i))
               PROVE  MaxEntries <= Cardinality(Since(i)')
    OBVIOUS
  <2>0. i + 1 \in Nat
    BY <1>4
  <2>1. IsFiniteSet(Since(i))
    BY <1>4, <2>0, NoncesFinite DEF Since
  <2>2. Cardinality(Since(i) \cup {n}) \in {Cardinality(Since(i)), Cardinality(Since(i)) + 1}
    BY <2>1, FS_AddElement
  <2>3. Since(i)' = Since(i) \cup {n}
    BY <1>15
  <2> QED
    BY <2>1, <2>2, <2>3, FS_CardinalityType
<1>17. ClocksAgree => Covered'
  <2> SUFFICES ASSUME ClocksAgree, NEW i \in DOMAIN log', log'[i].epoch = epoch
               PROVE  \/ \E e \in entries' : e.place = i
                      \/ stamp[log'[i].nonce] + MaxSkew < t.sec
                      \/ MaxEntries <= Cardinality(Since(i)')
    BY DEF Covered
  <2>1. CASE i = L + 1
    <3>1. new \in entries' /\ new.place = L + 1
      BY <1>2
    <3> QED
      BY <2>1, <3>1
  <2>2. CASE i \in 1..L
    <3>1. i \in DOMAIN log /\ log'[i] = log[i] /\ log[i].epoch = epoch
      BY <1>4, <1>5, <2>2
    <3>2. stamp[log[i].nonce] \in Nat
      BY <3>1, LogFacts DEF AuthInv, Types, Stamped
    <3>3. CASE stamp[log[i].nonce] + MaxSkew < clock.sec
      BY <1>1, <3>1, <3>2, <3>3
    <3>4. CASE MaxEntries <= Cardinality(Since(i))
      BY <1>16, <2>2, <3>4
    <3>5. CASE \E e \in entries : e.place = i
      <4>1. PICK e \in entries : e.place = i
        BY <3>5
      <4>2. CASE e \in Room(S)
        BY <1>2, <4>1, <4>2
      <4>3. CASE e \notin S
        <5>1. /\ e.nonce = log[i].nonce /\ e.expires \in Time /\ e.expires.sec \in Nat
              /\ stamp[e.nonce] + MaxSkew + 2 <= e.expires.sec
          BY <4>1, EntryFacts DEF AuthInv
        <5>2. e.expires.sec <= t.sec
          BY <1>1, <1>3, <4>3, <5>1 DEF NotAfter
        <5> QED
          BY <1>1, <3>1, <3>2, <5>1, <5>2
      <4>4. CASE e \in S \ Room(S)
        <5>1. MaxEntries <= Cardinality(Since(e.place) \cup {n})
          BY <4>4, CrowdedOut
        <5> QED
          BY <1>15, <2>2, <4>1, <5>1
      <4> QED
        BY <4>2, <4>3, <4>4
    <3> QED
      BY <3>1, <3>3, <3>4, <3>5 DEF AuthInv, Covered
  <2> QED
    BY <1>4, <1>5, <2>1, <2>2
<1>18. ClocksAgree => AdmittedOnce'
  <2> SUFFICES ASSUME ClocksAgree, NEW i \in DOMAIN log', NEW j \in DOMAIN log',
                      i < j, log'[i] = log'[j]
               PROVE  MaxEntries <= Cardinality({log'[k].nonce : k \in i+1 .. j-1})
    BY DEF AdmittedOnce
  <2>1. i \in 1..L /\ i \in DOMAIN log /\ log'[i] = log[i]
    BY <1>4, <1>5
  <2>2. \A k \in i+1 .. j-1 : log'[k] = log[k]
    BY <1>4, <1>5, <2>1
  <2>3. {log'[k].nonce : k \in i+1 .. j-1} = {log[k].nonce : k \in i+1 .. j-1}
    BY <2>2
  <2>4. CASE j \in 1..L
    <3>1. j \in DOMAIN log /\ log[i] = log[j]
      BY <1>4, <1>5, <2>1, <2>4
    <3>2. Cardinality({log[k].nonce : k \in i+1 .. j-1}) >= MaxEntries
      BY <2>1, <3>1 DEF AuthInv, AdmittedOnce
    <3>3. IsFiniteSet({log[k].nonce : k \in i+1 .. j-1})
      <4>1. i + 1 \in Nat /\ j - 1 \in Nat
        BY <2>1, <2>4
      <4> QED
        BY <4>1, NoncesFinite
    <3> QED
      BY <2>3, <3>2, <3>3, FS_CardinalityType
  <2>5. CASE j = L + 1
    <3>1. log[i] = [nonce |-> n, epoch |-> epoch]
      BY <1>5, <2>1, <2>5
    <3>2. MaxEntries <= Cardinality(Since(i))
      BY <2>1, <3>1, AdmittedAfresh
    <3>3. Since(i) = {log[k].nonce : k \in i+1 .. j-1}
      <4>1. j - 1 = L
        BY <1>4, <2>5
      <4> QED
        BY <4>1 DEF Since
    <3> QED
      BY <2>3, <3>2, <3>3
  <2> QED
    BY <1>4, <1>5, <2>4, <2>5
<1> QED
  BY <1>9, <1>10, <1>12, <1>13, <1>14, <1>17, <1>18 DEF AuthInv

-----------------------------------------------------------------------------
(* The theorems                                                            *)

\* A new worker remembers nothing.
LEMMA AuthInvInit ==
    ASSUME Init
    PROVE  AuthInv
<1> USE WorkerAuthAssumption DEF Init
<1>1. Types
  BY DEF Types, Time
<1>2. Stamped /\ Held /\ Ordered /\ Covered /\ AdmittedOnce
  BY DEF Stamped, Held, Ordered, Covered, AdmittedOnce
<1>3. Bounded
  BY FS_EmptySet DEF Bounded
<1> QED
  BY <1>1, <1>2, <1>3 DEF AuthInv

\* Every step of the worker, the clock and the network keeps the invariant.
LEMMA AuthInvStep ==
    ASSUME AuthInv, [Next]_vars
    PROVE  AuthInv'
<1>1. CASE Tick
  BY <1>1, AgeStep DEF Tick
<1>2. CASE Restart
  BY <1>2, RestartStep
<1>3. ASSUME NEW n \in Nonces, Sign(n) PROVE AuthInv'
  BY <1>3, SignStep
<1>4. ASSUME NEW n \in Nonces, Arrive(n) PROVE AuthInv'
  <2>1. stamp[n] # None /\ UNCHANGED <<stamp, epoch>>
    BY <1>4 DEF Arrive
  <2>2. CASE UNCHANGED <<clock, entries, log>>
    BY <2>1, <2>2, AgeStep
  <2>3. ASSUME NEW genuine \in BOOLEAN, NEW t \in {clock, NextReading(clock)},
               genuine => ~Stale(stamp[n], clock), clock' = t, Admit(n, genuine, t)
        PROVE  AuthInv'
    <3>1. CASE ~genuine
      <4>1. UNCHANGED <<entries, log>>
        BY <2>3, <3>1 DEF Admit
      <4> QED
        BY <2>1, <2>3, <4>1, AgeStep
    <3>2. CASE genuine /\ ~Fresh(n, t)
      <4>1. entries' = Unexpired(t) /\ UNCHANGED log
        BY <2>3, <3>2 DEF Admit, Consume
      <4> QED
        BY <2>1, <2>3, <4>1, AgeStep
    <3>3. CASE genuine /\ Fresh(n, t)
      <4>1. Consume(n, t) /\ Admitted(n)
        BY <2>3, <3>3 DEF Admit
      <4> QED
        BY <2>1, <2>3, <3>3, <4>1, AdmitStep
    <3> QED
      BY <3>1, <3>2, <3>3
  <2> QED
    BY <1>4, <2>2, <2>3 DEF Arrive
<1>5. CASE UNCHANGED vars
  BY <1>5, AgeStep DEF vars
<1> QED
  BY <1>1, <1>2, <1>3, <1>4, <1>5 DEF Next

\* The invariant holds for ever.
LEMMA AuthInvAlways == Spec => []AuthInv
<1>1. Init => AuthInv
  BY AuthInvInit
<1>2. AuthInv /\ [Next]_vars => AuthInv'
  BY AuthInvStep
<1> QED
  BY <1>1, <1>2, PTL DEF Spec

\* The nonce guard keeps within max_entries, holds no nonce twice and keeps its
\* entries in the order in which they expire.
THEOREM GuardTypeCorrect == Spec => []TypeOK
<1>1. ASSUME AuthInv PROVE TypeOK
  <2>1. \A n \in Nonces : stamp[n] # None => stamp[n] \in Nat
    BY <1>1 DEF AuthInv, Types
  <2>2. \A e \in entries : e.nonce \in Nonces /\ e.expires \in Time
    BY <1>1, EntryFacts DEF AuthInv
  <2>3. \A i \in DOMAIN log : log[i].nonce \in Nonces /\ log[i].epoch \in 1..epoch
    BY <1>1, LogFacts DEF AuthInv
  <2> QED
    BY <1>1, <2>1, <2>2, <2>3 DEF AuthInv, Types, Ordered, Bounded, TypeOK
<1> QED
  BY <1>1, AuthInvAlways, PTL

\* A request is admitted once between two starts of the worker, unless max_entries
\* other requests were admitted in between, for clocks that agree.
THEOREM RequestsAdmittedOnce ==
    ASSUME ClocksAgree
    PROVE  Spec => []AdmittedOnce
<1>1. AuthInv => AdmittedOnce
  BY DEF AuthInv
<1> QED
  BY <1>1, AuthInvAlways, PTL

\* A nonce is used up only by a request that was admitted since the worker started.
THEOREM HeldNoncesWereAdmitted == Spec => []HeldMeansAdmitted
<1>1. ASSUME AuthInv PROVE HeldMeansAdmitted
  BY <1>1 DEF AuthInv, Held, HeldMeansAdmitted
<1> QED
  BY <1>1, AuthInvAlways, PTL
=============================================================================
