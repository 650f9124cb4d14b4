----------------------------- MODULE WorkerAuth -----------------------------
(***************************************************************************)
(* How the sandbox worker admits a signed request: the middleware          *)
(* authenticate_worker_request and NonceReplayGuard.consume                *)
(* (app/sandbox_worker.py), with the signing side of                       *)
(* app/remote_sandbox.py.                                                  *)
(*                                                                         *)
(* Between the reading of the body and consume the middleware awaits       *)
(* nothing, so an arrival is one step.  Inside it the clock is read twice, *)
(* once in whole seconds for the staleness check and once with fractions   *)
(* for the nonce, and may advance in between.                              *)
(***************************************************************************)
EXTENDS Naturals, Sequences, FiniteSets

CONSTANTS
    Nonces,         \* one per call of _request: secrets.token_urlsafe(24)
    MaxSkew,        \* max_clock_skew_seconds
    MaxEntries,     \* capacity of the guard
    Fractions,      \* clock readings per second
    MaxAhead,       \* seconds by which the API's clock may be ahead
    MaxSecond,      \* bound on the worker's clock
    MaxAccepted,    \* bound on admitted requests
    MaxEpoch,       \* bound on starts of the worker
    None

ASSUME WorkerAuthAssumption ==
    /\ MaxSkew \in Nat /\ MaxEntries \in Nat \ {0} /\ Fractions \in Nat \ {0}
    /\ MaxAhead \in Nat
    /\ MaxSecond \in Nat /\ MaxAccepted \in Nat /\ MaxEpoch \in Nat \ {0}
    /\ None \notin Nat

\* A reading of time.time().
Time == [sec : Nat, frac : 0..(Fractions - 1)]

NotAfter(a, b) == a.sec < b.sec \/ (a.sec = b.sec /\ a.frac <= b.frac)

VARIABLES
    clock,     \* the worker's clock
    stamp,     \* timestamp in the signed request of each nonce, or None
    entries,   \* the guard's OrderedDict: nonces, when they expire, and the place
               \* of their admission in log, which is the order of the dict
    epoch,     \* the number of starts of the worker
    log        \* admitted requests: nonce and epoch

vars == <<clock, stamp, entries, epoch, log>>

Init ==
    /\ clock = [sec |-> 0, frac |-> 0]
    /\ stamp = [n \in Nonces |-> None]
    /\ entries = {}
    /\ epoch = 1
    /\ log = <<>>

-----------------------------------------------------------------------------
NextReading(t) ==
    IF t.frac + 1 < Fractions THEN [t EXCEPT !.frac = @ + 1]
                              ELSE [sec |-> t.sec + 1, frac |-> 0]

Tick ==
    /\ clock.sec < MaxSecond
    /\ clock' = NextReading(clock)
    /\ UNCHANGED <<stamp, entries, epoch, log>>

\* RemoteSandboxExecutor._request signs with a fresh nonce and its own clock.  A
\* clock that is behind the worker's is the same as a request that is under way
\* for longer.
Sign(n) ==
    /\ stamp[n] = None
    /\ \E ahead \in 0..MaxAhead : stamp' = [stamp EXCEPT ![n] = clock.sec + ahead]
    /\ UNCHANGED <<clock, entries, epoch, log>>

\* abs(int(time.time()) - request_time) > max_clock_skew_seconds
Stale(ts, t) == ts + MaxSkew < t.sec \/ t.sec + MaxSkew < ts

\* Mutant: an entry lives as long as the skew, not twice as long.
ExpiryAfterSkew(t) == [t EXCEPT !.sec = @ + MaxSkew]

\* current + ttl_seconds, where create_worker_app sets ttl_seconds to twice the skew.
Expiry(t) == [t EXCEPT !.sec = @ + 2 * MaxSkew]

\* The entries that consume keeps at time t.
Unexpired(t) == {e \in entries : ~NotAfter(e.expires, t)}

\* The entries of S that were inserted after e.
Newer(S, e) == {f \in S : e.place < f.place}

\* Mutant: the capacity is checked off by one.
RoomOffByOne(S) == {e \in S : Cardinality(Newer(S, e)) < MaxEntries}

\* popitem(last=False) until there is room for one more: the MaxEntries - 1 newest
\* entries stay.
Room(S) == {e \in S : Cardinality(Newer(S, e)) < MaxEntries - 1}

\* consume returns True at time t.
Fresh(n, t) == \A e \in Unexpired(t) : e.nonce # n

\* What NonceReplayGuard.consume does to its entries.
Consume(n, t) ==
    entries' = IF Fresh(n, t)
               THEN Room(Unexpired(t))
                        \cup {[nonce |-> n, expires |-> Expiry(t), place |-> Len(log) + 1]}
               ELSE Unexpired(t)

\* The request goes on to the endpoint.
Admitted(n) ==
    /\ Len(log) < MaxAccepted
    /\ log' = Append(log, [nonce |-> n, epoch |-> epoch])

\* Mutant: the nonce is consumed before the signature is verified.
AdmitConsumingFirst(n, genuine, t) ==
    /\ Consume(n, t)
    /\ IF genuine /\ Fresh(n, t) THEN Admitted(n) ELSE UNCHANGED log

\* Signature first, nonce second; 403 and 409 otherwise.
Admit(n, genuine, t) ==
    \/ /\ genuine
       /\ Consume(n, t)
       /\ IF Fresh(n, t) THEN Admitted(n) ELSE UNCHANGED log
    \/ ~genuine /\ UNCHANGED <<entries, log>>

\* A copy of a request arrives: at once, late, or again.  One that was damaged on
\* the way may be refused before its time is looked at, or pass for timely and
\* fail at the signature.
Arrive(n) ==
    /\ stamp[n] # None
    /\ UNCHANGED <<stamp, epoch>>
    /\ \/ UNCHANGED <<clock, entries, log>>
       \/ \E genuine \in BOOLEAN, t \in {clock, NextReading(clock)} :
          /\ genuine => ~Stale(stamp[n], clock)
          /\ t.sec <= MaxSecond
          /\ clock' = t
          /\ Admit(n, genuine, t)

\* The guard's entries are in memory only.
Restart ==
    /\ epoch < MaxEpoch
    /\ epoch' = epoch + 1
    /\ entries' = {}
    /\ UNCHANGED <<clock, stamp, log>>

Next == Tick \/ Restart \/ \E n \in Nonces : Sign(n) \/ Arrive(n)

Spec == Init /\ [][Next]_vars

-----------------------------------------------------------------------------
(* Properties                                                              *)

\* The guard never holds more than its capacity, nor the same nonce twice, and
\* keeps its entries in the order in which they expire (consume drops the oldest
\* when it needs room).
TypeOK ==
    /\ clock \in Time
    /\ \A n \in Nonces : stamp[n] # None => stamp[n] \in Nat
    /\ Cardinality(entries) <= MaxEntries
    /\ \A e \in entries : e.nonce \in Nonces /\ e.expires \in Time
    /\ \A e, f \in entries :
          /\ e # f => e.nonce # f.nonce
          /\ e.place < f.place => NotAfter(e.expires, f.expires)
    /\ epoch \in 1..MaxEpoch
    /\ \A i \in DOMAIN log : log[i].nonce \in Nonces /\ log[i].epoch \in 1..epoch

\* Between two starts of the worker a request is admitted once, however often
\* and however late its copies arrive, unless so many others were admitted in
\* between that the guard had to forget it (NonceReplayGuard.consume and the
\* staleness check cover each other's window).
AdmittedOnce ==
    \A i, j \in DOMAIN log :
        i < j /\ log[i] = log[j] =>
            Cardinality({log[k].nonce : k \in i+1 .. j-1}) >= MaxEntries

\* A nonce is held only for a request that was admitted since the worker started:
\* a copy that was refused for another reason than replay does not use it up
\* (the signature is verified before consume is called).
HeldMeansAdmitted ==
    \A e \in entries :
        \E j \in DOMAIN log : log[j] = [nonce |-> e.nonce, epoch |-> epoch]
=============================================================================
