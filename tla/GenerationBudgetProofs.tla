----------------------- MODULE GenerationBudgetProofs -----------------------
(***************************************************************************)
(* Proofs about GenerationBudget, for every set of configurations, every   *)
(* clock resolution and every bound on the clock.  IInv keeps the token    *)
(* pool and the global deadline.  AuditInv adds the books of the results   *)
(* so far, each dealt with at the totals the ones before it left: from     *)
(* them no run is refused in its third transaction and every recorded run  *)
(* passes the audit of startup, verify and repair.                         *)
(***************************************************************************)
EXTENDS GenerationBudget, WellFoundedInduction, FiniteSetTheorems, SequenceTheorems,
        TLAPS

\* What the two properties rest on: the runner's scalar state is well typed
\* and the properties themselves hold.
IInv ==
  /\ run \in Configurations
  /\ phase \in {"choosing", "calling", "generated", "recorded", "rejected"}
  /\ elapsed \in Nat /\ consumed \in Nat
  /\ call \in [before : Nat, timeout : Nat, global : BOOLEAN]
  /\ PoolHolds
  /\ AttemptsEndInTime

\* The arithmetic of one configuration.
LEMMA ConfigurationFacts ==
  ASSUME run \in Configurations
  PROVE  /\ run.per \in Nat /\ run.total \in Nat \ {0} /\ run.operators \in Nat \ {0}
         /\ run.reserves \in BOOLEAN
         /\ Reservation \in Nat
         /\ GlobalDeadline \in Nat /\ OperatorAllowance \in Nat
         /\ OperatorAllowance > 0
<1>1. run \in Configuration
  BY ConfigurationsAssumption
<1>2. run.operatorTimeout \in Nat \ {0} /\ run.globalTimeout \in Nat \ {0}
      /\ run.per \in Nat /\ run.total \in Nat \ {0} /\ run.reserves \in BOOLEAN
      /\ run.operators \in Nat \ {0}
  BY <1>1 DEF Configuration
<1>3. \A m, n \in Nat \ {0} : m * n \in Nat /\ m * n > 0
  OBVIOUS
<1>4. QED BY <1>2, <1>3, ConstantsAssumption DEF Reservation, GlobalDeadline, OperatorAllowance

\* The loop goes on or ends; it never falls back into a call.
LEMMA PhaseAfterFacts ==
  \A done : PhaseAfter(done) \in {"choosing", "generated"}
BY DEF PhaseAfter

\* An attempt that ends by itself keeps the invariant if it is charged at most
\* its reservation.
LEMMA SettleKeeps ==
  ASSUME IInv, phase = "calling", NEW code, NEW used \in 0..Reservation, NEW t \in Nat,
         Settle(code, used, t)
  PROVE  IInv'
<1> USE DEF IInv
<1>1. Reservation \in Nat /\ run.total \in Nat
  BY ConfigurationFacts
<1>2. run' = run /\ elapsed' = t /\ call' = NoCall /\ consumed' = consumed + used
      /\ phase' \in {"choosing", "generated"}
  BY PhaseAfterFacts DEF Settle
<1>3. consumed' \in Nat /\ consumed' <= run.total
  BY <1>1, <1>2 DEF PoolHolds
<1>4. PoolHolds' /\ AttemptsEndInTime'
  BY <1>2, <1>3 DEF PoolHolds, AttemptsEndInTime, Reservation
<1>5. call' \in [before : Nat, timeout : Nat, global : BOOLEAN]
  BY <1>2 DEF NoCall
<1>6. QED BY <1>2, <1>3, <1>4, <1>5

\* The invariant holds from the start and every step keeps it.
THEOREM Invariance == Spec => []IInv
<1>1. Init => IInv
  <2> SUFFICES ASSUME Init PROVE IInv
    OBVIOUS
  <2>1. run.total \in Nat
    BY ConfigurationFacts DEF Init
  <2>2. QED BY <2>1 DEF Init, IInv, NoCall, PoolHolds, AttemptsEndInTime
<1>2. IInv /\ [Next]_vars => IInv'
  <2> SUFFICES ASSUME IInv, [Next]_vars PROVE IInv'
    OBVIOUS
  <2> USE DEF IInv
  <2>0. /\ Reservation \in Nat /\ run.total \in Nat /\ OperatorAllowance \in Nat
        /\ OperatorAllowance > 0 /\ GlobalDeadline \in Nat
    BY ConfigurationFacts
  <2>1. ASSUME NEW t \in Reading PROVE t \in Nat /\ t >= elapsed
    BY ConstantsAssumption DEF Reading
  <2>2. CASE EmptySnapshot
    BY <2>2 DEF EmptySnapshot, PoolHolds, AttemptsEndInTime
  <2>3. CASE ExhaustedBefore
    <3>1. elapsed' \in Nat
      BY <2>1, <2>3 DEF ExhaustedBefore
    <3>2. QED BY <2>3, <3>1 DEF ExhaustedBefore, PoolHolds, AttemptsEndInTime
  <2>4. CASE SkipReservation
    <3>1. elapsed' \in Nat
      BY <2>1, <2>4 DEF SkipReservation
    <3>2. phase' \in {"choosing", "generated"}
      BY <2>4, PhaseAfterFacts DEF SkipReservation
    <3>3. QED BY <2>4, <3>1, <3>2 DEF SkipReservation, PoolHolds, AttemptsEndInTime
  <2>5. CASE StartCall
    <3>1. PICK t \in Reading :
            /\ t < GlobalDeadline
            /\ call' = [before |-> t,
                        timeout |-> Lesser(OperatorAllowance, GlobalDeadline - t),
                        global |-> GlobalDeadline - t <= OperatorAllowance]
            /\ elapsed' = t
      BY <2>5 DEF StartCall
    <3>2. t \in Nat
      BY <2>1
    <3>3. /\ Lesser(OperatorAllowance, GlobalDeadline - t) \in Nat
          /\ Lesser(OperatorAllowance, GlobalDeadline - t) > 0
          /\ t + Lesser(OperatorAllowance, GlobalDeadline - t) <= GlobalDeadline
      BY <2>0, <3>1, <3>2 DEF Lesser
    <3>4. call' \in [before : Nat, timeout : Nat, global : BOOLEAN]
      BY <3>1, <3>2, <3>3
    <3>5. run' = run /\ consumed' = consumed /\ phase' = "calling"
      BY <2>5 DEF StartCall
    <3>6. PoolHolds'
      BY <2>5, <3>5 DEF StartCall, PoolHolds, Reservation
    <3>7. AttemptsEndInTime'
      BY <3>1, <3>3, <3>5 DEF AttemptsEndInTime, GlobalDeadline
    <3>8. QED BY <3>1, <3>2, <3>4, <3>5, <3>6, <3>7
  <2>6. CASE CallReturns
    BY <2>1, <2>6, SettleKeeps DEF CallReturns
  <2>7. CASE CallRefused
    <3>1. Reservation \in 0..Reservation
      BY <2>0
    <3>2. QED BY <2>1, <2>7, <3>1, SettleKeeps DEF CallRefused
  <2>8. CASE CallExpires
    <3>1. PICK t \in Reading :
            \/ Settle("provider_timeout", Reservation, ExpiredAt(t))
            \/ /\ consumed' = consumed + Reservation /\ elapsed' = ExpiredAt(t)
               /\ call' = NoCall /\ phase' = "generated" /\ run' = run
      BY <2>8 DEF CallExpires
    <3>2. ExpiredAt(t) \in Nat
      BY <2>1 DEF ExpiredAt, Greater
    <3>3. Reservation \in 0..Reservation /\ phase = "calling"
      BY <2>0, <2>8 DEF CallExpires
    <3>4. CASE Settle("provider_timeout", Reservation, ExpiredAt(t))
      BY <3>2, <3>3, <3>4, SettleKeeps
    <3>5. CASE /\ consumed' = consumed + Reservation /\ elapsed' = ExpiredAt(t)
               /\ call' = NoCall /\ phase' = "generated" /\ run' = run
      <4>1. consumed' \in Nat /\ consumed' <= run.total
        BY <2>0, <3>3, <3>5 DEF PoolHolds
      <4>2. PoolHolds' /\ AttemptsEndInTime'
        BY <3>5, <4>1 DEF PoolHolds, AttemptsEndInTime
      <4>3. QED BY <3>2, <3>5, <4>1, <4>2 DEF NoCall
    <3>6. QED BY <3>1, <3>4, <3>5
  <2>9. CASE Finalize
    <3>1. phase' \in {"recorded", "rejected"}
          /\ UNCHANGED <<run, elapsed, call, consumed>>
      BY <2>9 DEF Finalize
    <3>2. phase = "generated"
      BY <2>9 DEF Finalize
    <3>3. QED BY <3>1, <3>2 DEF PoolHolds, AttemptsEndInTime
  <2>10. CASE UNCHANGED vars
    BY <2>10 DEF vars, PoolHolds, AttemptsEndInTime, Reservation, GlobalDeadline
  <2>11. QED BY <2>2, <2>3, <2>4, <2>5, <2>6, <2>7, <2>8, <2>9, <2>10 DEF Next, Choose
<1>3. QED BY <1>1, <1>2, PTL DEF Spec

\* The token pool is never overdrawn, although unused reservations are handed
\* on to later operators (deadlines.py:482).
THEOREM PoolNeverOverdrawn == Spec => []PoolHolds
<1>1. IInv => PoolHolds
  BY DEF IInv
<1>2. QED BY <1>1, Invariance, PTL

\* Every attempt is given some time and none past the global deadline
\* (deadlines.py:502).
THEOREM AttemptsBounded == Spec => []AttemptsEndInTime
<1>1. IInv => AttemptsEndInTime
  BY DEF IInv
<1>2. QED BY <1>1, Invariance, PTL
-----------------------------------------------------------------------------
(* The milliseconds of the ledger and the running totals.                  *)

\* What whole milliseconds keep of ticks: their order, whole milliseconds
\* added, and whether a whole number of milliseconds has passed.
LEMMA MillisecondsOrder ==
  ASSUME NEW s \in Nat, NEW t \in Nat, s <= t
  PROVE  Milliseconds(s) \in Nat /\ Milliseconds(t) \in Nat
         /\ Milliseconds(s) <= Milliseconds(t)
BY ConstantsAssumption DEF Milliseconds
LEMMA MillisecondsAdd ==
  ASSUME NEW t \in Nat, NEW n \in Nat
  PROVE  Milliseconds(t + n * Milli) = Milliseconds(t) + n
BY ConstantsAssumption DEF Milliseconds
LEMMA MillisecondsPassed ==
  ASSUME NEW t \in Nat, NEW n \in Nat, n * Milli <= t
  PROVE  n <= Milliseconds(t)
BY ConstantsAssumption DEF Milliseconds

\* f holds the totals of the first 0, 1, ..., n amounts of x.
Sums(f, n, x) ==
  /\ f \in [0..n -> Nat] /\ f[0] = 0
  /\ \A k \in 1..n : f[k] = f[k - 1] + x[k]

\* A recursive function of totals has no other value: of two different ones
\* take the first difference.
LEMMA SumsUnique ==
  ASSUME NEW n \in Nat, NEW x, NEW f, NEW g, Sums(f, n, x),
         g = [k \in 0..n |-> IF k = 0 THEN 0 ELSE g[k - 1] + x[k]]
  PROVE  g = f
<1> DEFINE Different == {k \in Nat : k \in 0..n /\ f[k] # g[k]}
<1> SUFFICES ASSUME Different # {}
             PROVE  FALSE
  <2>1. f \in [0..n -> Nat]
    BY DEF Sums
  <2>2. Different = {} => \A k \in 0..n : f[k] = g[k]
    OBVIOUS
  <2> QED BY <2>1, <2>2
<1>1. PICK k \in Different : \A j \in Different : ~(<<j, k>> \in OpToRel(<, Nat))
  <2>1. Different \subseteq Nat
    OBVIOUS
  <2> HIDE DEF Different
  <2> QED BY <2>1, WFMin, NatLessThanWellFounded
<1>2. \A j \in Different : ~(j < k)
  BY <1>1 DEF OpToRel
<1>3. g[0] = 0 /\ \A j \in 1..n : g[j] = g[j - 1] + x[j]
  OBVIOUS
<1>4. k # 0
  BY <1>3 DEF Sums
<1>5. k - 1 \in 0..n /\ k - 1 \notin Different /\ k \in 1..n
  BY <1>2, <1>4
<1>6. f[k - 1] = g[k - 1]
  BY <1>5
<1> QED BY <1>3, <1>5, <1>6 DEF Sums

\* The amounts y continue the n amounts x, all but the first of them zero.
MoreAmounts(n, m, x, y) ==
  /\ n < m
  /\ \A k \in 1..n : y[k] = x[k]
  /\ y[n + 1] \in Nat /\ \A k \in n + 2..m : y[k] = 0

\* Totals g that continue the totals f of n amounts by one amount.
MoreTotals(f, g, n, m, amount) ==
  /\ \A k \in 0..n : g[k] = f[k]
  /\ \A k \in n + 1..m : g[k] = f[n] + amount

LEMMA SumsExtended ==
  ASSUME NEW n \in Nat, NEW m \in Nat, NEW x, NEW y, NEW f, Sums(f, n, x),
         MoreAmounts(n, m, x, y)
  PROVE  \E g : Sums(g, m, y) /\ MoreTotals(f, g, n, m, y[n + 1])
<1> USE DEF MoreAmounts
<1> DEFINE g == [k \in 0..m |-> IF k <= n THEN f[k] ELSE f[n] + y[n + 1]]
<1>1. f[n] \in Nat
  BY DEF Sums
<1>2. g \in [0..m -> Nat] /\ g[0] = 0
  BY <1>1 DEF Sums
<1>3. ASSUME NEW k \in 1..m
      PROVE  g[k] = g[k - 1] + y[k]
  <2>1. CASE k <= n
    BY <2>1 DEF Sums
  <2>2. CASE k = n + 1
    BY <2>2
  <2>3. CASE k \in n + 2..m
    BY <1>1, <2>3
  <2>4. k <= n \/ k = n + 1 \/ k \in n + 2..m
    OBVIOUS
  <2> QED BY <2>1, <2>2, <2>3, <2>4
<1>4. Sums(g, m, y)
  BY <1>2, <1>3 DEF Sums
<1>5. \A k \in 0..n : g[k] = f[k]
  OBVIOUS
<1>6. \A k \in n + 1..m : g[k] = f[n] + y[n + 1]
  OBVIOUS
<1> HIDE DEF g
<1> QED BY <1>4, <1>5, <1>6 DEF MoreTotals

\* The amounts of the results.
Reserves == [k \in DOMAIN results |-> results[k].reserved]
Consumes == [k \in DOMAIN results |-> results[k].consumed]

\* The recursive totals of the third transaction are the totals.
LEMMA RecursiveTotals ==
  ASSUME results \in Seq(Result), NEW f, NEW g,
         Sums(f, Len(results), Reserves), Sums(g, Len(results), Consumes)
  PROVE  ReservedUpTo = f /\ ConsumedUpTo = g
<1> DEFINE n == Len(results)
<1>1. n \in Nat /\ DOMAIN results = 1..n
  OBVIOUS
<1>3. ASSUME NEW k \in 1..n
      PROVE  /\ Reserves[k] = results[k].reserved
             /\ Consumes[k] = results[k].consumed
             /\ Reserves[k] \in Nat /\ Consumes[k] \in Nat
  <2>1. results[k] \in Result
    BY <1>1
  <2> QED BY <1>1, <2>1 DEF Reserves, Consumes, Result
<1> HIDE DEF n
<1>5. \A k \in 0..n : k # 0 => k \in 1..n
  BY <1>1
<1>6. /\ f = [k \in 0..n |->
               IF k = 0 THEN 0 ELSE f[k - 1] + results[k].reserved]
      /\ g = [k \in 0..n |->
               IF k = 0 THEN 0 ELSE g[k - 1] + results[k].consumed]
  <2>1. PICK e : e = [k \in 0..n |-> IF k = 0 THEN 0 ELSE f[k - 1] + results[k].reserved]
    OBVIOUS
  <2>2. PICK h : h = [k \in 0..n |-> IF k = 0 THEN 0 ELSE g[k - 1] + results[k].consumed]
    OBVIOUS
  <2>3. /\ f \in [0..n -> Nat] /\ f[0] = 0 /\ g \in [0..n -> Nat] /\ g[0] = 0
        /\ \A k \in 1..n : f[k] = f[k - 1] + Reserves[k] /\ g[k] = g[k - 1] + Consumes[k]
    BY DEF Sums, n
  <2>4. \A k \in 0..n : e[k] = f[k] /\ h[k] = g[k]
    BY <1>3, <1>5, <2>1, <2>2, <2>3
  <2>5. e = [k \in 0..n |-> e[k]] /\ h = [k \in 0..n |-> h[k]]
    BY <2>1, <2>2
  <2>6. e = f /\ h = g
    BY <2>3, <2>4, <2>5
  <2> QED BY <2>1, <2>2, <2>6
<1>7. ReservedUpTo = f
  <2>1. ASSUME NEW r, r = [k \in 0..n |->
                        IF k = 0 THEN 0 ELSE r[k - 1] + results[k].reserved]
        PROVE  r = f
    <3>1. r = [k \in 0..n |-> IF k = 0 THEN 0 ELSE r[k - 1] + Reserves[k]]
      BY <1>3, <1>5, <2>1
    <3> QED BY <1>1, <3>1, SumsUnique DEF n
  <2>2. ReservedUpTo = CHOOSE r : r = [k \in 0..n |->
                         IF k = 0 THEN 0 ELSE r[k - 1] + results[k].reserved]
    BY DEF ReservedUpTo, n
  <2> QED BY <1>6, <2>1, <2>2
<1>8. ConsumedUpTo = g
  <2>1. ASSUME NEW r, r = [k \in 0..n |->
                        IF k = 0 THEN 0 ELSE r[k - 1] + results[k].consumed]
        PROVE  r = g
    <3>1. r = [k \in 0..n |-> IF k = 0 THEN 0 ELSE r[k - 1] + Consumes[k]]
      BY <1>3, <1>5, <2>1
    <3> QED BY <1>1, <3>1, SumsUnique DEF n
  <2>2. ConsumedUpTo = CHOOSE r : r = [k \in 0..n |->
                         IF k = 0 THEN 0 ELSE r[k - 1] + results[k].consumed]
    BY DEF ConsumedUpTo, n
  <2> QED BY <1>6, <2>1, <2>2
<1> QED BY <1>7, <1>8
-----------------------------------------------------------------------------
(* What the audit rests on: the results so far, and their totals.          *)

\* When the operators so far were dealt with, in the milliseconds of the ledger.
LeftAt(i) == IF i = 0 THEN 0 ELSE results[i].after

\* The result r of an operator that found `spent` tokens consumed and the
\* operator before it dealt with at `left`.
Dealt(r, spent, left) ==
  /\ WellFormedResult(r)
  /\ left <= r.before
  /\ IF r.attempted THEN r.reserved = Reservation /\ spent + Reservation <= run.total
     ELSE r.before = r.after
  /\ r.code = "insufficient_token_reservation" =>
       run.reserves /\ spent + run.per > run.total /\ ~r.attempted
  /\ r.code = "provider_timeout" => r.after - r.before >= run.operatorTimeout
  /\ r.code = "insufficient_evidence" =>
       r.reserved = 0 /\ (~r.attempted => r.after = 0)
  /\ Exhausted(r) => r.after >= run.globalTimeout

\* After the global deadline nothing is reserved or consumed and no time passes.
Silent ==
  \A i \in DOMAIN results : \A k \in 1..(i - 1) :
    Exhausted(results[k]) =>
      /\ Exhausted(results[i])
      /\ results[i].reserved = 0 /\ results[i].consumed = 0
      /\ results[i].after = LeftAt(i - 1)

\* Every result was dealt with at the totals f and g of those before it.
BookedWith(f, g) ==
  /\ Sums(f, Len(results), Reserves) /\ Sums(g, Len(results), Consumes)
  /\ \A i \in DOMAIN results : /\ Dealt(results[i], g[i - 1], LeftAt(i - 1))
                               /\ f[i] <= i * MaxPerOperator
                               /\ g[i] <= f[i]
Books(R, C) ==
  \E f : \E g : BookedWith(f, g) /\ f[Len(results)] = R /\ g[Len(results)] = C

\* A result is judged by the configuration alone.
LEMMA DealtSame ==
  ASSUME NEW r, NEW spent, NEW left, Dealt(r, spent, left), run' = run
  PROVE  Dealt(r, spent, left)'
BY DEF Dealt, WellFormedResult, Reservation, Exhausted

LEMMA Multiples ==
  ASSUME NEW a \in Nat, NEW b \in Nat, a <= b, NEW n \in Nat
  PROVE  /\ a * n \in Nat /\ b * n \in Nat /\ a * n <= b * n
         /\ (a + 1) * n = a * n + n
OBVIOUS

\* Operators are dealt with: one with result r, and when no other is attempted
\* after it, the others with result s.
Adds(r, s, m) == results' = results \o [i \in 1..m |-> IF i = 1 THEN r ELSE s]

\* The results after a step that adds some.
LEMMA AddedResults ==
  ASSUME results \in Seq(Result), NEW r \in Result, NEW s \in Result,
         NEW m \in Nat \ {0}, NEW n \in Nat, n = Len(results), Adds(r, s, m)
  PROVE  /\ results' \in Seq(Result) /\ Len(results') = n + m
         /\ DOMAIN results = 1..n /\ DOMAIN results' = 1..n + m
         /\ \A i \in 1..n : results'[i] = results[i]
         /\ results'[n + 1] = r
         /\ \A i \in n + 2..n + m : results'[i] = s
         /\ \A i \in 1..n + m : i \in 1..n \/ i = n + 1 \/ i \in n + 2..n + m
<1> PICK more : more = [i \in 1..m |-> IF i = 1 THEN r ELSE s]
  OBVIOUS
<1>1. more \in Seq(Result) /\ Len(more) = m
  OBVIOUS
<1>2. results' = results \o more
  BY DEF Adds
<1>3. /\ results' \in Seq(Result) /\ Len(results') = n + m
      /\ \A i \in 1..n + m :
           results'[i] = IF i <= n THEN results[i] ELSE more[i - n]
  BY <1>1, <1>2, ConcatProperties
<1>4. \A i \in 1..n : results'[i] = results[i]
  BY <1>3
<1>5. results'[n + 1] = r
  BY <1>3
<1>6. ASSUME NEW i \in n + 2..n + m
      PROVE  results'[i] = s
  <2>1. i \in 1..n + m /\ ~(i <= n) /\ i - n \in 1..m /\ i - n # 1
    OBVIOUS
  <2> QED BY <1>3, <2>1
<1> QED BY <1>3, <1>4, <1>5, <1>6, SMTT(30)

\* What the added results have to be.
Follow(r, s, C) ==
  /\ s.reserved = 0 /\ s.consumed = 0 /\ s.after = r.after
  /\ Dealt(s, C + r.consumed, r.after)
  /\ Exhausted(r) <=> Exhausted(s)

LEMMA AddedBooks ==
  ASSUME results \in Seq(Result), NEW r \in Result, NEW s \in Result,
         NEW m \in Nat \ {0}, Adds(r, s, m), run' = run,
         NEW R \in Nat, NEW C \in Nat, Books(R, C),
         Dealt(r, C, LeftAt(Len(results))), m > 1 => Follow(r, s, C)
  PROVE  Books(R + r.reserved, C + r.consumed)'
<1> PICK n \in Nat : n = Len(results)
  OBVIOUS
<1>1. /\ results' \in Seq(Result) /\ Len(results') = n + m
      /\ DOMAIN results = 1..n /\ DOMAIN results' = 1..n + m
      /\ \A i \in 1..n : results'[i] = results[i]
      /\ results'[n + 1] = r
      /\ \A i \in n + 2..n + m : results'[i] = s
      /\ \A i \in 1..n + m : i \in 1..n \/ i = n + 1 \/ i \in n + 2..n + m
  BY AddedResults, SMTT(30)
<1> PICK f, g : BookedWith(f, g) /\ f[n] = R /\ g[n] = C
  BY DEF Books
<1>2. Sums(f, n, Reserves) /\ Sums(g, n, Consumes)
  BY DEF BookedWith
<1>3. /\ \A i \in 1..n : Reserves'[i] = Reserves[i] /\ Consumes'[i] = Consumes[i]
      /\ Reserves'[n + 1] = r.reserved /\ Consumes'[n + 1] = r.consumed
      /\ \A i \in n + 2..n + m : Reserves'[i] = s.reserved /\ Consumes'[i] = s.consumed
  <2>1. \A i \in 1..n + m : /\ Reserves'[i] = results'[i].reserved
                            /\ Consumes'[i] = results'[i].consumed
    BY <1>1 DEF Reserves, Consumes
  <2>2. \A i \in 1..n : /\ Reserves[i] = results[i].reserved
                        /\ Consumes[i] = results[i].consumed
    BY <1>1 DEF Reserves, Consumes
  <2>3. /\ \A i \in 1..n : i \in 1..n + m
        /\ n + 1 \in 1..n + m
        /\ \A i \in n + 2..n + m : i \in 1..n + m
    OBVIOUS
  <2>4. \A i \in 1..n : Reserves'[i] = Reserves[i] /\ Consumes'[i] = Consumes[i]
    BY <1>1, <2>1, <2>2, <2>3
  <2>5. Reserves'[n + 1] = r.reserved /\ Consumes'[n + 1] = r.consumed
    BY <1>1, <2>1, <2>3
  <2>6. \A i \in n + 2..n + m : Reserves'[i] = s.reserved /\ Consumes'[i] = s.consumed
    BY <1>1, <2>1, <2>3
  <2> QED BY <2>4, <2>5, <2>6
<1>4. r.reserved \in Nat /\ r.consumed \in Nat
  BY DEF Result
<1>5. \A i \in n + 2..n + m : Reserves'[i] = 0 /\ Consumes'[i] = 0
  <2>1. n + 2..n + m # {} => m > 1
    OBVIOUS
  <2> QED BY <1>3, <2>1 DEF Follow
<1> PICK f2 : /\ Sums(f2, n + m, Reserves')
              /\ MoreTotals(f, f2, n, n + m, r.reserved)
  <2> PICK x, y : x = Reserves /\ y = Reserves'
    OBVIOUS
  <2>1. PICK total \in Nat : total = n + m
    OBVIOUS
  <2>2. MoreAmounts(n, total, x, y) /\ y[n + 1] = r.reserved
    BY <1>3, <1>4, <1>5, <2>1 DEF MoreAmounts
  <2>3. Sums(f, n, x)
    BY <1>2
  <2>4. \E h : Sums(h, total, y) /\ MoreTotals(f, h, n, total, y[n + 1])
    BY <2>2, <2>3, SumsExtended
  <2> QED BY <2>1, <2>2, <2>4
<1> PICK g2 : /\ Sums(g2, n + m, Consumes')
              /\ MoreTotals(g, g2, n, n + m, r.consumed)
  <2> PICK x, y : x = Consumes /\ y = Consumes'
    OBVIOUS
  <2>1. PICK total \in Nat : total = n + m
    OBVIOUS
  <2>2. MoreAmounts(n, total, x, y) /\ y[n + 1] = r.consumed
    BY <1>3, <1>4, <1>5, <2>1 DEF MoreAmounts
  <2>3. Sums(g, n, x)
    BY <1>2
  <2>4. \E h : Sums(h, total, y) /\ MoreTotals(g, h, n, total, y[n + 1])
    BY <2>2, <2>3, SumsExtended
  <2> QED BY <2>1, <2>2, <2>4
<1> HIDE DEF Sums
<1>6. /\ \A k \in 0..n : f2[k] = f[k] /\ g2[k] = g[k]
      /\ \A k \in n + 1..n + m : f2[k] = R + r.reserved /\ g2[k] = C + r.consumed
  BY DEF MoreTotals
<1>7. ASSUME NEW i \in 1..n
      PROVE  /\ Dealt(results[i], g2[i - 1], LeftAt(i - 1))'
             /\ f2[i] <= i * MaxPerOperator /\ g2[i] <= f2[i]
  <2>1. /\ Dealt(results[i], g[i - 1], LeftAt(i - 1))
        /\ f[i] <= i * MaxPerOperator /\ g[i] <= f[i]
    BY <1>1 DEF BookedWith
  <2>2. i \in 0..n /\ i - 1 \in 0..n /\ (i - 1 # 0 => i - 1 \in 1..n)
    OBVIOUS
  <2>3. f2[i] = f[i] /\ g2[i] = g[i] /\ g2[i - 1] = g[i - 1]
    BY <1>6, <2>2
  <2>4. LeftAt(i - 1)' = LeftAt(i - 1)
    BY <1>1, <2>2 DEF LeftAt
  <2> PICK x, left : x = results[i] /\ left = LeftAt(i - 1)
    OBVIOUS
  <2> PICK spent : spent = g[i - 1]
    OBVIOUS
  <2>5. Dealt(x, spent, left)'
    BY <2>1, DealtSame
  <2>6. results'[i] = x /\ LeftAt(i - 1)' = left /\ g2[i - 1] = spent
    BY <1>1, <2>3, <2>4
  <2> QED BY <2>1, <2>3, <2>5, <2>6 DEF Dealt
<1>8. /\ R <= n * MaxPerOperator /\ C <= R
  <2>1. CASE n = 0
    BY <1>2, <2>1, ConstantsAssumption DEF Sums
  <2>2. CASE n # 0
    BY <1>1, <2>2 DEF BookedWith
  <2> QED BY <2>1, <2>2
<1>9. /\ r.reserved \in 0..MaxPerOperator /\ r.consumed \in 0..r.reserved
  BY DEF Dealt, WellFormedResult
<1>10. /\ (n + 1) * MaxPerOperator = n * MaxPerOperator + MaxPerOperator
       /\ n * MaxPerOperator \in Nat
  <2>1. MaxPerOperator \in Nat /\ n <= n
    BY ConstantsAssumption
  <2> QED BY <2>1, Multiples
<1>11. ASSUME NEW i \in n + 1..n + m
       PROVE  f2[i] <= i * MaxPerOperator /\ g2[i] <= f2[i]
  <2>1. (n + 1) * MaxPerOperator <= i * MaxPerOperator /\ i * MaxPerOperator \in Nat
    BY Multiples, ConstantsAssumption
  <2>2. f2[i] = R + r.reserved /\ g2[i] = C + r.consumed
    BY <1>6
  <2> QED BY <1>4, <1>8, <1>9, <1>10, <2>1, <2>2, ConstantsAssumption, SMTT(30)
<1>12. Dealt(results[n + 1], g2[n], LeftAt(n))'
  <2> PICK left : left = LeftAt(n)
    OBVIOUS
  <2>1. LeftAt(n)' = left
    BY <1>1 DEF LeftAt
  <2>2. g2[n] = C /\ results'[n + 1] = r
    BY <1>1, <1>6
  <2>3. Dealt(r, C, left)'
    BY DealtSame
  <2> QED BY <2>1, <2>2, <2>3 DEF Dealt
<1>13. ASSUME NEW i \in n + 2..n + m
       PROVE  Dealt(results[i], g2[i - 1], LeftAt(i - 1))'
  <2>1. m > 1 /\ i - 1 \in n + 1..n + m /\ i - 1 # 0
        /\ (i - 1 = n + 1 \/ i - 1 \in n + 2..n + m)
    OBVIOUS
  <2>2. s.after = r.after /\ Dealt(s, C + r.consumed, r.after)
    BY <2>1 DEF Follow
  <2>3. LeftAt(i - 1)' = r.after
    BY <1>1, <2>1, <2>2 DEF LeftAt
  <2>4. g2[i - 1] = C + r.consumed /\ results'[i] = s
    BY <1>1, <1>6, <2>1
  <2>5. Dealt(s, C + r.consumed, r.after)'
    BY <2>2, DealtSame
  <2> QED BY <2>3, <2>4, <2>5 DEF Dealt
<1>14. ASSUME NEW i \in 1..n + m
       PROVE  /\ Dealt(results[i], g2[i - 1], LeftAt(i - 1))'
              /\ f2[i] <= i * MaxPerOperator /\ g2[i] <= f2[i]
  <2>1. CASE i \in 1..n
    BY <1>7, <2>1
  <2>2. CASE i = n + 1
    BY <1>11, <1>12, <2>2
  <2>3. CASE i \in n + 2..n + m
    BY <1>11, <1>13, <2>3
  <2> QED BY <1>1, <2>1, <2>2, <2>3
<1>15. BookedWith(f2, g2)'
  BY <1>1, <1>14 DEF BookedWith
<1>16. f2[n + m] = R + r.reserved /\ g2[n + m] = C + r.consumed
  BY <1>6
<1>17. Len(results') = n + m
  BY <1>1
<1> QED BY <1>15, <1>16, <1>17 DEF Books

\* Nothing was exhausted before the results that are added.
LEMMA AddedSilence ==
  ASSUME results \in Seq(Result), NEW r \in Result, NEW s \in Result,
         NEW m \in Nat \ {0}, NEW C, Adds(r, s, m), m > 1 => Follow(r, s, C),
         ~ \E i \in DOMAIN results : Exhausted(results[i])
  PROVE  /\ Silent'
         /\ (\E i \in DOMAIN results : Exhausted(results[i]))' <=> Exhausted(r)
         /\ LeftAt(Len(results))' = r.after
         /\ results' \in Seq(Result) /\ Len(results') = Len(results) + m
<1> PICK n \in Nat : n = Len(results)
  OBVIOUS
<1>1. /\ results' \in Seq(Result) /\ Len(results') = n + m
      /\ DOMAIN results = 1..n /\ DOMAIN results' = 1..n + m
      /\ \A i \in 1..n : results'[i] = results[i]
      /\ results'[n + 1] = r
      /\ \A i \in n + 2..n + m : results'[i] = s
      /\ \A i \in 1..n + m : i \in 1..n \/ i = n + 1 \/ i \in n + 2..n + m
  BY AddedResults
<1>2. \A i \in n + 2..n + m : m > 1
  OBVIOUS
<1>3. \A i \in n + 2..n + m : Follow(r, s, C)
  BY <1>2
<1>4. \A i \in 1..n : ~Exhausted(results'[i])
  BY <1>1
<1>5. ASSUME NEW i \in 1..n + m
      PROVE  i \notin 1..n => results'[i].after = r.after
                              /\ (Exhausted(results'[i]) <=> Exhausted(r))
  BY <1>1, <1>3 DEF Follow
<1>6. Silent'
  <2> SUFFICES ASSUME NEW i \in 1..n + m, NEW k \in 1..(i - 1),
                      Exhausted(results'[k])
               PROVE  /\ Exhausted(results'[i])
                      /\ results'[i].reserved = 0 /\ results'[i].consumed = 0
                      /\ results'[i].after = LeftAt(i - 1)'
    BY <1>1 DEF Silent
  <2>1. k \in 1..n + m /\ k \notin 1..n
    BY <1>4
  <2>2. Exhausted(r)
    BY <1>5, <2>1
  <2>3. i \in n + 2..n + m
    BY <2>1
  <2>4. results'[i] = s /\ Follow(r, s, C)
    BY <1>1, <1>3, <2>3
  <2>5. i - 1 \in 1..n + m /\ i - 1 \notin 1..n /\ i - 1 # 0
    BY <2>3
  <2>6. LeftAt(i - 1)' = r.after
    BY <1>5, <2>5 DEF LeftAt
  <2> QED BY <2>2, <2>4, <2>6 DEF Follow
<1>7. (\E i \in DOMAIN results : Exhausted(results[i]))' <=> Exhausted(r)
  <2>1. n + 1 \in 1..n + m
    OBVIOUS
  <2> QED BY <1>1, <1>4, <1>5, <2>1
<1>8. LeftAt(Len(results))' = r.after
  <2>1. n + m \in 1..n + m /\ n + m \notin 1..n /\ n + m # 0
    OBVIOUS
  <2> QED BY <1>1, <1>5, <2>1 DEF LeftAt
<1> QED BY <1>1, <1>6, <1>7, <1>8
-----------------------------------------------------------------------------
\* An operator that is skipped is dealt with as its code says.
LEMMA SkippedDealt ==
  ASSUME run \in Configurations, NEW t \in Nat, NEW spent \in Nat, NEW left,
         left <= Milliseconds(t), NEW code,
         \/ code = "global_deadline_exhausted" /\ GlobalDeadline <= t
         \/ code = "insufficient_evidence" /\ t = 0
         \/ /\ code = "insufficient_token_reservation"
            /\ run.reserves /\ spent + run.per > run.total
  PROVE  /\ Skipped(code, t) \in Result
         /\ Dealt(Skipped(code, t), spent, left)
<1>1. run.globalTimeout \in Nat
  BY ConfigurationsAssumption DEF Configuration
<1>2. Milliseconds(t) \in Nat
  BY MillisecondsOrder
<1>3. GlobalDeadline <= t => run.globalTimeout <= Milliseconds(t)
  BY <1>1, MillisecondsPassed DEF GlobalDeadline
<1>4. t = 0 => Milliseconds(t) = 0
  BY ConstantsAssumption DEF Milliseconds
<1> PICK r : r = Skipped(code, t)
  OBVIOUS
<1>5. /\ r.code = code /\ r.reserved = 0 /\ r.consumed = 0
      /\ r.before = Milliseconds(t) /\ r.after = Milliseconds(t)
      /\ r.attempted = FALSE /\ r.timeout = 0
      /\ r.limit = IF code = "global_deadline_exhausted" THEN "global" ELSE "none"
  BY DEF Skipped
<1>6. r \in Result
  BY <1>2 DEF Skipped, Result, Codes
<1>7. WellFormedResult(r)
  BY <1>2, <1>5, ConstantsAssumption DEF WellFormedResult
<1>8. Dealt(r, spent, left)
  BY <1>2, <1>3, <1>4, <1>5, <1>7 DEF Dealt, Exhausted
<1> QED BY <1>6, <1>8

\* An attempt that ends is dealt with as its code says: a call that timed out
\* had its whole allowance, one the deadline ended had what was left of it.
CallFits ==
  /\ call.before = elapsed
  /\ call.timeout = Lesser(OperatorAllowance, GlobalDeadline - call.before)
  /\ call.global = (GlobalDeadline - call.before <= OperatorAllowance)

LEMMA AttemptedDealt ==
  ASSUME run \in Configurations, call \in [before : Nat, timeout : Nat, global : BOOLEAN],
         CallFits, NEW spent \in Nat, spent + Reservation <= run.total,
         NEW left, left <= Milliseconds(call.before),
         NEW code \in Codes, NEW used \in 0..Reservation,
         NEW at \in Nat, call.before <= at,
         code # "insufficient_token_reservation",
         code = "insufficient_evidence" => ~run.reserves,
         code = "provider_timeout" => ~call.global,
         code = "global_deadline_exhausted" => call.global,
         code \in {"provider_timeout", "global_deadline_exhausted"} =>
           call.before + call.timeout <= at
  PROVE  /\ Attempted(code, used, at) \in Result
         /\ Dealt(Attempted(code, used, at), spent, left)
<1>1. /\ run.per \in Nat /\ run.per <= MaxPerOperator /\ run.reserves \in BOOLEAN
      /\ run.globalTimeout \in Nat /\ run.operatorTimeout \in Nat
  BY ConfigurationsAssumption DEF Configuration
<1>2. Reservation \in Nat /\ Reservation <= MaxPerOperator
      /\ (~run.reserves => Reservation = 0)
  BY <1>1, ConstantsAssumption DEF Reservation
<1>3. /\ Milliseconds(call.before) \in Nat /\ Milliseconds(at) \in Nat
      /\ Milliseconds(call.before) <= Milliseconds(at)
  BY MillisecondsOrder
<1>4. GlobalDeadline \in Nat /\ OperatorAllowance \in Nat
  BY ConfigurationFacts
<1>5. code = "global_deadline_exhausted" => run.globalTimeout <= Milliseconds(at)
  <2> SUFFICES ASSUME code = "global_deadline_exhausted"
               PROVE  run.globalTimeout <= Milliseconds(at)
    OBVIOUS
  <2>1. GlobalDeadline <= at
    BY <1>4 DEF CallFits, Lesser
  <2> QED BY <1>1, <2>1, MillisecondsPassed DEF GlobalDeadline
<1>6. code = "provider_timeout" =>
        Milliseconds(at) - Milliseconds(call.before) >= run.operatorTimeout
  <2> SUFFICES ASSUME code = "provider_timeout"
               PROVE  Milliseconds(at) - Milliseconds(call.before) >= run.operatorTimeout
    OBVIOUS
  <2>1. call.timeout = OperatorAllowance
    BY <1>4 DEF CallFits, Lesser
  <2>2. call.before + OperatorAllowance \in Nat /\ call.before + OperatorAllowance <= at
    BY <1>4, <2>1
  <2>3. Milliseconds(call.before + OperatorAllowance) <= Milliseconds(at)
    BY <2>2, MillisecondsOrder
  <2>4. Milliseconds(call.before + OperatorAllowance)
          = Milliseconds(call.before) + run.operatorTimeout
    BY <1>1, MillisecondsAdd DEF OperatorAllowance
  <2> QED BY <1>1, <1>3, <2>3, <2>4
<1>7. TimeoutMilliseconds(call.timeout) \in Nat /\ TimeoutMilliseconds(call.timeout) > 0
  BY ConstantsAssumption DEF TimeoutMilliseconds, Greater
<1> PICK r : r = Attempted(code, used, at)
  OBVIOUS
<1>8. /\ r.code = code /\ r.reserved = Reservation /\ r.consumed = used
      /\ r.before = Milliseconds(call.before) /\ r.after = Milliseconds(at)
      /\ r.attempted = TRUE /\ r.timeout = TimeoutMilliseconds(call.timeout)
      /\ r.limit = IF call.global THEN "global" ELSE "operator"
  BY DEF Attempted
<1>9. r \in Result
  BY <1>2, <1>3, <1>7 DEF Attempted, Result
<1>10. WellFormedResult(r)
  BY <1>2, <1>3, <1>7, <1>8, ConstantsAssumption DEF WellFormedResult
<1>11. Dealt(r, spent, left)
  BY <1>2, <1>3, <1>5, <1>6, <1>8, <1>10 DEF Dealt, Exhausted
<1> QED BY <1>9, <1>11
-----------------------------------------------------------------------------
(* The inductive invariant of the audit.                                   *)

\* The reservation of the attempt under way has no result yet.
Pending == IF phase = "calling" THEN Reservation ELSE 0

\* While the loop goes on an operator is left to deal with, the deadline was
\* not exhausted and no result lies in the future.
LoopGoesOn ==
  phase \in {"choosing", "calling"} =>
    /\ Len(results) < run.operators /\ ~timedOut
    /\ LeftAt(Len(results)) <= Milliseconds(elapsed)
    /\ ~run.evidence => results = <<>> /\ phase = "choosing"

\* What the loop left, and what the third transaction made of it.
LoopOver ==
  /\ phase \in {"generated", "recorded", "rejected"} => Len(results) = run.operators
  /\ IF phase = "recorded" THEN Len(history) = run.operators ELSE history = <<>>

AuditInv ==
  /\ TypeOK
  /\ Books(reserved - Pending, consumed)
  /\ Silent
  /\ timedOut <=> \E i \in DOMAIN results : Exhausted(results[i])
  /\ LoopGoesOn /\ LoopOver
  /\ phase = "calling" => CallFits
  /\ NeverRejected /\ AuditAccepts

\* A step that deals with operators, without calling a generator afterwards.
Deals(r, s, m) ==
  /\ Adds(r, s, m) /\ run' = run /\ history' = history /\ status' = status
  /\ reserved' = (reserved - Pending) + r.reserved
  /\ consumed' = consumed + r.consumed
  /\ timedOut' = Exhausted(r)
  /\ Len(results) + m <= run.operators
  /\ IF Len(results) + m = run.operators THEN phase' = "generated"
     ELSE /\ phase' = "choosing" /\ run.evidence
          /\ ~Exhausted(r) /\ r.after <= Milliseconds(elapsed')

LEMMA BooksTotals ==
  ASSUME NEW R, NEW C, results \in Seq(Result), Books(R, C)
  PROVE  R \in Nat /\ C \in Nat
BY DEF Books, BookedWith, Sums

LEMMA DealsKeeps ==
  ASSUME AuditInv, IInv', phase \in {"choosing", "calling"},
         NEW r \in Result, NEW s \in Result, NEW m \in Nat \ {0}, Deals(r, s, m),
         Dealt(r, consumed, LeftAt(Len(results))), m > 1 => Follow(r, s, consumed)
  PROVE  AuditInv'
<1>1. /\ results \in Seq(Result) /\ Books(reserved - Pending, consumed)
      /\ ~ \E i \in DOMAIN results : Exhausted(results[i])
      /\ history = <<>> /\ status \in Statuses
  BY DEF AuditInv, TypeOK, LoopGoesOn, LoopOver
<1>2. Adds(r, s, m) /\ run' = run
  BY DEF Deals
<1> PICK R \in Nat : R = reserved - Pending
  BY <1>1, BooksTotals
<1> PICK C \in Nat : C = consumed
  BY <1>1, BooksTotals
<1>3. Books(R + r.reserved, C + r.consumed)'
  BY <1>1, <1>2, AddedBooks
<1>4. /\ Silent'
      /\ (\E i \in DOMAIN results : Exhausted(results[i]))' <=> Exhausted(r)
      /\ LeftAt(Len(results))' = r.after
      /\ results' \in Seq(Result) /\ Len(results') = Len(results) + m
  BY <1>1, <1>2, AddedSilence
<1>5. /\ phase' \in {"choosing", "generated"} /\ Pending' = 0
      /\ reserved' = R + r.reserved /\ consumed' = C + r.consumed
      /\ history' = <<>> /\ status' \in Statuses
      /\ timedOut' = Exhausted(r)
  BY <1>1 DEF Deals, Pending
<1>6. r.reserved \in Nat /\ r.consumed \in Nat
  BY DEF Result
<1>7. Books(reserved - Pending, consumed)'
  <2>1. reserved' - Pending' = R + r.reserved
    BY <1>5, <1>6
  <2> QED BY <1>3, <1>5, <2>1 DEF Books
<1>8. TypeOK'
  BY <1>4, <1>5, <1>6, SMTT(30) DEF TypeOK, Deals, IInv, Exhausted
<1>9. LoopGoesOn'
  <2> SUFFICES ASSUME phase' = "choosing"
               PROVE  /\ Len(results') < run'.operators /\ ~timedOut'
                      /\ LeftAt(Len(results))' <= Milliseconds(elapsed')
                      /\ run'.evidence
    BY <1>5 DEF LoopGoesOn, Milliseconds
  <2>1. /\ Len(results) + m <= run.operators /\ Len(results) + m # run.operators
        /\ run.evidence /\ ~Exhausted(r) /\ r.after <= Milliseconds(elapsed')
    BY DEF Deals
  <2>2. Len(results) + m \in Nat /\ run.operators \in Nat
    BY <1>1, ConfigurationFacts DEF AuditInv, TypeOK
  <2> QED BY <1>2, <1>4, <1>5, <2>1, <2>2, SMTT(30)
<1>10. LoopOver'
  BY <1>4, <1>5 DEF LoopOver, Deals
<1>11. NeverRejected' /\ AuditAccepts'
  BY <1>5 DEF NeverRejected, AuditAccepts
<1>12. timedOut' <=> (\E i \in DOMAIN results : Exhausted(results[i]))'
  BY <1>4, <1>5
<1>13. phase' # "calling"
  BY <1>5
<1> QED BY <1>4, <1>7, <1>8, <1>9, <1>10, <1>11, <1>12, <1>13 DEF AuditInv
-----------------------------------------------------------------------------
(* The steps of the loop.                                                  *)

LEMMA LeftIsNat ==
  ASSUME results \in Seq(Result)
  PROVE  LeftAt(Len(results)) \in Nat
<1>1. CASE Len(results) = 0
  BY <1>1 DEF LeftAt
<1>2. CASE Len(results) # 0
  <2>1. Len(results) \in 1..Len(results)
    BY <1>2
  <2>2. results[Len(results)] \in Result
    BY <2>1
  <2> QED BY <1>2, <2>2 DEF LeftAt, Result
<1> QED BY <1>1, <1>2

\* The ways in which results are added are the same.
LEMMA AppendedMore ==
  ASSUME NEW q \in Seq(Result), NEW r \in Result, NEW s \in Result, NEW m \in Nat
  PROVE  Append(q, r) \o [i \in 1..m |-> s]
           = q \o [i \in 1..m + 1 |-> IF i = 1 THEN r ELSE s]
<1> PICK n \in Nat : n = Len(q)
  OBVIOUS
<1> PICK a : a = Append(q, r)
  OBVIOUS
<1> PICK b : b = [i \in 1..m |-> s]
  OBVIOUS
<1> PICK c : c = [i \in 1..m + 1 |-> IF i = 1 THEN r ELSE s]
  OBVIOUS
<1>1. b \in Seq(Result) /\ Len(b) = m /\ c \in Seq(Result) /\ Len(c) = m + 1
  OBVIOUS
<1>2. /\ a \in Seq(Result) /\ Len(a) = n + 1
      /\ a[n + 1] = r /\ \A i \in 1..n : a[i] = q[i]
  OBVIOUS
<1>3. /\ a \o b \in Seq(Result) /\ Len(a \o b) = n + 1 + m
      /\ \A i \in 1..n + 1 + m :
           (a \o b)[i] = IF i <= n + 1 THEN a[i] ELSE b[i - (n + 1)]
  BY <1>1, <1>2, ConcatProperties
<1>4. /\ q \o c \in Seq(Result) /\ Len(q \o c) = n + 1 + m
      /\ \A i \in 1..n + 1 + m :
           (q \o c)[i] = IF i <= n THEN q[i] ELSE c[i - n]
  BY <1>1, ConcatProperties
<1>5. ASSUME NEW i \in 1..n + 1 + m
      PROVE  (a \o b)[i] = (q \o c)[i]
  <2>1. CASE i <= n
    BY <1>2, <1>3, <1>4, <2>1
  <2>2. CASE i = n + 1
    BY <1>2, <1>3, <1>4, <2>2
  <2>3. CASE i > n + 1
    <3>1. i - (n + 1) \in 1..m /\ i - n \in 1..m + 1 /\ i - n # 1
      BY <2>3
    <3>2. b[i - (n + 1)] = s /\ c[i - n] = s
      BY <3>1
    <3> QED BY <1>3, <1>4, <2>3, <3>2
  <2>4. i <= n \/ i = n + 1 \/ i > n + 1
    OBVIOUS
  <2> QED BY <2>1, <2>2, <2>3, <2>4
<1>6. a \o b = q \o c
  <2>1. PICK u, w : u = a \o b /\ w = q \o c
    OBVIOUS
  <2>2. /\ u \in Seq(Result) /\ w \in Seq(Result) /\ Len(u) = Len(w)
        /\ \A i \in 1..Len(u) : u[i] = w[i]
    BY <1>3, <1>4, <1>5, <2>1
  <2>3. u = w
    BY <2>2, SeqEqual
  <2> QED BY <2>1, <2>3
<1> QED BY <1>6

LEMMA AddsOne ==
  ASSUME results \in Seq(Result), NEW r \in Result, results' = Append(results, r)
  PROVE  Adds(r, r, 1)
<1> PICK e : e = [i \in 1..0 |-> r]
  OBVIOUS
<1>1. e \in Seq(Result) /\ Len(e) = 0
  OBVIOUS
<1>2. e = <<>>
  BY <1>1
<1>3. Append(results, r) \in Seq(Result)
  OBVIOUS
<1>4. Append(results, r) \o <<>> = Append(results, r)
  BY <1>3
<1>5. Append(results, r) \o e = results \o [i \in 1..0 + 1 |-> IF i = 1 THEN r ELSE r]
  BY AppendedMore
<1>6. results' = results \o [i \in 1..1 |-> IF i = 1 THEN r ELSE r]
  BY <1>2, <1>4, <1>5
<1> QED BY <1>6 DEF Adds

LEMMA AddsRest ==
  ASSUME NEW code, NEW t, results' = SkippedAfter(results, code, t)
  PROVE  Adds(Skipped(code, t), Skipped(code, t), run.operators - Len(results))
<1> PICK r : r = Skipped(code, t)
  OBVIOUS
<1> PICK m : m = run.operators - Len(results)
  OBVIOUS
<1>1. results' = results \o [i \in 1..m |-> r]
  BY DEF SkippedAfter
<1>2. [i \in 1..m |-> r] = [i \in 1..m |-> IF i = 1 THEN r ELSE r]
  OBVIOUS
<1>3. Adds(r, r, m)
  BY <1>1, <1>2 DEF Adds
<1> QED BY <1>3

\* A snapshot without items.
LEMMA EmptySnapshotKeeps ==
  ASSUME AuditInv, IInv, IInv', EmptySnapshot
  PROVE  AuditInv'
<1> PICK r : r = Skipped("insufficient_evidence", 0)
  OBVIOUS
<1>1. /\ phase = "choosing" /\ results = <<>> /\ ~timedOut /\ results \in Seq(Result)
      /\ run \in Configurations
      /\ Books(reserved - Pending, consumed) /\ Len(results) = 0
  BY DEF EmptySnapshot, AuditInv, TypeOK, LoopGoesOn
<1>2. consumed \in Nat /\ reserved - Pending \in Nat
  BY <1>1, BooksTotals
<1>3. run.operators \in Nat \ {0}
  BY <1>1, ConfigurationFacts
<1>4. LeftAt(Len(results)) <= Milliseconds(0)
  BY <1>1, ConstantsAssumption DEF LeftAt, Milliseconds
<1>5. r \in Result /\ Dealt(r, consumed, LeftAt(Len(results)))
  BY <1>1, <1>2, <1>4, SkippedDealt
<1> PICK m \in Nat \ {0} : m = run.operators
  BY <1>3
<1>6. Adds(r, r, m)
  <2>1. results' = SkippedAfter(results, "insufficient_evidence", 0)
    BY <1>1 DEF EmptySnapshot
  <2>2. run.operators - Len(results) = m
    BY <1>1
  <2> QED BY <2>1, <2>2, AddsRest
<1>7. r.reserved = 0 /\ r.consumed = 0 /\ ~Exhausted(r) /\ r.after = Milliseconds(0)
  BY DEF Skipped, Exhausted
<1>8. Deals(r, r, m)
  <2>1. /\ phase' = "generated"
        /\ UNCHANGED <<run, reserved, consumed, timedOut, history, status>>
    BY DEF EmptySnapshot
  <2>2. /\ reserved' = (reserved - Pending) + r.reserved /\ consumed' = consumed + r.consumed
        /\ timedOut' = Exhausted(r)
    BY <1>1, <1>2, <1>7, <2>1 DEF Pending, AuditInv, TypeOK, Exhausted
  <2>3. Len(results) + m = run.operators
    BY <1>1
  <2> QED BY <1>1, <1>3, <1>6, <2>1, <2>2, <2>3 DEF Deals
<1>9. Follow(r, r, consumed)
  <2>1. consumed + r.consumed \in Nat /\ r.after <= Milliseconds(0)
    BY <1>2, <1>7, MillisecondsOrder
  <2>2. Dealt(r, consumed + r.consumed, r.after)
    BY <1>1, <2>1, SkippedDealt
  <2> QED BY <1>7, <2>2 DEF Follow
<1> QED BY <1>1, <1>5, <1>8, <1>9, DealsKeeps

\* The global deadline is past before the next operator.
LEMMA ExhaustedBeforeKeeps ==
  ASSUME AuditInv, IInv, IInv', ExhaustedBefore
  PROVE  AuditInv'
<1>1. /\ phase = "choosing" /\ ~timedOut /\ results \in Seq(Result)
      /\ run \in Configurations /\ elapsed \in Nat
      /\ Books(reserved - Pending, consumed) /\ Len(results) < run.operators
      /\ LeftAt(Len(results)) <= Milliseconds(elapsed)
  BY DEF ExhaustedBefore, AuditInv, TypeOK, LoopGoesOn
<1> PICK t \in Reading :
      /\ t >= GlobalDeadline
      /\ results' = SkippedAfter(results, "global_deadline_exhausted", t)
      /\ elapsed' = t
  BY DEF ExhaustedBefore
<1>2. t \in Nat /\ elapsed <= t
  BY <1>1, ConstantsAssumption DEF Reading
<1>3. consumed \in Nat /\ reserved - Pending \in Nat /\ reserved \in Nat
  BY <1>1, BooksTotals DEF AuditInv, TypeOK
<1>4. run.operators \in Nat \ {0} /\ GlobalDeadline \in Nat
  BY <1>1, ConfigurationFacts
<1> PICK r : r = Skipped("global_deadline_exhausted", t)
  OBVIOUS
<1> PICK left : left = LeftAt(Len(results))
  OBVIOUS
<1>5. left <= Milliseconds(t)
  <2>1. /\ Milliseconds(elapsed) \in Nat /\ Milliseconds(t) \in Nat
        /\ Milliseconds(elapsed) <= Milliseconds(t)
    BY <1>1, <1>2, MillisecondsOrder
  <2>2. left \in Nat
    BY <1>1, LeftIsNat
  <2> QED BY <1>1, <2>1, <2>2
<1>6. r \in Result /\ Dealt(r, consumed, left)
  BY <1>1, <1>2, <1>3, <1>4, <1>5, SkippedDealt
<1> PICK m \in Nat \ {0} : m = run.operators - Len(results)
  BY <1>1, <1>4
<1>7. Adds(r, r, m)
  BY AddsRest
<1>8. r.reserved = 0 /\ r.consumed = 0 /\ Exhausted(r) /\ r.after = Milliseconds(t)
  BY DEF Skipped, Exhausted
<1>9. Len(results) + m = run.operators
  BY <1>1, <1>4
<1>10. Deals(r, r, m)
  <2>1. /\ phase' = "generated" /\ timedOut' = TRUE
        /\ UNCHANGED <<run, reserved, consumed, history, status>>
    BY DEF ExhaustedBefore
  <2>2. reserved' = (reserved - Pending) + r.reserved /\ consumed' = consumed + r.consumed
    BY <1>1, <1>3, <1>8, <2>1 DEF Pending
  <2>3. timedOut' = Exhausted(r)
    <3>1. Exhausted(r) = TRUE
      BY <1>8 DEF Exhausted
    <3> QED BY <2>1, <3>1
  <2> QED BY <1>4, <1>7, <1>9, <2>1, <2>2, <2>3 DEF Deals
<1>11. Follow(r, r, consumed)
  <2>1. consumed + r.consumed \in Nat /\ r.after <= Milliseconds(t)
    <3>1. t <= t
      BY <1>2
    <3>2. Milliseconds(t) <= Milliseconds(t)
      BY <1>2, <3>1, MillisecondsOrder
    <3> QED BY <1>3, <1>8, <3>2
  <2>2. Dealt(r, consumed + r.consumed, r.after)
    BY <1>1, <1>2, <1>4, <2>1, SkippedDealt
  <2> QED BY <1>8, <2>2 DEF Follow
<1> QED BY <1>1, <1>6, <1>10, <1>11, DealsKeeps

\* No tokens are left for the next operator.
LEMMA SkipReservationKeeps ==
  ASSUME AuditInv, IInv, IInv', SkipReservation
  PROVE  AuditInv'
<1>1. /\ phase = "choosing" /\ ~timedOut /\ results \in Seq(Result)
      /\ run \in Configurations /\ elapsed \in Nat /\ run.evidence
      /\ Books(reserved - Pending, consumed) /\ Len(results) < run.operators
      /\ LeftAt(Len(results)) <= Milliseconds(elapsed) /\ consumed <= run.total
  BY DEF SkipReservation, AuditInv, TypeOK, LoopGoesOn, IInv, PoolHolds
<1> PICK t \in Reading :
      /\ t < GlobalDeadline
      /\ results' = Append(results, Skipped("insufficient_token_reservation", t))
      /\ elapsed' = t
  BY DEF SkipReservation
<1>2. t \in Nat /\ elapsed <= t
  BY <1>1, ConstantsAssumption DEF Reading
<1>3. consumed \in Nat /\ reserved - Pending \in Nat /\ reserved \in Nat
  BY <1>1, BooksTotals DEF AuditInv, TypeOK
<1>4. run.operators \in Nat \ {0} /\ GlobalDeadline \in Nat /\ run.total \in Nat
  BY <1>1, ConfigurationFacts
<1>5. run.reserves /\ consumed + run.per > run.total
  BY <1>1, <1>3, <1>4 DEF SkipReservation, Reservation
<1> PICK r : r = Skipped("insufficient_token_reservation", t)
  OBVIOUS
<1> PICK left : left = LeftAt(Len(results))
  OBVIOUS
<1>6. left <= Milliseconds(t)
  <2>1. /\ Milliseconds(elapsed) \in Nat /\ Milliseconds(t) \in Nat
        /\ Milliseconds(elapsed) <= Milliseconds(t)
    BY <1>1, <1>2, MillisecondsOrder
  <2>2. left \in Nat
    BY <1>1, LeftIsNat
  <2> QED BY <1>1, <2>1, <2>2
<1>7. r \in Result /\ Dealt(r, consumed, left)
  BY <1>1, <1>2, <1>3, <1>5, <1>6, SkippedDealt
<1>8. Adds(r, r, 1)
  BY <1>1, <1>7, AddsOne
<1>9. r.reserved = 0 /\ r.consumed = 0 /\ ~Exhausted(r) /\ r.after = Milliseconds(t)
  BY DEF Skipped, Exhausted
<1>10. Len(results') = Len(results) + 1 /\ Len(results) \in Nat
  BY <1>1, <1>7
<1>11. Deals(r, r, 1)
  <2>1. /\ phase' = (IF Len(results) + 1 = run.operators THEN "generated" ELSE "choosing")
        /\ UNCHANGED <<run, reserved, consumed, timedOut, history, status>>
    BY <1>10 DEF SkipReservation, PhaseAfter
  <2>2. r.after <= Milliseconds(elapsed')
    BY <1>2, <1>9, MillisecondsOrder, SMTT(30)
  <2>3. /\ reserved' = (reserved - Pending) + r.reserved /\ consumed' = consumed + r.consumed
        /\ timedOut' = Exhausted(r)
    BY <1>1, <1>3, <1>9, <2>1 DEF Pending, AuditInv, TypeOK, Exhausted
  <2> QED BY <1>1, <1>4, <1>8, <1>9, <1>10, <2>1, <2>2, <2>3 DEF Deals
<1> QED BY <1>1, <1>7, <1>11, DealsKeeps

\* The books are kept by the results and the configuration alone.
LEMMA BooksSame ==
  ASSUME results' = results, run' = run, NEW R, NEW C, Books(R, C)
  PROVE  Books(R, C)'
<1> PICK f, g : BookedWith(f, g) /\ f[Len(results)] = R /\ g[Len(results)] = C
  BY DEF Books
<1>1. /\ Sums(f, Len(results), Reserves) /\ Sums(g, Len(results), Consumes)
      /\ Reserves' = Reserves /\ Consumes' = Consumes
  BY DEF BookedWith, Reserves, Consumes
<1>2. ASSUME NEW i \in DOMAIN results
      PROVE  /\ Dealt(results[i], g[i - 1], LeftAt(i - 1))'
             /\ f[i] <= i * MaxPerOperator /\ g[i] <= f[i]
  <2> PICK x, spent, left : x = results[i] /\ spent = g[i - 1] /\ left = LeftAt(i - 1)
    OBVIOUS
  <2>1. Dealt(x, spent, left) /\ f[i] <= i * MaxPerOperator /\ g[i] <= f[i]
    BY DEF BookedWith
  <2>2. Dealt(x, spent, left)'
    BY <2>1, DealtSame
  <2>3. results'[i] = x /\ LeftAt(i - 1)' = left
    BY DEF LeftAt
  <2> QED BY <2>1, <2>2, <2>3 DEF Dealt
<1>3. BookedWith(f, g)'
  BY <1>1, <1>2 DEF BookedWith
<1> QED BY <1>3 DEF Books

LEMMA StartCallKeeps ==
  ASSUME AuditInv, IInv, IInv', StartCall
  PROVE  AuditInv'
<1>1. /\ phase = "choosing" /\ ~timedOut /\ results \in Seq(Result)
      /\ run \in Configurations /\ elapsed \in Nat /\ run.evidence
      /\ Books(reserved - Pending, consumed) /\ Len(results) < run.operators
      /\ LeftAt(Len(results)) <= Milliseconds(elapsed)
      /\ history = <<>> /\ reserved \in Nat
  BY DEF StartCall, AuditInv, TypeOK, LoopGoesOn, LoopOver
<1> PICK t \in Reading :
      /\ t < GlobalDeadline
      /\ call' = [before |-> t,
                  timeout |-> Lesser(OperatorAllowance, GlobalDeadline - t),
                  global |-> GlobalDeadline - t <= OperatorAllowance]
      /\ elapsed' = t
  BY DEF StartCall
<1>2. t \in Nat /\ elapsed <= t
  BY <1>1, ConstantsAssumption DEF Reading
<1>3. /\ UNCHANGED <<run, results, consumed, timedOut, history, status>>
      /\ reserved' = reserved + Reservation /\ phase' = "calling"
  BY DEF StartCall
<1>4. Reservation \in Nat /\ Reservation' = Reservation
  BY <1>1, <1>3, ConfigurationFacts DEF Reservation
<1>5. Books(reserved - Pending, consumed)'
  <2>1. /\ reserved - Pending = reserved /\ reserved' - Pending' = reserved
        /\ consumed' = consumed
    BY <1>1, <1>3, <1>4 DEF Pending
  <2> PICK R, C : R = reserved - Pending /\ C = consumed
    OBVIOUS
  <2>2. Books(R, C)'
    BY <1>1, <1>3, BooksSame
  <2> QED BY <2>1, <2>2 DEF Books
<1>6. TypeOK'
  <2>1. reserved' \in Nat
    BY <1>1, <1>3, <1>4
  <2> QED BY <1>3, <2>1 DEF TypeOK, AuditInv, IInv
<1>7. Silent' /\ (timedOut' <=> (\E i \in DOMAIN results : Exhausted(results[i]))')
  BY <1>3 DEF AuditInv, Silent, LeftAt
<1>8. LoopGoesOn'
  <2>1. LeftAt(Len(results))' = LeftAt(Len(results)) /\ LeftAt(Len(results)) \in Nat
    BY <1>1, <1>3, LeftIsNat DEF LeftAt
  <2>2. /\ Milliseconds(elapsed) \in Nat /\ Milliseconds(t) \in Nat
        /\ Milliseconds(elapsed) <= Milliseconds(t)
    BY <1>1, <1>2, MillisecondsOrder
  <2>3. LeftAt(Len(results))' <= Milliseconds(elapsed')
    BY <1>1, <2>1, <2>2
  <2> QED BY <1>1, <1>3, <2>3 DEF LoopGoesOn
<1>9. LoopOver'
  BY <1>1, <1>3 DEF LoopOver
<1>10. CallFits'
  BY <1>3 DEF CallFits, OperatorAllowance, GlobalDeadline
<1>11. NeverRejected' /\ AuditAccepts'
  BY <1>3 DEF NeverRejected, AuditAccepts
<1> QED BY <1>5, <1>6, <1>7, <1>8, <1>9, <1>10, <1>11 DEF AuditInv

\* While an attempt is under way.
LEMMA CallingFacts ==
  ASSUME AuditInv, IInv, phase = "calling"
  PROVE  /\ results \in Seq(Result) /\ run \in Configurations /\ run.evidence
         /\ ~timedOut /\ Len(results) \in Nat /\ Len(results) < run.operators
         /\ run.operators \in Nat
         /\ Reservation \in Nat /\ Pending = Reservation
         /\ consumed \in Nat /\ reserved \in Nat /\ reserved - Pending \in Nat
         /\ consumed + Reservation <= run.total
         /\ call \in [before : Nat, timeout : Nat, global : BOOLEAN] /\ CallFits
         /\ call.before = elapsed
         /\ LeftAt(Len(results)) <= Milliseconds(call.before)
<1>1. /\ results \in Seq(Result) /\ run \in Configurations
      /\ Books(reserved - Pending, consumed) /\ CallFits
      /\ LeftAt(Len(results)) <= Milliseconds(elapsed)
      /\ run.evidence /\ ~timedOut /\ Len(results) < run.operators
      /\ reserved \in Nat /\ consumed \in Nat
  BY DEF AuditInv, TypeOK, LoopGoesOn
<1>2. run.operators \in Nat /\ Reservation \in Nat
  BY <1>1, ConfigurationFacts
<1>3. reserved - Pending \in Nat
  BY <1>1, BooksTotals
<1> QED BY <1>1, <1>2, <1>3 DEF IInv, PoolHolds, Pending, CallFits

\* An attempt ends by itself, or its own allowance ends it.
LEMMA SettleKeepsAudit ==
  ASSUME AuditInv, IInv, IInv', phase = "calling",
         NEW code \in Codes \ {"insufficient_token_reservation",
                               "global_deadline_exhausted"},
         code = "insufficient_evidence" => ~run.reserves,
         NEW used \in 0..Reservation, NEW at \in Nat, call.before <= at,
         code = "provider_timeout" => ~call.global /\ call.before + call.timeout <= at,
         Settle(code, used, at)
  PROVE  AuditInv'
<1>1. /\ results \in Seq(Result) /\ run \in Configurations /\ run.evidence
      /\ ~timedOut /\ Len(results) \in Nat /\ Len(results) < run.operators
      /\ run.operators \in Nat
      /\ Reservation \in Nat /\ Pending = Reservation
      /\ consumed \in Nat /\ reserved \in Nat /\ reserved - Pending \in Nat
      /\ consumed + Reservation <= run.total
      /\ call \in [before : Nat, timeout : Nat, global : BOOLEAN] /\ CallFits
      /\ LeftAt(Len(results)) <= Milliseconds(call.before)
  BY CallingFacts
<1> PICK r : r = Attempted(code, used, at)
  OBVIOUS
<1> PICK left : left = LeftAt(Len(results))
  OBVIOUS
<1>2. r \in Result /\ Dealt(r, consumed, left)
  BY <1>1, AttemptedDealt
<1>3. /\ results' = Append(results, r) /\ consumed' = consumed + used
      /\ elapsed' = at /\ phase' = PhaseAfter(results')
      /\ UNCHANGED <<run, reserved, timedOut, history, status>>
  BY DEF Settle
<1>4. Adds(r, r, 1)
  BY <1>1, <1>2, <1>3, AddsOne
<1>5. /\ r.reserved = Reservation /\ r.consumed = used /\ ~Exhausted(r)
      /\ r.after = Milliseconds(at)
  BY DEF Attempted, Exhausted
<1>6. Len(results') = Len(results) + 1
  BY <1>1, <1>2, <1>3
<1>7. Deals(r, r, 1)
  <2>1. phase' = IF Len(results) + 1 = run.operators THEN "generated" ELSE "choosing"
    BY <1>3, <1>6 DEF PhaseAfter
  <2>2. r.after <= Milliseconds(elapsed')
    BY <1>3, <1>5, MillisecondsOrder
  <2>3. reserved' = (reserved - Pending) + r.reserved /\ consumed' = consumed + r.consumed
    BY <1>1, <1>3, <1>5
  <2>4. timedOut' = Exhausted(r)
    <3>1. Exhausted(r) = FALSE /\ timedOut = FALSE
      BY <1>1, <1>5 DEF Exhausted, AuditInv, TypeOK
    <3> QED BY <1>3, <3>1
  <2>5. Len(results) + 1 <= run.operators
    BY <1>1
  <2> QED BY <1>1, <1>3, <1>4, <1>5, <2>1, <2>2, <2>3, <2>4, <2>5 DEF Deals
<1> QED BY <1>2, <1>7, DealsKeeps

\* The global deadline ends an attempt, and the loop with it.
LEMMA GlobalExpiryKeeps ==
  ASSUME AuditInv, IInv, IInv', phase = "calling", call.global,
         NEW at \in Nat, call.before + call.timeout <= at,
         results' = SkippedAfter(
           Append(results, Attempted("global_deadline_exhausted", Reservation, at)),
           "global_deadline_exhausted", at),
         consumed' = consumed + Reservation, timedOut' = TRUE, phase' = "generated",
         UNCHANGED <<run, reserved, history, status>>
  PROVE  AuditInv'
<1> DEFINE code == "global_deadline_exhausted"
<1>1. /\ results \in Seq(Result) /\ run \in Configurations /\ run.evidence
      /\ ~timedOut /\ Len(results) \in Nat /\ Len(results) < run.operators
      /\ run.operators \in Nat
      /\ Reservation \in Nat /\ Pending = Reservation
      /\ consumed \in Nat /\ reserved \in Nat /\ reserved - Pending \in Nat
      /\ consumed + Reservation <= run.total
      /\ call \in [before : Nat, timeout : Nat, global : BOOLEAN] /\ CallFits
      /\ LeftAt(Len(results)) <= Milliseconds(call.before)
  BY CallingFacts
<1> PICK r : r = Attempted(code, Reservation, at)
  OBVIOUS
<1> PICK s : s = Skipped(code, at)
  OBVIOUS
<1> PICK left : left = LeftAt(Len(results))
  OBVIOUS
<1>2. r \in Result /\ Dealt(r, consumed, left)
  <2>1. /\ code \in Codes /\ Reservation \in 0..Reservation /\ call.before <= at
        /\ code # "insufficient_evidence" /\ code # "provider_timeout"
        /\ code # "insufficient_token_reservation"
    BY <1>1 DEF Codes
  <2> QED BY <1>1, <2>1, AttemptedDealt
<1>3. GlobalDeadline \in Nat /\ OperatorAllowance \in Nat
  BY <1>1, ConfigurationFacts
<1>4. GlobalDeadline <= at
  BY <1>1, <1>3 DEF CallFits, Lesser
<1>5. /\ r.reserved = Reservation /\ r.consumed = Reservation
      /\ Exhausted(r) = TRUE /\ r.after = Milliseconds(at)
      /\ s.reserved = 0 /\ s.consumed = 0 /\ Exhausted(s) = TRUE
      /\ s.after = Milliseconds(at)
  BY DEF Attempted, Skipped, Exhausted
<1>6. s \in Result /\ Dealt(s, consumed + r.consumed, r.after)
  <2>1. Milliseconds(at) <= Milliseconds(at)
    BY MillisecondsOrder
  <2>2. consumed + r.consumed \in Nat /\ r.after <= Milliseconds(at)
    BY <1>1, <1>5, <2>1
  <2> QED BY <1>1, <1>4, <2>2, SkippedDealt
<1>7. Follow(r, s, consumed)
  BY <1>5, <1>6 DEF Follow
<1> PICK m \in Nat : m + 1 = run.operators - Len(results)
  <2>1. run.operators - Len(results) - 1 \in Nat
    BY <1>1
  <2>2. (run.operators - Len(results) - 1) + 1 = run.operators - Len(results)
    BY <1>1
  <2> QED BY <2>1, <2>2
<1>8. Adds(r, s, m + 1)
  <2> PICK q : q = Append(results, r)
    OBVIOUS
  <2>1. Len(q) = Len(results) + 1
    BY <1>1, <1>2
  <2>2. run.operators - Len(q) = m
    BY <1>1, <2>1, SMTT(30)
  <2>3. results' = q \o [i \in 1..m |-> s]
    BY <2>2 DEF SkippedAfter
  <2>4. results' = results \o [i \in 1..m + 1 |-> IF i = 1 THEN r ELSE s]
    <3> PICK u \in Seq(Result) : u = results
      BY <1>1
    <3>1. r \in Result /\ s \in Result /\ m \in Nat
      BY <1>2, <1>6
    <3> HIDE DEF code
    <3>2. Append(u, r) \o [i \in 1..m |-> s]
            = u \o [i \in 1..m + 1 |-> IF i = 1 THEN r ELSE s]
      BY <3>1, AppendedMore
    <3> QED BY <2>3, <3>2
  <2> QED BY <2>4 DEF Adds
<1>9. Len(results) + (m + 1) = run.operators
  BY <1>1
<1>10. Deals(r, s, m + 1)
  <2>1. reserved' = (reserved - Pending) + r.reserved /\ consumed' = consumed + r.consumed
    BY <1>1, <1>5
  <2>2. timedOut' = Exhausted(r)
    BY <1>5
  <2> QED BY <1>1, <1>8, <1>9, <2>1, <2>2, SMTT(30) DEF Deals
<1>11. m + 1 \in Nat \ {0}
  OBVIOUS
<1> QED BY <1>2, <1>6, <1>7, <1>10, <1>11, DealsKeeps
-----------------------------------------------------------------------------
(* The third transaction: no run is refused, and what it records passes    *)
(* the audit.                                                              *)

\* The loop is over, with the totals f and g.
Generated(f, g) ==
  /\ run \in Configurations /\ results \in Seq(Result)
  /\ Len(results) = run.operators
  /\ BookedWith(f, g) /\ reserved = f[Len(results)] /\ consumed = g[Len(results)]
  /\ Silent
  /\ timedOut \in BOOLEAN
  /\ timedOut <=> \E i \in DOMAIN results : Exhausted(results[i])

\* The event e tells of the result r of the i-th operator: ideas of which
\* nothing was left are the one thing it may tell otherwise.
Tells(e, r, i, f, g) ==
  /\ e.code = r.code \/ (r.code = "ok" /\ e.code = "no_valid_branches")
  /\ e.reservedBefore = f[i - 1] /\ e.reservedAfter = f[i]
  /\ e.consumedBefore = g[i - 1] /\ e.consumedAfter = g[i]
  /\ e.before = LeftAt(i - 1) /\ e.after = r.after
  /\ ReservedBy(e) = r.reserved /\ ConsumedBy(e) = r.consumed
  /\ r.reserved \in Nat /\ r.consumed \in Nat /\ r.before \in Nat /\ r.after \in Nat
  /\ r.attempted \in BOOLEAN /\ LeftAt(i - 1) \in Nat
  /\ f[i - 1] \in Nat /\ f[i] \in Nat /\ g[i - 1] \in Nat /\ g[i] \in Nat

LEMMA EventTells ==
  ASSUME NEW f, NEW g, Generated(f, g),
         NEW emptied \in SUBSET {i \in DOMAIN results : results[i].code = "ok"},
         NEW i \in DOMAIN results
  PROVE  Tells(Event(i, emptied), results[i], i, f, g)
<1> PICK n \in Nat : n = Len(results)
  BY DEF Generated
<1>1. DOMAIN results = 1..n /\ results[i] \in Result
  BY DEF Generated
<1>2. Sums(f, n, Reserves) /\ Sums(g, n, Consumes)
  BY DEF Generated, BookedWith
<1>3. ReservedUpTo = f /\ ConsumedUpTo = g
  BY <1>2, RecursiveTotals DEF Generated
<1>4. i \in 1..n /\ i \in 0..n /\ i - 1 \in 0..n /\ (i - 1 # 0 => i - 1 \in 1..n)
  BY <1>1
<1>5. ElapsedUpTo[i - 1] = LeftAt(i - 1) /\ ElapsedUpTo[i] = results[i].after
  BY <1>4 DEF ElapsedUpTo, LeftAt
<1>6. LeftAt(i - 1) \in Nat
  <2>1. CASE i - 1 = 0
    BY <2>1 DEF LeftAt
  <2>2. CASE i - 1 # 0
    <3>1. results[i - 1] \in Result
      BY <1>1, <1>4, <2>2 DEF Generated
    <3> QED BY <2>2, <3>1 DEF LeftAt, Result
  <2> QED BY <2>1, <2>2
<1>7. /\ f[i - 1] \in Nat /\ f[i] \in Nat /\ g[i - 1] \in Nat /\ g[i] \in Nat
      /\ f[i] = f[i - 1] + results[i].reserved /\ g[i] = g[i - 1] + results[i].consumed
  BY <1>1, <1>2, <1>4 DEF Sums, Reserves, Consumes
<1> PICK r : r = results[i]
  OBVIOUS
<1>8. r.reserved \in Nat /\ r.consumed \in Nat /\ r.before \in Nat /\ r.after \in Nat
      /\ r.attempted \in BOOLEAN
  BY <1>1 DEF Result
<1> PICK e : e = Event(i, emptied)
  OBVIOUS
<1>9. /\ e.code = Outcome(i, emptied)
      /\ e.reservedBefore = f[i - 1] /\ e.reservedAfter = f[i]
      /\ e.consumedBefore = g[i - 1] /\ e.consumedAfter = g[i]
      /\ e.before = LeftAt(i - 1) /\ e.after = r.after
  BY <1>3, <1>5 DEF Event
<1>10. e.code = r.code \/ (r.code = "ok" /\ e.code = "no_valid_branches")
  <2>1. i \in emptied => results[i].code = "ok"
    OBVIOUS
  <2>2. i \in emptied => Outcome(i, emptied) = "no_valid_branches"
    BY DEF Outcome
  <2>3. i \notin emptied => Outcome(i, emptied) = results[i].code
    BY DEF Outcome
  <2> QED BY <1>9, <2>1, <2>2, <2>3
<1>11. ReservedBy(e) = r.reserved /\ ConsumedBy(e) = r.consumed
  BY <1>7, <1>8, <1>9, SMTT(30) DEF ReservedBy, ConsumedBy
<1> QED BY <1>6, <1>7, <1>8, <1>9, <1>10, <1>11 DEF Tells

\* The totals stay within the limit on a run (AuditInv's f[i] <= i * MaxPerOperator).
LEMMA TotalsBounded ==
  ASSUME NEW f, NEW g, Generated(f, g), NEW i \in DOMAIN results
  PROVE  f[i] \in Nat /\ g[i] \in Nat /\ f[i] <= MaxPerRun /\ g[i] <= f[i]
<1>1. /\ run.operators \in Nat \ {0} /\ run.operators * MaxPerOperator <= MaxPerRun
      /\ MaxPerOperator \in Nat /\ MaxPerRun \in Nat
  BY ConfigurationsAssumption, ConstantsAssumption DEF Generated, Configuration
<1>2. DOMAIN results = 1..run.operators
  BY DEF Generated
<1>3. f[i] \in Nat /\ g[i] \in Nat
  BY <1>1, <1>2 DEF Generated, BookedWith, Sums
<1>4. f[i] <= i * MaxPerOperator /\ g[i] <= f[i]
  BY DEF Generated, BookedWith
<1>5. i * MaxPerOperator \in Nat /\ i * MaxPerOperator <= run.operators * MaxPerOperator
      /\ run.operators * MaxPerOperator \in Nat
  BY <1>1, <1>2, Multiples
<1> QED BY <1>1, <1>3, <1>4, <1>5

LEMMA GeneratedWellFormed ==
  ASSUME NEW f, NEW g, Generated(f, g)
  PROVE  WellFormed
<1> PICK n \in Nat : n = Len(results)
  BY DEF Generated
<1>1. /\ DOMAIN results = 1..n /\ n # 0
  BY ConfigurationsAssumption DEF Generated, Configuration
<1>2. Sums(f, n, Reserves) /\ Sums(g, n, Consumes)
  BY DEF Generated, BookedWith
<1>3. ReservedUpTo = f /\ ConsumedUpTo = g
  BY <1>2, RecursiveTotals DEF Generated
<1>4. ASSUME NEW i \in DOMAIN results
      PROVE  WellFormedResult(results[i]) /\ LeftAt(i - 1) <= results[i].before
  BY DEF Generated, BookedWith, Dealt
<1>5. ASSUME NEW i \in DOMAIN results \ {1}
      PROVE  results[i - 1].after <= results[i].before
  <2>1. i - 1 # 0
    BY <1>1
  <2> QED BY <1>4, <2>1 DEF LeftAt
<1>6. n \in DOMAIN results
  BY <1>1
<1>7. f[n] <= MaxPerRun /\ g[n] <= f[n]
  BY <1>6, TotalsBounded
<1> QED BY <1>3, <1>4, <1>5, <1>7 DEF WellFormed, Generated, Exhausted

\* What the payloads and the projector require of one event.
LEMMA EventAccepted ==
  ASSUME NEW f, NEW g, Generated(f, g), NEW i \in DOMAIN results, NEW e,
         Tells(e, results[i], i, f, g)
  PROVE  /\ ReservedBy(e) \in 0..MaxPerOperator
         /\ ConsumedBy(e) \in 0..ReservedBy(e)
         /\ e.reservedAfter <= MaxPerRun
         /\ e.before <= e.after
<1> PICK r, left : r = results[i] /\ left = LeftAt(i - 1)
  OBVIOUS
<1>1. WellFormedResult(r) /\ left <= r.before
  BY DEF Generated, BookedWith, Dealt
<1>2. f[i] <= MaxPerRun
  BY TotalsBounded
<1> QED BY <1>1, <1>2 DEF Tells, WellFormedResult

\* What startup, verify and repair require of one event.
LEMMA EventAudited ==
  ASSUME NEW f, NEW g, Generated(f, g), NEW i \in DOMAIN results, NEW e,
         Tells(e, results[i], i, f, g), NEW past \in BOOLEAN,
         past <=> \E k \in 1..(i - 1) : Exhausted(results[k])
  PROVE  /\ ReservationValid(e) /\ TokenDecisionValid(e) /\ TimeoutValid(e)
         /\ DeadlineValid(e, past)
         /\ Costless(e) \/ SkippedLater(e)
<1> PICK r, spent, left : r = results[i] /\ spent = g[i - 1] /\ left = LeftAt(i - 1)
  OBVIOUS
<1>1. Dealt(r, spent, left) /\ Tells(e, r, i, f, g)
  BY DEF Generated, BookedWith
<1>2. /\ run.per \in Nat \ {0} /\ run.reserves \in BOOLEAN /\ run.total \in Nat
      /\ run.operatorTimeout \in Nat /\ run.globalTimeout \in Nat
  BY ConfigurationsAssumption DEF Generated, Configuration
<1>3. /\ Reservation = (IF run.reserves THEN run.per ELSE 0)
  BY DEF Reservation
<1>4. /\ ReservedBy(e) = r.reserved /\ ConsumedBy(e) = r.consumed
      /\ Lasted(e) = r.after - left /\ e.after = r.after
      /\ e.consumedBefore = spent
      /\ r.reserved \in Nat /\ r.consumed \in Nat /\ r.before \in Nat /\ r.after \in Nat
      /\ r.attempted \in BOOLEAN /\ left \in Nat /\ spent \in Nat
      /\ e.code = r.code \/ (r.code = "ok" /\ e.code = "no_valid_branches")
  BY <1>1 DEF Tells, Lasted
<1>5. /\ left <= r.before /\ r.before <= r.after
      /\ r.attempted => r.reserved = Reservation /\ spent + Reservation <= run.total
      /\ ~r.attempted =>
           /\ r.before = r.after /\ r.reserved = 0 /\ r.consumed = 0
           /\ r.code \in {"global_deadline_exhausted", "insufficient_evidence",
                          "insufficient_token_reservation"}
  <2>1. /\ left <= r.before
        /\ r.attempted => r.reserved = Reservation /\ spent + Reservation <= run.total
        /\ ~r.attempted => r.before = r.after
    BY <1>1 DEF Dealt
  <2>2. /\ r.before <= r.after /\ r.consumed \in 0..r.reserved
        /\ ~r.attempted => r.reserved = 0
    BY <1>1 DEF Dealt, WellFormedResult
  <2>3. ~r.attempted =>
          r.code \in {"global_deadline_exhausted", "insufficient_evidence",
                     "insufficient_token_reservation"}
    BY <1>1 DEF Dealt, WellFormedResult
  <2>4. r.reserved = 0 => r.consumed = 0
    BY <2>2
  <2> QED BY <2>1, <2>2, <2>3, <2>4
<1>6. /\ r.code = "insufficient_token_reservation" =>
           run.reserves /\ spent + run.per > run.total /\ ~r.attempted
      /\ r.code = "provider_timeout" => r.after - r.before >= run.operatorTimeout
      /\ r.code = "insufficient_evidence" =>
           r.reserved = 0 /\ (~r.attempted => r.after = 0)
      /\ r.code = "global_deadline_exhausted" => r.after >= run.globalTimeout
  BY <1>1 DEF Dealt, Exhausted
<1>7. past => /\ r.code = "global_deadline_exhausted"
              /\ r.reserved = 0 /\ r.consumed = 0 /\ r.after = left
  BY DEF Generated, Silent, Exhausted
<1>8. ReservationValid(e)
  BY <1>2, <1>3, <1>4, <1>5, <1>6 DEF ReservationValid, Exhausted
<1>9. TokenDecisionValid(e)
  BY <1>2, <1>3, <1>4, <1>5, <1>6 DEF TokenDecisionValid
<1>10. TimeoutValid(e)
  BY <1>2, <1>4, <1>5, <1>6 DEF TimeoutValid
<1>11. DeadlineValid(e, past)
  BY <1>2, <1>4, <1>6, <1>7 DEF DeadlineValid, Exhausted
<1>12. Costless(e) \/ SkippedLater(e)
  <2>1. CASE r.attempted
    BY <1>2, <1>3, <1>4, <1>5, <2>1 DEF Costless
  <2>2. CASE ~r.attempted /\ r.code = "insufficient_evidence"
    BY <1>4, <1>5, <1>6, <2>2 DEF Costless
  <2>3. CASE ~r.attempted /\ r.code # "insufficient_evidence"
    BY <1>4, <1>5, <2>3 DEF Costless, SkippedLater
  <2> QED BY <1>4, <2>1, <2>2, <2>3
<1> QED BY <1>8, <1>9, <1>10, <1>11, <1>12

\* The terminal event tells what the operator events tell.
TerminalTells(events, terminal) ==
  /\ terminal \in Statuses /\ TerminalValid(events, terminal)
  /\ terminal = "timed_out" =>
       \E i \in DOMAIN events : events[i].code = "global_deadline_exhausted"
  /\ terminal = "completed" => \A i \in DOMAIN events : events[i].code = "ok"
  /\ terminal = "completed_with_errors" =>
       {events[i].code = "ok" : i \in DOMAIN events} = BOOLEAN
  /\ terminal = "failed" => \A i \in DOMAIN events : events[i].code # "ok"
  /\ terminal \in {"timed_out", "completed", "completed_with_errors", "failed"}

LEMMA TerminalAccepted ==
  ASSUME NEW n \in Nat, n # 0, NEW events, DOMAIN events = 1..n, Len(events) = n,
         timedOut \in BOOLEAN,
         timedOut <=> \E i \in DOMAIN events : Exhausted(events[i]),
         NEW terminal, terminal = StatusOf(events)
  PROVE  TerminalTells(events, terminal)
<1> DEFINE S == {i \in DOMAIN events : events[i].code = "ok"}
<1>1. IsFiniteSet(1..n) /\ Cardinality(1..n) = n
  BY FS_Interval
<1>2. /\ IsFiniteSet(S) /\ Cardinality(S) \in Nat
      /\ Cardinality(S) = n => S = 1..n
      /\ Cardinality(S) = 0 => S = {}
  <2>1. S \in SUBSET (1..n)
    OBVIOUS
  <2> HIDE DEF S
  <2>2. /\ IsFiniteSet(S) /\ Cardinality(S) <= Cardinality(1..n)
        /\ Cardinality(1..n) = Cardinality(S) => 1..n = S
    BY <1>1, <2>1, FS_Subset
  <2> QED BY <1>1, <2>2, FS_EmptySet, FS_CardinalityType
<1>3. terminal = IF timedOut THEN "timed_out"
                 ELSE IF Cardinality(S) = n THEN "completed"
                 ELSE IF Cardinality(S) > 0 THEN "completed_with_errors" ELSE "failed"
  BY DEF StatusOf
<1>4. S = 1..n => \A i \in DOMAIN events : events[i].code = "ok"
  OBVIOUS
<1>5. S = {} => \A i \in DOMAIN events : events[i].code # "ok"
  OBVIOUS
<1>6. S # {} /\ S # 1..n => {events[i].code = "ok" : i \in DOMAIN events} = BOOLEAN
  <2> SUFFICES ASSUME S # {}, S # 1..n
               PROVE  {events[i].code = "ok" : i \in DOMAIN events} = BOOLEAN
    OBVIOUS
  <2>1. PICK a \in DOMAIN events : events[a].code = "ok"
    OBVIOUS
  <2>2. PICK b \in DOMAIN events : events[b].code # "ok"
    OBVIOUS
  <2>3. (events[a].code = "ok") = TRUE /\ (events[b].code = "ok") = FALSE
    BY <2>1, <2>2
  <2>4. /\ TRUE \in {events[i].code = "ok" : i \in DOMAIN events}
        /\ FALSE \in {events[i].code = "ok" : i \in DOMAIN events}
    BY <2>3
  <2>5. \A i \in DOMAIN events : (events[i].code = "ok") \in BOOLEAN
    OBVIOUS
  <2> QED BY <2>4, <2>5
<1>7. /\ n \in Nat \ {0}
      /\ {} # 1..n
  <2>1. 1 \in 1..n
    OBVIOUS
  <2> QED BY <2>1
<1> HIDE DEF S
<1>8. terminal = "completed" => S = 1..n
  BY <1>2, <1>3
<1>9. terminal = "completed_with_errors" => S # {} /\ S # 1..n
  BY <1>1, <1>2, <1>3, FS_EmptySet
<1>10. terminal = "failed" => S = {}
  BY <1>2, <1>3
<1>11. terminal = "timed_out" <=> timedOut
  BY <1>3
<1>12. terminal \in Statuses
       /\ terminal \in {"timed_out", "completed", "completed_with_errors", "failed"}
  BY <1>3 DEF Statuses
<1> QED BY <1>4, <1>5, <1>6, <1>8, <1>9, <1>10, <1>11, <1>12
        DEF TerminalTells, TerminalValid, Exhausted

\* The third transaction.
LEMMA FinalizeKeeps ==
  ASSUME AuditInv, IInv, IInv', Finalize
  PROVE  AuditInv'
<1>1. /\ phase = "generated" /\ results \in Seq(Result) /\ run \in Configurations
      /\ Books(reserved - Pending, consumed) /\ Silent /\ timedOut \in BOOLEAN
      /\ timedOut <=> \E i \in DOMAIN results : Exhausted(results[i])
      /\ Len(results) = run.operators
      /\ UNCHANGED <<run, elapsed, call, results, reserved, consumed, timedOut>>
      /\ reserved \in Nat /\ history = <<>>
  BY DEF Finalize, AuditInv, TypeOK, LoopOver
<1>2. reserved - Pending = reserved
  BY <1>1 DEF Pending
<1> PICK f, g : BookedWith(f, g) /\ f[Len(results)] = reserved /\ g[Len(results)] = consumed
  BY <1>1, <1>2 DEF Books
<1>3. Generated(f, g)
  BY <1>1 DEF Generated
<1> PICK n \in Nat : n = Len(results)
  BY <1>1
<1>4. DOMAIN results = 1..n /\ n = run.operators /\ n # 0
  BY <1>1, ConfigurationFacts
<1> PICK emptied \in SUBSET {i \in DOMAIN results : results[i].code = "ok"} :
      LET events == [i \in DOMAIN results |-> Event(i, emptied)]
          terminal == StatusOf(events)
      IN IF WellFormed /\ ProjectorAccepts(events, terminal)
         THEN phase' = "recorded" /\ history' = events /\ status' = terminal
         ELSE phase' = "rejected" /\ UNCHANGED <<history, status>>
  BY DEF Finalize
<1> PICK events : events = [i \in DOMAIN results |-> Event(i, emptied)]
  OBVIOUS
<1> PICK terminal : terminal = StatusOf(events)
  OBVIOUS
<1>5. IF WellFormed /\ ProjectorAccepts(events, terminal)
      THEN phase' = "recorded" /\ history' = events /\ status' = terminal
      ELSE phase' = "rejected" /\ UNCHANGED <<history, status>>
  OBVIOUS
<1>6. DOMAIN events = 1..n /\ Len(events) = n
  BY <1>4
<1>7. ASSUME NEW i \in DOMAIN results
      PROVE  Tells(events[i], results[i], i, f, g)
  <2>1. Tells(Event(i, emptied), results[i], i, f, g)
    BY <1>3, EventTells
  <2> QED BY <2>1
<1>8. ASSUME NEW i \in DOMAIN results
      PROVE  Exhausted(events[i]) <=> Exhausted(results[i])
  BY <1>7 DEF Tells, Exhausted
<1>9. WellFormed
  BY <1>3, GeneratedWellFormed
<1>10. timedOut <=> \E i \in DOMAIN events : Exhausted(events[i])
  BY <1>1, <1>4, <1>6, <1>8
<1>11. TerminalTells(events, terminal)
  BY <1>1, <1>4, <1>6, <1>10, TerminalAccepted
<1>12. ProjectorAccepts(events, terminal)
  <2>1. \A i \in DOMAIN events :
          /\ ReservedBy(events[i]) \in 0..MaxPerOperator
          /\ ConsumedBy(events[i]) \in 0..ReservedBy(events[i])
          /\ events[i].reservedAfter <= MaxPerRun
          /\ events[i].before <= events[i].after
    BY <1>3, <1>4, <1>6, <1>7, EventAccepted
  <2> QED BY <1>11, <2>1 DEF ProjectorAccepts, TerminalTells
<1>13. phase' = "recorded" /\ history' = events /\ status' = terminal
  BY <1>5, <1>9, <1>12
<1>14. ASSUME NEW i \in DOMAIN events
       PROVE  LET e == events[i] IN
              /\ ReservationValid(e) /\ TokenDecisionValid(e) /\ TimeoutValid(e)
              /\ DeadlineValid(e, \E k \in 1..(i - 1) : Exhausted(events[k]))
              /\ Continues(events, i)
              /\ Costless(e) \/ SkippedLater(e)
  <2>1. i \in DOMAIN results /\ i \in 1..n
    BY <1>4, <1>6
  <2> PICK e : e = events[i]
    OBVIOUS
  <2> PICK past \in BOOLEAN : past = \E k \in 1..(i - 1) : Exhausted(events[k])
    OBVIOUS
  <2>2. Tells(e, results[i], i, f, g)
    BY <1>7, <2>1
  <2>3. \A k \in 1..(i - 1) : k \in DOMAIN results
    BY <1>4, <2>1
  <2>4. past <=> \E k \in 1..(i - 1) : Exhausted(results[k])
    BY <1>8, <2>3
  <2>5. /\ ReservationValid(e) /\ TokenDecisionValid(e) /\ TimeoutValid(e)
        /\ DeadlineValid(e, past)
        /\ Costless(e) \/ SkippedLater(e)
    BY <1>3, <2>1, <2>2, <2>4, EventAudited
  <2>6. Continues(events, i)
    <3>1. CASE i = 1
      <4>1. f[0] = 0 /\ g[0] = 0
        BY <1>3 DEF Generated, BookedWith, Sums
      <4>2. LeftAt(0) = 0
        BY DEF LeftAt
      <4> QED BY <2>2, <3>1, <4>1, <4>2 DEF Continues, Tells
    <3>2. CASE i # 1
      <4>1. i - 1 \in DOMAIN results /\ i - 1 # 0
        BY <1>4, <2>1, <3>2
      <4>2. Tells(events[i - 1], results[i - 1], i - 1, f, g)
        BY <1>7, <4>1
      <4>3. LeftAt(i - 1) = results[i - 1].after
        BY <4>1 DEF LeftAt
      <4> QED BY <2>2, <3>2, <4>2, <4>3 DEF Continues, Tells
    <3> QED BY <3>1, <3>2
  <2> QED BY <2>5, <2>6
<1>15. AuditAccepts'
  <2>1. run' = run /\ history' = events /\ status' = terminal
    BY <1>1, <1>13
  <2>2. ASSUME NEW i \in DOMAIN history'
        PROVE  ReservationValid(history[i])'
    BY <1>14, <2>1, <2>2 DEF ReservationValid
  <2>3. ASSUME NEW i \in DOMAIN history'
        PROVE  TokenDecisionValid(history[i])'
    BY <1>14, <2>1, <2>3 DEF TokenDecisionValid
  <2>4. ASSUME NEW i \in DOMAIN history'
        PROVE  TimeoutValid(history[i])'
    BY <1>14, <2>1, <2>4 DEF TimeoutValid
  <2>5. ASSUME NEW i \in DOMAIN history'
        PROVE  DeadlineValid(history[i], \E k \in 1..(i - 1) : Exhausted(history[k]))'
    BY <1>14, <2>1, <2>5 DEF DeadlineValid
  <2>6. ASSUME NEW i \in DOMAIN history'
        PROVE  Continues(history, i)'
    BY <1>14, <2>1, <2>6 DEF Continues
  <2>7. ASSUME NEW i \in DOMAIN history'
        PROVE  (Costless(history[i]) \/ SkippedLater(history[i]))'
    BY <1>14, <2>1, <2>7 DEF Costless
  <2>8. TerminalValid(history, status)'
    BY <1>11, <2>1 DEF TerminalTells, TerminalValid
  <2> QED BY <2>2, <2>3, <2>4, <2>5, <2>6, <2>7, <2>8 DEF AuditAccepts
<1>16. Books(reserved - Pending, consumed)'
  <2>1. reserved' - Pending' = reserved /\ consumed' = consumed
    BY <1>1, <1>13 DEF Pending
  <2> PICK R, C : R = reserved /\ C = consumed
    OBVIOUS
  <2>2. Books(R, C)'
    BY <1>1, <1>2, BooksSame
  <2> QED BY <2>1, <2>2 DEF Books
<1>17. TypeOK'
  BY <1>1, <1>4, <1>6, <1>11, <1>13 DEF TypeOK, AuditInv, TerminalTells
<1>18. Silent' /\ (timedOut' <=> (\E i \in DOMAIN results : Exhausted(results[i]))')
  BY <1>1 DEF Silent, LeftAt
<1>19. LoopGoesOn' /\ LoopOver' /\ phase' # "calling" /\ NeverRejected'
  BY <1>1, <1>4, <1>6, <1>13 DEF LoopGoesOn, LoopOver, NeverRejected
<1> QED BY <1>15, <1>16, <1>17, <1>18, <1>19 DEF AuditInv

\* A step that changes nothing.
LEMMA StutterKeeps ==
  ASSUME AuditInv, UNCHANGED vars
  PROVE  AuditInv'
<1>1. /\ run' = run /\ phase' = phase /\ elapsed' = elapsed /\ call' = call
      /\ results' = results /\ reserved' = reserved /\ consumed' = consumed
      /\ timedOut' = timedOut /\ history' = history /\ status' = status
  BY DEF vars
<1>2. Books(reserved - Pending, consumed)'
  <2> PICK R, C : R = reserved - Pending /\ C = consumed
    OBVIOUS
  <2>1. reserved' - Pending' = R /\ consumed' = C
    BY <1>1 DEF Pending, Reservation
  <2>2. Books(R, C)'
    BY <1>1, BooksSame DEF AuditInv
  <2> QED BY <2>1, <2>2 DEF Books
<1>3. AuditAccepts'
  BY <1>1 DEF AuditInv, AuditAccepts, ReservationValid, TokenDecisionValid,
     TimeoutValid, DeadlineValid, Costless, TerminalValid, Continues
<1>4. Silent' /\ (timedOut' <=> (\E i \in DOMAIN results : Exhausted(results[i]))')
  BY <1>1 DEF AuditInv, Silent, LeftAt
<1>5. LoopGoesOn' /\ LoopOver' /\ NeverRejected'
  BY <1>1 DEF AuditInv, LoopGoesOn, LoopOver, NeverRejected, LeftAt
<1>6. phase' = "calling" => CallFits'
  BY <1>1 DEF AuditInv, CallFits, OperatorAllowance, GlobalDeadline
<1>7. TypeOK'
  BY <1>1 DEF AuditInv, TypeOK
<1> QED BY <1>2, <1>3, <1>4, <1>5, <1>6, <1>7 DEF AuditInv

\* Every step keeps the invariant of the audit.
LEMMA AuditStep ==
  ASSUME AuditInv, IInv, IInv', [Next]_vars
  PROVE  AuditInv'
<1>1. CASE EmptySnapshot
  BY <1>1, EmptySnapshotKeeps
<1>2. CASE ExhaustedBefore
  BY <1>2, ExhaustedBeforeKeeps
<1>3. CASE SkipReservation
  BY <1>3, SkipReservationKeeps
<1>4. CASE StartCall
  BY <1>4, StartCallKeeps
<1>5. ASSUME NEW t \in Reading, phase = "calling"
      PROVE  /\ t \in Nat /\ call.before <= t
             /\ ExpiredAt(t) \in Nat /\ call.before <= ExpiredAt(t)
             /\ call.before + call.timeout <= ExpiredAt(t)
             /\ Reservation \in Nat
  <2>1. call.before \in Nat /\ call.timeout \in Nat /\ call.before = elapsed
        /\ Reservation \in Nat
    BY <1>5, CallingFacts
  <2>2. t \in Nat /\ call.before <= t
    BY <2>1, ConstantsAssumption DEF Reading
  <2> QED BY <2>1, <2>2 DEF ExpiredAt, Greater
<1>6. CASE CallReturns
  <2> PICK t \in Reading, code \in Answers, used \in 0..Reservation : Settle(code, used, t)
    BY <1>6 DEF CallReturns
  <2>1. phase = "calling"
    BY <1>6 DEF CallReturns
  <2>2. /\ code \in Codes \ {"insufficient_token_reservation", "global_deadline_exhausted"}
        /\ code = "insufficient_evidence" => ~run.reserves
        /\ code # "provider_timeout"
    BY DEF Answers, Codes
  <2> QED BY <1>5, <2>1, <2>2, SettleKeepsAudit
<1>7. CASE CallRefused
  <2> PICK t \in Reading, code \in {"provider_budget_violation", "generator_error"} :
        Settle(code, Reservation, t)
    BY <1>7 DEF CallRefused
  <2>1. phase = "calling"
    BY <1>7 DEF CallRefused
  <2>2. /\ code \in Codes \ {"insufficient_token_reservation", "global_deadline_exhausted"}
        /\ code # "insufficient_evidence" /\ code # "provider_timeout"
    BY DEF Codes
  <2>3. Reservation \in 0..Reservation
    BY <1>5, <2>1
  <2> QED BY <1>5, <2>1, <2>2, <2>3, SettleKeepsAudit
<1>8. CASE CallExpires
  <2> PICK t \in Reading :
        \/ /\ ~call.global
           /\ Settle("provider_timeout", Reservation, ExpiredAt(t))
        \/ /\ call.global
           /\ results' = SkippedAfter(
                Append(results, Attempted("global_deadline_exhausted", Reservation, ExpiredAt(t))),
                "global_deadline_exhausted", ExpiredAt(t))
           /\ consumed' = consumed + Reservation
           /\ timedOut' = TRUE /\ phase' = "generated"
           /\ UNCHANGED <<run, reserved, history, status>>
    BY <1>8 DEF CallExpires
  <2>1. phase = "calling"
    BY <1>8 DEF CallExpires
  <2> PICK at \in Nat : at = ExpiredAt(t)
    BY <1>5, <2>1
  <2>2. call.before <= at /\ call.before + call.timeout <= at /\ Reservation \in 0..Reservation
    BY <1>5, <2>1
  <2>3. CASE ~call.global /\ Settle("provider_timeout", Reservation, at)
    <3>1. "provider_timeout" \in Codes \ {"insufficient_token_reservation",
                                          "global_deadline_exhausted"}
      BY DEF Codes
    <3> QED BY <2>1, <2>2, <2>3, <3>1, SettleKeepsAudit
  <2>4. CASE /\ call.global
             /\ results' = SkippedAfter(
                  Append(results, Attempted("global_deadline_exhausted", Reservation, at)),
                  "global_deadline_exhausted", at)
             /\ consumed' = consumed + Reservation
             /\ timedOut' = TRUE /\ phase' = "generated"
             /\ UNCHANGED <<run, reserved, history, status>>
    BY <2>1, <2>2, <2>4, GlobalExpiryKeeps
  <2> QED BY <2>3, <2>4
<1>9. CASE Finalize
  BY <1>9, FinalizeKeeps
<1>10. CASE UNCHANGED vars
  BY <1>10, StutterKeeps
<1> QED BY <1>1, <1>2, <1>3, <1>4, <1>6, <1>7, <1>8, <1>9, <1>10 DEF Next, Choose

LEMMA AuditInit == Init => AuditInv
<1> SUFFICES ASSUME Init PROVE AuditInv
  OBVIOUS
<1>1. /\ run \in Configurations /\ phase = "choosing" /\ elapsed = 0 /\ call = NoCall
      /\ results = <<>> /\ reserved = 0 /\ consumed = 0 /\ timedOut = FALSE
      /\ history = <<>> /\ status = "running"
  BY DEF Init
<1>2. run.operators \in Nat \ {0}
  BY <1>1, ConfigurationFacts
<1>3. results \in Seq(Result) /\ Len(results) = 0 /\ DOMAIN results = {}
  BY <1>1
<1>4. Books(reserved - Pending, consumed)
  <2> PICK f : f = [k \in 0..0 |-> 0]
    OBVIOUS
  <2>1. f \in [0..0 -> Nat] /\ f[0] = 0 /\ 1..0 = {}
    OBVIOUS
  <2>2. BookedWith(f, f)
    BY <1>3, <2>1 DEF BookedWith, Sums
  <2>3. reserved - Pending = 0
    BY <1>1 DEF Pending
  <2> QED BY <1>1, <1>3, <2>1, <2>2, <2>3 DEF Books
<1>5. TypeOK
  <2>1. call \in [before : Nat, timeout : Nat, global : BOOLEAN] /\ status \in Statuses
    BY <1>1 DEF NoCall, Statuses
  <2>2. Len(history) = 0 /\ Len(results) <= run.operators
    BY <1>1, <1>2, <1>3
  <2> QED BY <1>1, <1>3, <2>1, <2>2 DEF TypeOK
<1>6. Silent /\ (timedOut <=> \E i \in DOMAIN results : Exhausted(results[i]))
  BY <1>1, <1>3 DEF Silent
<1>7. LoopGoesOn
  <2>1. LeftAt(Len(results)) = 0 /\ Milliseconds(elapsed) = 0
    BY <1>1, <1>3, ConstantsAssumption DEF LeftAt, Milliseconds
  <2> QED BY <1>1, <1>2, <1>3, <2>1 DEF LoopGoesOn
<1>8. LoopOver /\ phase # "calling" /\ NeverRejected /\ AuditAccepts
  BY <1>1 DEF LoopOver, NeverRejected, AuditAccepts
<1> QED BY <1>4, <1>5, <1>6, <1>7, <1>8 DEF AuditInv

\* The books of the run are kept from the start and by every step.
THEOREM BooksKept == Spec => []AuditInv
<1>1. IInv /\ IInv' /\ AuditInv /\ [Next]_vars => AuditInv'
  BY AuditStep
<1> QED BY <1>1, AuditInit, Invariance, PTL DEF Spec

\* Every variable keeps its type (BoundedGenerationRunner.run's locals).
THEOREM BudgetTypeCorrect == Spec => []TypeOK
<1>1. AuditInv => TypeOK
  BY DEF AuditInv
<1> QED BY <1>1, BooksKept, PTL

\* No run dies in its third transaction: the results pass their own validation
\* (deadlines.py), the payloads' and the projector's (projectors/inspiration.py).
THEOREM RunsNeverRejected == Spec => []NeverRejected
<1>1. AuditInv => NeverRejected
  BY DEF AuditInv
<1> QED BY <1>1, BooksKept, PTL

\* Every recorded run passes the audit of its tokens, deadlines and counters but
\* for an operator skipped a millisecond late (validation.py,
\* _validate_normal_run_history).
THEOREM RecordedRunsPassAudit == Spec => []AuditAccepts
<1>1. AuditInv => AuditAccepts
  BY DEF AuditInv
<1> QED BY <1>1, BooksKept, PTL
=============================================================================
