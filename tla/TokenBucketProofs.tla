------------------------- MODULE TokenBucketProofs -------------------------
(***************************************************************************)
(* Proofs about TokenBucket, for any clocks, rates, capacities and         *)
(* failures: the types, the budget and the burst.                          *)
(***************************************************************************)
EXTENDS TokenBucket, TLAPS

(* Facts of arithmetic, apart because the provers need them apart. *)

LEMMA Distribute ==
  ASSUME NEW a \in Int, NEW b \in Int, NEW c \in Int
  PROVE  a * (b + c) = a * b + a * c
OBVIOUS

LEMMA Monotone ==
  ASSUME NEW a \in Nat, NEW b \in Int, NEW c \in Int, b <= c
  PROVE  a * b <= a * c
<1>1. c - b \in Nat
  OBVIOUS
<1>2. a * (c - b) >= 0
  BY <1>1
<1>3. a * c = a * (b + (c - b)) /\ a * (b + (c - b)) = a * b + a * (c - b)
  BY Distribute
<1> QED
  BY <1>2, <1>3

LEMMA Division ==
  ASSUME NEW a \in Nat, NEW b \in Nat \ {0}
  PROVE  a \div b \in Nat /\ a < b * (a \div b + 1)
OBVIOUS

-----------------------------------------------------------------------------
(* A bucket that is left alone until it expires would have filled.         *)

LEMMA FillsInTTL ==
  /\ Full \in Nat
  /\ Unit <= Full
  /\ TTL \in Nat
  /\ Full <= Gain * TTL
<1> USE TokenBucketAssumption
<1>1. Full \in Nat /\ Unit * 1 <= Unit * Capacity
  BY Monotone DEF Full
<1>2. Unit <= Full
  BY <1>1 DEF Full
<1> DEFINE rate == Gain * Second
           steps == Full \div rate + 1
<1>3. rate \in Nat \ {0}
  OBVIOUS
<1> HIDE DEF rate
<1>4. steps \in Nat /\ Full < rate * steps
  BY <1>1, <1>3, Division
<1> HIDE DEF steps
<1>5. TTL = Second * steps
  BY DEF TTL, steps, rate
<1>6. rate * steps = Gain * (Second * steps)
  BY <1>4 DEF rate
<1> QED
  BY <1>1, <1>2, <1>3, <1>4, <1>5, <1>6

(* What is true of a bucket and its window: tokens taken and left are      *)
(* within the budget, and from a full bucket on none is lost.              *)
Covered(b, w) ==
  w.spent * Unit + b.tokens <= Full + Gain * (b.last - w.since + w.forgiven)

Granted(b, w) == w.full => b.tokens + w.spent * Unit >= Full

Buckets == [tokens: 0..Full, last: Int, expires: Nat]
Windows == [since: Int, spent: Nat, forgiven: Nat, full: BOOLEAN, lost: BOOLEAN]

TokenInv ==
  /\ TypeOK
  /\ \A k \in Keys : Covered(bucket[k], window[k]) /\ Granted(bucket[k], window[k])

-----------------------------------------------------------------------------
(* What the script computes.                                               *)

LEMMA FilledBounds ==
  ASSUME TypeOK, NEW k \in Keys, NEW time \in Int
  PROVE  /\ Filled(k, time) \in 0..Full
         /\ Delta(k, time) \in Nat
         /\ Alive(k) => /\ Filled(k, time) <= bucket[k].tokens + Gain * Delta(k, time)
                        /\ bucket[k].tokens <= Filled(k, time)
         /\ ~Alive(k) => Filled(k, time) = Full
<1> USE TokenBucketAssumption, FillsInTTL
<1>1. bucket[k].tokens \in 0..Full /\ bucket[k].last \in Int
  BY DEF TypeOK
<1>2. Delta(k, time) \in Nat
  BY <1>1 DEF Delta, Larger
<1>3. /\ Delta(k, time) * Gain \in Nat
      /\ Delta(k, time) * Gain = Gain * Delta(k, time)
  BY <1>2
<1> QED
  BY <1>1, <1>2, <1>3 DEF Filled, Smaller

LEMMA TakenBounds ==
  ASSUME TypeOK, NEW k \in Keys, NEW time \in Int
  PROVE  /\ Taken(k, time) \in {0, 1}
         /\ Taken(k, time) * Unit \in Nat
         /\ Filled(k, time) - Taken(k, time) * Unit \in 0..Full
<1> USE TokenBucketAssumption, FillsInTTL
<1>1. Filled(k, time) \in 0..Full
  BY FilledBounds
<1>2. CASE Allowed(k, time)
  BY <1>1, <1>2 DEF Taken, Allowed
<1>3. CASE ~Allowed(k, time)
  BY <1>1, <1>3 DEF Taken, Allowed
<1> QED
  BY <1>2, <1>3

LEMMA ForgivenBounds ==
  ASSUME TypeOK, NEW k \in Keys, NEW time \in Int
  PROVE  /\ Forgiven(k, time) \in Nat
         /\ Alive(k) => bucket[k].last + Delta(k, time) = time + Forgiven(k, time)
         /\ ~Alive(k) => bucket[k].last + TTL <= time + Forgiven(k, time)
<1> USE TokenBucketAssumption, FillsInTTL
<1>1. bucket[k].last \in Int
  BY DEF TypeOK
<1> QED
  BY <1>1 DEF Forgiven, Delta, Larger

-----------------------------------------------------------------------------
(* The script keeps the budget of its bucket, whether the observer goes on *)
(* counting or starts at this call.                                        *)

After(k, time) ==
  [tokens  |-> Filled(k, time) - Taken(k, time) * Unit,
   last    |-> time,
   expires |-> clock + TTL]

Restarted(k, time) ==
  [since |-> time, spent |-> Taken(k, time), forgiven |-> 0,
   full |-> Filled(k, time) = Full, lost |-> FALSE]

LEMMA CountKeepsBudget ==
  ASSUME TypeOK, NEW k \in Keys, NEW time \in Int,
         Covered(bucket[k], window[k]), Granted(bucket[k], window[k])
  PROVE  /\ Covered(After(k, time), Count(k, time, window[k]))
         /\ Granted(After(k, time), Count(k, time, window[k]))
<1> USE TokenBucketAssumption, FillsInTTL
<1> DEFINE w == window[k]
           b == bucket[k]
           taken == Taken(k, time)
           more == Forgiven(k, time)
           full == Filled(k, time)
           delta == Delta(k, time)
<1>1. /\ w \in Windows
      /\ b \in Buckets
  BY DEF TypeOK, Windows, Buckets
<1>2. /\ taken \in {0, 1}
      /\ taken * Unit \in Nat
      /\ full \in 0..Full
      /\ delta \in Nat
      /\ more \in Nat
  BY TakenBounds, FilledBounds, ForgivenBounds
<1>3. /\ Count(k, time, w).spent = w.spent + taken
      /\ Count(k, time, w).forgiven = w.forgiven + more
      /\ Count(k, time, w).since = w.since
      /\ Count(k, time, w).full = w.full
  BY <1>1 DEF Count, Windows
<1>4. /\ After(k, time).tokens = full - taken * Unit
      /\ After(k, time).last = time
  BY DEF After
<1>5. /\ Alive(k) => /\ full <= b.tokens + Gain * delta
                     /\ b.tokens <= full
                     /\ b.last + delta = time + more
      /\ ~Alive(k) => full = Full /\ b.last + TTL <= time + more
  BY FilledBounds, ForgivenBounds
<1>6. /\ w.spent * Unit + b.tokens <= Full + Gain * (b.last - w.since + w.forgiven)
      /\ w.full => b.tokens + w.spent * Unit >= Full
  BY DEF Covered, Granted
<1> HIDE DEF w, b, taken, more, full, delta
<1>7. (w.spent + taken) * Unit = w.spent * Unit + taken * Unit
  BY <1>1, <1>2 DEF Windows
<1>8. w.spent * Unit \in Nat
  BY <1>1 DEF Windows
<1>9. w.spent * Unit + full <= Full + Gain * (time - w.since + (w.forgiven + more))
  <2> DEFINE before == b.last - w.since + w.forgiven
  <2>1. before \in Int /\ Gain * before \in Int
    BY <1>1 DEF Windows, Buckets
  <2>2. CASE Alive(k)
    <3>1. time - w.since + (w.forgiven + more) = before + delta
      BY <1>1, <1>2, <1>5, <2>2 DEF Windows, Buckets
    <3>2. Gain * (before + delta) = Gain * before + Gain * delta
      BY <1>2, <2>1, Distribute
    <3>3. Gain * delta \in Nat /\ b.tokens \in Nat
      BY <1>1, <1>2 DEF Buckets
    <3> HIDE DEF before
    <3>4. w.spent * Unit + b.tokens <= Full + Gain * before
      BY <1>6 DEF before
    <3> QED
      BY <1>2, <1>5, <1>8, <2>1, <2>2, <3>1, <3>2, <3>3, <3>4
  <2>3. CASE ~Alive(k)
    <3>1. before + TTL <= time - w.since + (w.forgiven + more)
      BY <1>1, <1>2, <1>5, <2>3 DEF Windows, Buckets
    <3>2. Gain * (before + TTL) = Gain * before + Gain * TTL
      BY <2>1, Distribute
    <3>3. Gain * (before + TTL) <= Gain * (time - w.since + (w.forgiven + more))
      BY <1>1, <1>2, <2>1, <3>1, Monotone DEF Windows
    <3>4. Gain * (time - w.since + (w.forgiven + more)) \in Int /\ Gain * TTL \in Int
      BY <1>1, <1>2 DEF Windows
    <3>5. b.tokens >= 0
      BY <1>1 DEF Buckets
    <3> HIDE DEF before
    <3>6. w.spent * Unit + b.tokens <= Full + Gain * before
      BY <1>6 DEF before
    <3> QED
      BY <1>1, <1>2, <1>5, <1>8, <2>1, <2>3, <3>2, <3>3, <3>4, <3>5, <3>6 DEF Buckets
  <2> QED
    BY <2>2, <2>3
<1>10. Covered(After(k, time), Count(k, time, w))
  BY <1>1, <1>2, <1>3, <1>4, <1>7, <1>8, <1>9 DEF Covered
<1>11. Granted(After(k, time), Count(k, time, w))
  <2>1. SUFFICES ASSUME w.full
                 PROVE  full - taken * Unit + (w.spent + taken) * Unit >= Full
    BY <1>3, <1>4 DEF Granted
  <2>2. full + w.spent * Unit >= Full
    BY <1>1, <1>2, <1>5, <1>6, <1>8, <2>1 DEF Buckets
  <2> QED
    BY <1>2, <1>7, <1>8, <2>2
<1> QED
  BY <1>10, <1>11 DEF w

LEMMA RestartKeepsBudget ==
  ASSUME TypeOK, NEW k \in Keys, NEW time \in Int
  PROVE  /\ Covered(After(k, time), Restarted(k, time))
         /\ Granted(After(k, time), Restarted(k, time))
<1> USE TokenBucketAssumption, FillsInTTL
<1>1. /\ Taken(k, time) \in {0, 1}
      /\ Taken(k, time) * Unit \in Nat
      /\ Filled(k, time) \in 0..Full
  BY TakenBounds, FilledBounds
<1>2. time - time + 0 = 0 /\ Gain * 0 = 0
  OBVIOUS
<1>3. Taken(k, time) * Unit + (Filled(k, time) - Taken(k, time) * Unit) = Filled(k, time)
  BY <1>1
<1>4. Covered(After(k, time), Restarted(k, time))
  BY <1>1, <1>2, <1>3 DEF Covered, After, Restarted
<1>5. Granted(After(k, time), Restarted(k, time))
  <2>1. Restarted(k, time).full = (Filled(k, time) = Full)
    BY DEF Restarted
  <2>2. SUFFICES ASSUME Filled(k, time) = Full
                 PROVE  After(k, time).tokens + Restarted(k, time).spent * Unit >= Full
    BY <2>1 DEF Granted
  <2> QED
    BY <1>1, <1>3, <2>2 DEF After, Restarted
<1> QED
  BY <1>4, <1>5

LEMMA ScriptKeepsInv ==
  ASSUME TokenInv, NEW k \in Keys, NEW time \in Int, RunScript(k, time)
  PROVE  /\ bucket' \in [Keys -> Buckets]
         /\ window' \in [Keys -> Windows]
         /\ \A j \in Keys : Covered(bucket'[j], window'[j]) /\ Granted(bucket'[j], window'[j])
<1> USE TokenBucketAssumption, FillsInTTL
<1>1. /\ TypeOK
      /\ bucket \in [Keys -> Buckets]
      /\ window \in [Keys -> Windows]
      /\ clock \in Nat
      /\ \A j \in Keys : Covered(bucket[j], window[j]) /\ Granted(bucket[j], window[j])
  BY DEF TokenInv, TypeOK, Buckets, Windows
<1>2. /\ Taken(k, time) \in {0, 1}
      /\ Filled(k, time) - Taken(k, time) * Unit \in 0..Full
      /\ Forgiven(k, time) \in Nat
  BY <1>1, TakenBounds, ForgivenBounds
<1>3. bucket' = [bucket EXCEPT ![k] = After(k, time)] /\ After(k, time) \in Buckets
  BY <1>1, <1>2 DEF RunScript, After, Buckets
<1>4. Count(k, time, window[k]) \in Windows /\ Restarted(k, time) \in Windows
  <2>1. window[k] \in Windows
    BY <1>1
  <2> QED
    BY <1>2, <2>1 DEF Count, Restarted, Windows
<1>5. \E w \in {Count(k, time, window[k]), Restarted(k, time)} :
        /\ window' = [window EXCEPT ![k] = w]
        /\ Covered(After(k, time), w)
        /\ Granted(After(k, time), w)
  BY <1>1, CountKeepsBudget, RestartKeepsBudget DEF RunScript, Restarted
<1> QED
  BY <1>1, <1>3, <1>4, <1>5

-----------------------------------------------------------------------------
(* The invariant: what every step does to the buckets is a script, a loss  *)
(* of a bucket, or nothing.                                                *)

LEMMA InitInv == Init => TokenInv
<1> SUFFICES ASSUME Init PROVE TokenInv
  OBVIOUS
<1> USE TokenBucketAssumption, FillsInTTL
<1>1. TypeOK
  <2>1. -TTL \in Int /\ 0 \in 0..Full /\ clock = 0
    BY DEF Init
  <2>2. bucket \in [Keys -> [tokens: 0..Full, last: Int, expires: Nat]]
    BY <2>1 DEF Init
  <2>3. window \in [Keys -> [since: Int, spent: Nat, forgiven: Nat, full: BOOLEAN, lost: BOOLEAN]]
    BY <2>1 DEF Init
  <2> QED
    BY <2>1, <2>2, <2>3 DEF Init, TypeOK
<1>2. ASSUME NEW k \in Keys
      PROVE  Covered(bucket[k], window[k]) /\ Granted(bucket[k], window[k])
  <2>1. -TTL - (-TTL) + 0 = 0 /\ Gain * 0 = 0 /\ 0 * Unit = 0
    OBVIOUS
  <2>2. bucket[k].tokens = 0 /\ bucket[k].last = -TTL
    BY DEF Init
  <2>3. window[k].spent = 0 /\ window[k].since = -TTL /\ window[k].forgiven = 0
    BY DEF Init
  <2>4. window[k].full = FALSE
    BY DEF Init
  <2> QED
    BY <2>1, <2>2, <2>3, <2>4 DEF Covered, Granted
<1> QED
  BY <1>1, <1>2 DEF TokenInv

LEMMA EvictKeepsInv ==
  ASSUME TokenInv, NEW k \in Keys, Evict(k)
  PROVE  /\ bucket' \in [Keys -> Buckets]
         /\ window' \in [Keys -> Windows]
         /\ \A j \in Keys : Covered(bucket'[j], window'[j]) /\ Granted(bucket'[j], window'[j])
<1>1. /\ bucket \in [Keys -> Buckets]
      /\ window \in [Keys -> Windows]
      /\ clock \in Nat
  BY DEF TokenInv, TypeOK, Buckets, Windows
<1>2. bucket' \in [Keys -> Buckets] /\ window' \in [Keys -> Windows]
  BY <1>1 DEF Evict, Buckets, Windows
<1>3. ASSUME NEW j \in Keys
      PROVE  Covered(bucket'[j], window'[j]) /\ Granted(bucket'[j], window'[j])
  <2>1. /\ bucket'[j].tokens = bucket[j].tokens
        /\ bucket'[j].last = bucket[j].last
        /\ window'[j].spent = window[j].spent
        /\ window'[j].since = window[j].since
        /\ window'[j].forgiven = window[j].forgiven
        /\ window'[j].full = window[j].full
    BY <1>1 DEF Evict, Buckets, Windows
  <2> QED
    BY <2>1 DEF TokenInv, Covered, Granted
<1> QED
  BY <1>2, <1>3

LEMMA NextInv == TokenInv /\ [Next]_vars => TokenInv'
<1> SUFFICES ASSUME TokenInv, [Next]_vars PROVE TokenInv'
  OBVIOUS
<1> USE TokenBucketAssumption, FillsInTTL
<1>1. /\ clock \in Nat
      /\ pc \in [Callers -> {"idle", "script"}]
      /\ key \in [Callers -> Keys]
      /\ now \in [Callers -> Int]
      /\ bucket \in [Keys -> Buckets]
      /\ window \in [Keys -> Windows]
      /\ \A k \in Keys : Covered(bucket[k], window[k]) /\ Granted(bucket[k], window[k])
  BY DEF TokenInv, TypeOK, Buckets, Windows
<1> DEFINE Requests == /\ clock' \in Nat
                       /\ pc' \in [Callers -> {"idle", "script"}]
                       /\ key' \in [Callers -> Keys]
                       /\ now' \in [Callers -> Int]
           State == /\ bucket' \in [Keys -> Buckets]
                    /\ window' \in [Keys -> Windows]
                    /\ \A j \in Keys : /\ Covered(bucket'[j], window'[j])
                                       /\ Granted(bucket'[j], window'[j])
<1>2. SUFFICES Requests /\ State
  BY DEF TokenInv, TypeOK, Buckets, Windows
<1>3. ASSUME UNCHANGED <<bucket, window>> PROVE State
  BY <1>1, <1>3
<1>4. ASSUME NEW c \in Callers, RunScript(key[c], now[c]) PROVE State
  BY <1>1, <1>4, ScriptKeepsInv
<1>5. ASSUME NEW c \in Callers, NEW k \in Keys, Allow(c, k) PROVE Requests /\ State
  BY <1>1, <1>3, <1>5 DEF Allow
<1>6. ASSUME NEW c \in Callers, End(c) PROVE Requests
  BY <1>1, <1>6 DEF End
<1>7. ASSUME NEW c \in Callers, Step(c) PROVE Requests /\ State
  <2>1. CASE \E k \in Keys : Allow(c, k)
    BY <1>5, <2>1
  <2>2. CASE ServeNext(c)
    BY <1>4, <1>6, <2>2 DEF ServeNext
  <2>3. CASE RateLimited(c)
    BY <1>4, <1>6, <2>3 DEF RateLimited
  <2>4. CASE ReplyLost(c)
    BY <1>1, <1>4, <2>4 DEF ReplyLost, request
  <2>5. CASE RateLimiterUnavailable(c)
    BY <1>3, <1>6, <2>5 DEF RateLimiterUnavailable
  <2> QED
    BY <1>7, <2>1, <2>2, <2>3, <2>4, <2>5 DEF Step
<1>8. ASSUME NEW k \in Keys, Evict(k) PROVE Requests /\ State
  <2>1. State
    BY <1>8, EvictKeepsInv
  <2> QED
    BY <1>1, <1>8, <2>1 DEF Evict, request
<1>9. CASE Tick
  BY <1>1, <1>3, <1>9 DEF Tick, request
<1>10. CASE UNCHANGED vars
  BY <1>1, <1>3, <1>10 DEF vars, request
<1> QED
  BY <1>7, <1>8, <1>9, <1>10 DEF Next

LEMMA Invariant == Spec => []TokenInv
BY InitInv, NextInv, PTL DEF Spec

(* Every bucket holds between nothing and its capacity, for any clocks.    *)
THEOREM TypeCorrect == Spec => []TypeOK
<1>1. TokenInv => TypeOK
  BY DEF TokenInv
<1> QED
  BY <1>1, Invariant, PTL

(* No client is ever passed on beyond its budget: a full bucket, what is   *)
(* refilled since, and the time that was forgiven.                         *)
THEOREM BudgetKept == Spec => []BudgetIsKept
<1>1. TokenInv => BudgetIsKept
  <2> SUFFICES ASSUME TokenInv, NEW k \in Keys
               PROVE  window[k].spent * Unit
                        <= Full + Gain * (bucket[k].last - window[k].since + window[k].forgiven)
    BY DEF BudgetIsKept
  <2> USE TokenBucketAssumption, FillsInTTL
  <2>1. /\ window[k] \in Windows
        /\ bucket[k] \in Buckets
        /\ Covered(bucket[k], window[k])
    BY DEF TokenInv, TypeOK, Windows, Buckets
  <2>2. /\ window[k].spent * Unit \in Nat
        /\ bucket[k].tokens >= 0
        /\ Gain * (bucket[k].last - window[k].since + window[k].forgiven) \in Int
    BY <2>1 DEF Windows, Buckets
  <2> QED
    BY <2>1, <2>2 DEF Covered, Buckets
<1> QED
  BY <1>1, Invariant, PTL

(* No client that starts with a full bucket is refused before it has used  *)
(* all of it.                                                              *)
THEOREM BurstGranted == Spec => []BurstIsGranted
<1>1. TokenInv => BurstIsGranted
  <2> SUFFICES ASSUME TokenInv, NEW c \in Callers, pc[c] = "script",
                      ~Allowed(key[c], now[c]), window[key[c]].full
               PROVE  window[key[c]].spent >= Capacity
    BY DEF BurstIsGranted
  <2> USE TokenBucketAssumption, FillsInTTL
  <2> DEFINE k == key[c]
             spent == window[key[c]].spent
             tokens == bucket[key[c]].tokens
  <2>1. /\ k \in Keys
        /\ now[c] \in Int
        /\ spent \in Nat
        /\ tokens \in Nat
        /\ TypeOK
    BY DEF TokenInv, TypeOK
  <2>2. Filled(k, now[c]) < Unit /\ Filled(k, now[c]) \in Nat
    BY <2>1, FilledBounds DEF Allowed
  <2>3. tokens < Unit
    BY <2>1, <2>2, FilledBounds
  <2>4. tokens + spent * Unit >= Full
    BY <2>1 DEF TokenInv, Granted
  <2> HIDE DEF k, spent, tokens
  <2>5. SUFFICES ASSUME spent <= Capacity - 1 PROVE FALSE
    BY <2>1 DEF spent
  <2>6. Unit * spent <= Unit * (Capacity - 1)
    BY <2>1, <2>5, Monotone
  <2>7. Unit * (Capacity - 1) = Full - Unit
    BY DEF Full
  <2>8. spent * Unit = Unit * spent /\ Unit * spent \in Nat
    BY <2>1
  <2> QED
    BY <2>1, <2>3, <2>4, <2>6, <2>7, <2>8
<1> QED
  BY <1>1, Invariant, PTL

-----------------------------------------------------------------------------
(* Forgiveness.                                                            *)

(* Nobody's clock is further ahead.                                        *)
Furthest(c) == \A d \in Callers : Offset[d] <= Offset[c]

(* No call has read a time to come, by the furthest clock; no bucket is    *)
(* from such a time; and one that was not lost lives for TTL from its own. *)
Dated ==
  /\ \A d \in Callers : now[d] <= clock + Offset[d]
  /\ \A c \in Callers, k \in Keys : Furthest(c) =>
       /\ bucket[k].last <= clock + Offset[c]
       /\ ~window[k].lost => bucket[k].last + TTL <= bucket[k].expires + Offset[c]

(* What the script does to the bucket of its client.                       *)
LEMMA ScriptDates ==
  ASSUME TypeOK, Dated, NEW d \in Callers, RunScript(key[d], now[d]), clock' = clock,
         NEW c \in Callers, NEW k \in Keys, Furthest(c)
  PROVE  /\ bucket'[k].last <= clock + Offset[c]
         /\ ~window'[k].lost => bucket'[k].last + TTL <= bucket'[k].expires + Offset[c]
<1> USE TokenBucketAssumption, FillsInTTL
<1>1. /\ bucket \in [Keys -> Buckets] /\ window \in [Keys -> Windows]
      /\ clock \in Nat /\ now[d] \in Int /\ key[d] \in Keys
  BY DEF TypeOK, Buckets, Windows
<1>2. CASE k # key[d]
  <2>1. bucket'[k] = bucket[k] /\ window'[k] = window[k]
    BY <1>1, <1>2 DEF RunScript
  <2> QED
    BY <2>1 DEF Dated
<1>3. CASE k = key[d]
  <2>1. bucket'[k].last = now[d] /\ bucket'[k].expires = clock + TTL
    BY <1>1, <1>3 DEF RunScript
  <2>2. now[d] <= clock + Offset[d] /\ Offset[d] <= Offset[c] /\ Offset[d] \in Nat /\ Offset[c] \in Nat
    BY DEF Dated, Furthest
  <2> QED
    BY <1>1, <2>1, <2>2
<1> QED
  BY <1>2, <1>3

LEMMA DatedStep == TypeOK /\ Dated /\ [Next]_vars => Dated'
<1> SUFFICES ASSUME TypeOK, Dated, [Next]_vars
             PROVE  Dated'
  OBVIOUS
<1> USE TokenBucketAssumption, FillsInTTL
<1>1. /\ clock \in Nat /\ now \in [Callers -> Int]
      /\ bucket \in [Keys -> Buckets] /\ window \in [Keys -> Windows]
      /\ \A c \in Callers : Offset[c] \in Nat
  BY DEF TypeOK, Buckets, Windows
<1>2. ASSUME UNCHANGED <<clock, bucket, window>>, \A d \in Callers : now'[d] <= clock + Offset[d]
      PROVE  Dated'
  BY <1>2 DEF Dated, Furthest
<1>3. ASSUME NEW d \in Callers, RunScript(key[d], now[d]), clock' = clock,
             \A b \in Callers : now'[b] <= clock + Offset[b]
      PROVE  Dated'
  BY <1>3, ScriptDates DEF Dated, Furthest
<1>4. ASSUME NEW c \in Callers, End(c)
      PROVE  clock' = clock /\ \A d \in Callers : now'[d] <= clock + Offset[d]
  BY <1>1, <1>4 DEF End, Dated
<1>5. ASSUME NEW c \in Callers, Step(c)
      PROVE  Dated'
  <2>1. CASE \E k \in Keys : Allow(c, k)
    BY <1>1, <1>2, <2>1 DEF Allow, Dated
  <2>2. CASE ServeNext(c) \/ RateLimited(c)
    BY <1>3, <1>4, <2>2 DEF ServeNext, RateLimited
  <2>3. CASE ReplyLost(c)
    BY <1>3, <2>3 DEF ReplyLost, request, Dated
  <2>4. CASE RateLimiterUnavailable(c)
    BY <1>2, <1>4, <2>4 DEF RateLimiterUnavailable
  <2> QED
    BY <1>5, <2>1, <2>2, <2>3, <2>4 DEF Step
<1>6. ASSUME NEW k \in Keys, Evict(k)
      PROVE  Dated'
  <2>1. UNCHANGED <<clock, now>>
    BY <1>6 DEF Evict, request
  <2>2. ASSUME NEW j \in Keys
        PROVE  /\ bucket'[j].last = bucket[j].last
               /\ ~window'[j].lost => ~window[j].lost /\ bucket'[j].expires = bucket[j].expires
    BY <1>1, <1>6 DEF Evict, Buckets, Windows
  <2> QED
    BY <2>1, <2>2 DEF Dated, Furthest
<1>7. CASE Tick
  <2>1. clock' = clock + 1 /\ UNCHANGED <<bucket, now, window>>
    BY <1>7 DEF Tick, request
  <2>2. \A k \in Keys : bucket[k].last \in Int
    BY <1>1 DEF Buckets
  <2>3. \A d \in Callers : now[d] \in Int /\ Offset[d] \in Nat
    BY <1>1
  <2>4. \A d \in Callers : now[d] <= clock' + Offset[d]
    BY <1>1, <2>1, <2>3 DEF Dated
  <2>5. \A c \in Callers, k \in Keys : Furthest(c) => bucket[k].last <= clock' + Offset[c]
    BY <1>1, <2>1, <2>2, <2>3 DEF Dated
  <2> QED
    BY <2>1, <2>4, <2>5 DEF Dated, Furthest
<1>8. CASE UNCHANGED vars
  BY <1>2, <1>8 DEF vars, request, Dated
<1> QED
  BY <1>5, <1>6, <1>7, <1>8 DEF Next

(* A prompt call of the furthest clock is forgiven nothing.                *)
LEMMA NothingForgiven ==
  ASSUME TypeOK, Dated, NEW c \in Callers, Prompt(c), ~window[key[c]].lost
  PROVE  Forgiven(key[c], now[c]) = 0
<1> USE TokenBucketAssumption, FillsInTTL
<1> DEFINE b == bucket[key[c]]
<1>1. /\ key[c] \in Keys /\ b \in Buckets /\ clock \in Nat /\ Offset[c] \in Nat
      /\ now[c] = clock + Offset[c] /\ Furthest(c)
  BY DEF TypeOK, Buckets, Prompt, Furthest
<1>2. b.last \in Int /\ b.expires \in Nat
  BY <1>1 DEF Buckets
<1>3. b.last <= clock + Offset[c] /\ b.last + TTL <= b.expires + Offset[c]
  BY <1>1 DEF Dated
<1>4. ~Alive(key[c]) => b.expires <= clock
  BY <1>1, <1>2 DEF Alive
<1> QED
  BY <1>1, <1>2, <1>3, <1>4 DEF Forgiven, Larger

LEMMA PromptStep ==
  ASSUME TypeOK, Dated, [Next]_vars, NEW c \in Callers,
         Prompt(c), ~window[key[c]].lost, bucket' # bucket, pc'[c] = "idle"
  PROVE  window'[key[c]].forgiven <= window[key[c]].forgiven
<1>1. pc[c] = "script" /\ key[c] \in Keys /\ window \in [Keys -> Windows]
  BY DEF Prompt, TypeOK, Windows
<1>2. RunScript(key[c], now[c])
  <2>1. ASSUME NEW d \in Callers, Step(d)
        PROVE  RunScript(key[c], now[c])
    <3>1. CASE ServeNext(d) \/ RateLimited(d)
      <4>1. RunScript(key[d], now[d]) /\ End(d)
        BY <3>1 DEF ServeNext, RateLimited
      <4>2. d = c
        BY <1>1, <4>1 DEF End, TypeOK
      <4> QED
        BY <4>1, <4>2
    <3>2. CASE (\E k \in Keys : Allow(d, k)) \/ ReplyLost(d) \/ RateLimiterUnavailable(d)
      BY <1>1, <3>2 DEF Allow, ReplyLost, RateLimiterUnavailable, request
    <3> QED
      BY <2>1, <3>1, <3>2 DEF Step
  <2>2. ASSUME NEW k \in Keys, Evict(k)
        PROVE  FALSE
    BY <1>1, <2>2 DEF Evict, request
  <2>3. CASE Tick \/ UNCHANGED vars
    BY <2>3 DEF Tick, vars
  <2> QED
    BY <2>1, <2>2, <2>3 DEF Next
<1>3. Forgiven(key[c], now[c]) = 0
  BY NothingForgiven
<1>4. window[key[c]].forgiven \in Nat
  BY <1>1 DEF Windows
<1>5. CASE window' = [window EXCEPT ![key[c]] = Count(key[c], now[c], @)]
  <2>1. window'[key[c]] = Count(key[c], now[c], window[key[c]])
    BY <1>1, <1>5
  <2>2. window'[key[c]].forgiven = window[key[c]].forgiven + Forgiven(key[c], now[c])
    BY <2>1 DEF Count
  <2> QED
    BY <1>3, <1>4, <2>2
<1>6. CASE window' = [window EXCEPT ![key[c]] = Restarted(key[c], now[c])]
  <2>1. window'[key[c]].forgiven = 0
    BY <1>1, <1>6 DEF Restarted
  <2> QED
    BY <1>4, <2>1
<1> QED
  BY <1>2, <1>5, <1>6 DEF RunScript, Restarted

(* A call whose script runs at the moment it read the furthest clock is    *)
(* forgiven nothing, unless Redis lost the bucket.                         *)
THEOREM PromptUnforgiven == Spec => PromptCallsForgiveNothing
<1>1. Init => Dated
  <2> SUFFICES ASSUME Init
               PROVE  Dated
    OBVIOUS
  <2> USE TokenBucketAssumption, FillsInTTL
  <2>1. \A d \in Callers : now[d] = 0 /\ Offset[d] \in Nat
    BY DEF Init
  <2>2. \A k \in Keys : bucket[k].last = -TTL /\ bucket[k].expires = 0
    BY DEF Init
  <2> QED
    BY <2>1, <2>2 DEF Init, Dated
<1>2. TypeOK /\ Dated /\ [Next]_vars =>
        [\A c \in Callers :
           (Prompt(c) /\ ~window[key[c]].lost /\ bucket' # bucket /\ pc'[c] = "idle")
             => window'[key[c]].forgiven <= window[key[c]].forgiven]_vars
  BY PromptStep
<1> QED
  BY <1>1, <1>2, DatedStep, TypeCorrect, PTL DEF Spec, PromptCallsForgiveNothing

=============================================================================
