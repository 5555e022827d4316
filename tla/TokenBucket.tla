---------------------------- MODULE TokenBucket ----------------------------
(***************************************************************************)
(* The rate limiter of the API gateway: RateLimitMiddleware and            *)
(* RedisTokenBucket (internal/security/ratelimit.go).                      *)
(*                                                                         *)
(* A request reads the clock of its own process and then has Redis run a   *)
(* script, which is atomic, on the bucket of its client.  Requests of      *)
(* several processes overtake each other between the two, their clocks     *)
(* differ, and Redis removes a bucket by a clock of its own.               *)
(*                                                                         *)
(* Time goes by in ticks and a token is Unit parts, so that a tick refills *)
(* Gain parts: the fractions of the script are exact.  Requests that have  *)
(* no key, or meet a limiter that is switched off (no Redis, a capacity or *)
(* a rate that is not positive), pass by it and are left out.              *)
(***************************************************************************)
EXTENDS Integers

CONSTANTS
  Callers,      (* requests in progress at a time                          *)
  Keys,         (* clients the limiter tells apart                         *)
  Offset,       (* how far the clock each request reads is ahead of Redis's *)
  Capacity,     (* tokens of a full bucket                                 *)
  Unit,         (* parts of a token                                        *)
  Gain,         (* parts refilled in a tick                                *)
  Second,       (* ticks in a second                                       *)
  Faults,       (* which failures of Redis happen                          *)
  MaxClock,     (* bound on the time of Redis                              *)
  MaxForgiven   (* bound: beyond it no call starts, repeats or loses state *)

ASSUME TokenBucketAssumption ==
  /\ Offset \in [Callers -> Nat]
  /\ Capacity \in Nat \ {0}
  /\ Unit \in Nat \ {0}
  /\ Gain \in Nat \ {0}
  /\ Second \in Nat \ {0}
  /\ Faults \subseteq {"reply_lost", "unavailable", "evicted"}
  /\ MaxClock \in Nat
  /\ MaxForgiven \in Nat

Full == Capacity * Unit

(* Mutant: the seconds a bucket takes to fill, rounded down.               *)
TTLRoundedDown == Second * (Full \div (Gain * Second))

(* ttl: the seconds a bucket takes to fill, rounded down, plus one.        *)
TTL == Second * (Full \div (Gain * Second) + 1)

VARIABLES
  clock,    (* the time of Redis                                           *)
  bucket,   (* the hash of each key: tokens, last, and when it expires     *)
  pc,       (* where each request stands                                   *)
  key,      (* the client of each request                                  *)
  now,      (* the time it read                                            *)
  window    (* what an observer counts for each key: since the time of     *)
            (* some call, the tokens taken, the time refilled once more,   *)
            (* whether the bucket was full then, whether it is lost now    *)

request == <<pc, key, now>>
vars == <<clock, bucket, request, window>>

(* Redis drops an expired hash when it likes; a bucket counts as missing   *)
(* from its expiry on.                                                     *)
Alive(k) == clock < bucket[k].expires

Init ==
  /\ clock = 0
  /\ bucket = [k \in Keys |-> [tokens |-> 0, last |-> -TTL, expires |-> 0]]
  /\ pc = [c \in Callers |-> "idle"]
  /\ key \in [Callers -> Keys]
  /\ now = [c \in Callers |-> 0]
  /\ window = [k \in Keys |-> [since |-> -TTL, spent |-> 0, forgiven |-> 0,
                              full |-> FALSE, lost |-> FALSE]]

-----------------------------------------------------------------------------
(* The token bucket script.                                                *)

Smaller(a, b) == IF a < b THEN a ELSE b
Larger(a, b) == IF a < b THEN b ELSE a

(* Mutant: a call with an earlier time takes tokens away.                  *)
DeltaSigned(k, time) == IF Alive(k) THEN time - bucket[k].last ELSE 0

Delta(k, time) == IF Alive(k) THEN Larger(time - bucket[k].last, 0) ELSE 0

(* Mutant: a bucket fills without end.                                     *)
FilledWithoutLimit(k, time) ==
  IF Alive(k) THEN bucket[k].tokens + Delta(k, time) * Gain ELSE Full

Filled(k, time) ==
  IF Alive(k) THEN Smaller(bucket[k].tokens + Delta(k, time) * Gain, Full) ELSE Full

Allowed(k, time) == Filled(k, time) >= Unit

Taken(k, time) == IF Allowed(k, time) THEN 1 ELSE 0

(* The time that is refilled once more when the bucket's clock goes back,  *)
(* and when a bucket is taken for new before it could have filled.         *)
Forgiven(k, time) ==
  Larger((IF Alive(k) THEN bucket[k].last ELSE bucket[k].last + TTL) - time, 0)

Count(k, time, from) ==
  [since |-> from.since, spent |-> from.spent + Taken(k, time),
   forgiven |-> from.forgiven + Forgiven(k, time), full |-> from.full, lost |-> FALSE]

(* Mutant: a refused call moves the bucket's clock to the next refill.     *)
RunScriptBooking(k, time) ==
  /\ bucket' = [bucket EXCEPT ![k] = [tokens  |-> Filled(k, time) - Taken(k, time) * Unit,
                                      last    |-> time + 1 - Taken(k, time),
                                      expires |-> clock + TTL]]
  /\ window' = [window EXCEPT ![k] = Count(k, time, @)]

RunScript(k, time) ==
  /\ bucket' = [bucket EXCEPT ![k] = [tokens  |-> Filled(k, time) - Taken(k, time) * Unit,
                                      last    |-> time,
                                      expires |-> clock + TTL]]
  /\ \/ window' = [window EXCEPT ![k] = Count(k, time, @)]
     \/ window' = [window EXCEPT ![k] = [since |-> time, spent |-> Taken(k, time),
                                         forgiven |-> 0,
                                         full |-> Filled(k, time) = Full,
                                         lost |-> FALSE]]

-----------------------------------------------------------------------------
(* Allow reads the clock, for a request that has a key.                    *)
Allow(c, k) ==
  /\ pc[c] = "idle"
  /\ window[k].forgiven <= MaxForgiven
  /\ pc' = [pc EXCEPT ![c] = "script"]
  /\ key' = [key EXCEPT ![c] = k]
  /\ now' = [now EXCEPT ![c] = clock + Offset[c]]
  /\ UNCHANGED <<clock, bucket, window>>

End(c) ==
  /\ pc[c] = "script"
  /\ pc' = [pc EXCEPT ![c] = "idle"]
  /\ now' = [now EXCEPT ![c] = 0]
  /\ UNCHANGED <<clock, key>>

(* The request goes on to the next handler.                                *)
ServeNext(c) ==
  /\ Allowed(key[c], now[c])
  /\ RunScript(key[c], now[c])
  /\ End(c)

(* 429: the script still moves the bucket's clock and expiry.              *)
RateLimited(c) ==
  /\ ~Allowed(key[c], now[c])
  /\ RunScript(key[c], now[c])
  /\ End(c)

(* The script ran and its answer is lost: the client library runs it once  *)
(* more, with the same arguments, or gives up.                             *)
ReplyLost(c) ==
  /\ "reply_lost" \in Faults
  /\ pc[c] = "script"
  /\ window[key[c]].forgiven <= MaxForgiven
  /\ RunScript(key[c], now[c])
  /\ UNCHANGED <<clock, request>>

(* 503: the script did not run, or nobody knows.                           *)
RateLimiterUnavailable(c) ==
  /\ Faults # {}
  /\ End(c)
  /\ UNCHANGED <<bucket, window>>

(* Redis loses a bucket before its time: memory is short, or it restarts.  *)
Evict(k) ==
  /\ "evicted" \in Faults
  /\ window[k].forgiven <= MaxForgiven
  /\ Alive(k)
  /\ bucket' = [bucket EXCEPT ![k].expires = clock]
  /\ window' = [window EXCEPT ![k].lost = TRUE]
  /\ UNCHANGED <<clock, request>>

Tick ==
  /\ clock < MaxClock
  /\ clock' = clock + 1
  /\ UNCHANGED <<bucket, request, window>>

Step(c) ==
  \/ \E k \in Keys : Allow(c, k)
  \/ ServeNext(c)
  \/ RateLimited(c)
  \/ ReplyLost(c)
  \/ RateLimiterUnavailable(c)

Next ==
  \/ \E c \in Callers : Step(c)
  \/ \E k \in Keys : Evict(k)
  \/ Tick

Spec == Init /\ [][Next]_vars

-----------------------------------------------------------------------------
(* The types; no bucket holds more than its capacity.                      *)
TypeOK ==
  /\ clock \in Nat
  /\ bucket \in [Keys -> [tokens: 0..Full, last: Int, expires: Nat]]
  /\ pc \in [Callers -> {"idle", "script"}]
  /\ key \in [Callers -> Keys]
  /\ now \in [Callers -> Int]
  /\ window \in [Keys -> [since: Int, spent: Nat, forgiven: Nat, full: BOOLEAN,
                        lost: BOOLEAN]]

(* From any call on, a client is passed on at most once for each token of  *)
(* a full bucket, of the refill since, and of the time the limiter forgave *)
(* by going back in time or by losing the bucket: skewed clocks, overtaken *)
(* calls, expiry and repeated scripts give nothing beyond that.            *)
BudgetIsKept ==
  \A k \in Keys :
    window[k].spent * Unit
      <= Full + Gain * (bucket[k].last - window[k].since + window[k].forgiven)

(* A client that starts with a full bucket is refused only once it has     *)
(* used a whole one, whatever the clocks of the processes it reaches and   *)
(* however often a script is repeated.                                     *)
BurstIsGranted ==
  \A c \in Callers :
    (pc[c] = "script" /\ ~Allowed(key[c], now[c]) /\ window[key[c]].full)
      => window[key[c]].spent >= Capacity

(* Time is forgiven only to a call that was overtaken, by a process whose   *)
(* clock is ahead, or for a bucket that Redis lost: a call whose script     *)
(* runs at the moment it read the furthest clock is forgiven nothing.       *)
Prompt(c) ==
  /\ pc[c] = "script"
  /\ now[c] = clock + Offset[c]
  /\ \A d \in Callers : Offset[d] <= Offset[c]

PromptCallsForgiveNothing ==
  [][ \A c \in Callers :
        (Prompt(c) /\ ~window[key[c]].lost /\ bucket' # bucket /\ pc'[c] = "idle")
          => window'[key[c]].forgiven <= window[key[c]].forgiven ]_vars

=============================================================================
