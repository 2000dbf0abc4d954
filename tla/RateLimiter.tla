------------------------------ MODULE RateLimiter ------------------------------
(***************************************************************************)
(* SlidingWindowRateLimiter (crates/sunbolt-control/src/rate_limit.rs):    *)
(* one bucket of attempt times per key. check_and_record holds the lock    *)
(* from reading the clock to its answer, so it is one step of its callers; *)
(* the modules of the callers keep the buckets.                            *)
(***************************************************************************)
EXTENDS Integers, Sequences

CONSTANTS Window, MaxAttempts

ASSUME LimiterAssumption == Window \in Nat \ {0} /\ MaxAttempts \in Nat \ {0}

\* SlidingWindowRateLimiter::new: no key has made an attempt.
NewBuckets(Key) == [k \in Key |-> <<>>]

\* The while loop pops k attempts: those are stale, and the next one is not.
Popped(bucket, k, now) ==
    /\ \A i \in 1..k : bucket[i] <= now - Window
    /\ k < Len(bucket) => bucket[k + 1] > now - Window

\* A variant with a fault: the bucket may hold one attempt too many.
OutcomesOneTooMany(bucket, now) ==
    {LET kept == SubSeq(bucket, k + 1, Len(bucket)) IN
       IF Len(kept) > MaxAttempts THEN [allowed |-> FALSE, bucket |-> kept]
                                  ELSE [allowed |-> TRUE, bucket |-> Append(kept, now)]
     : k \in {n \in 0..Len(bucket) : Popped(bucket, n, now)}}

\* check_and_record: the only outcome it can have. A refused attempt is not recorded.
Outcomes(bucket, now) ==
    {LET kept == SubSeq(bucket, k + 1, Len(bucket)) IN
       IF Len(kept) >= MaxAttempts THEN [allowed |-> FALSE, bucket |-> kept]
                                   ELSE [allowed |-> TRUE, bucket |-> Append(kept, now)]
     : k \in {n \in 0..Len(bucket) : Popped(bucket, n, now)}}

\* What a limiter is for: at most MaxAttempts of these times in any window.
Spread(times) ==
    \A i \in DOMAIN times :
        i + MaxAttempts \in DOMAIN times => times[i + MaxAttempts] - times[i] >= Window
=============================================================================
