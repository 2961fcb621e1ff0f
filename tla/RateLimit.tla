----------------------------- MODULE RateLimit -----------------------------
(***************************************************************************)
(* middleware.RateLimit: a bucket of tokens per key, the X-Token of the    *)
(* request or else its remote address.  One mutex is held from the lookup  *)
(* of the bucket to the taking of the token, so that a request is one      *)
(* step.                                                                   *)
(*                                                                         *)
(* A bucket remembers when it was used last; the model keeps how long ago  *)
(* that is, up to a minute, after which any bucket is full again.  A key   *)
(* that was never seen has a full bucket, like the one its first request   *)
(* makes.  Rounding of the float64 product is not modelled.                *)
(***************************************************************************)
EXTENDS Integers

CONSTANTS
    Keys,
    RequestsPerMinute,
    Minute,             \* length of a minute in ticks of the clock
    MaxWindow           \* bound on the length of a window that is observed

ASSUME RateAssumption ==
    /\ RequestsPerMinute \in Nat /\ Minute \in Nat \ {0} /\ MaxWindow \in Nat

VARIABLES
    bucket,   \* for each key its tokens and how long ago it was used
    answer,   \* the answer that was given last, and to which key
    quiet,    \* history: for each key how long ago a request came to RateLimit
    window,   \* history: length of the window of time that is observed
    served    \* history: for each key the requests served in the window

rateVars == <<bucket, answer, quiet, window, served>>

Bucket == [tokens : 0 .. RequestsPerMinute, idle : 0 .. Minute]

NoAnswer == [status |-> "none"]

RateTypeOK ==
    /\ bucket \in [Keys -> Bucket]
    /\ quiet \in [Keys -> 0 .. Minute]
    /\ window \in 0 .. MaxWindow
    /\ served \in [Keys -> Nat]

FullBuckets == [k \in Keys |-> [tokens |-> RequestsPerMinute, idle |-> 0]]

None == [k \in Keys |-> 0]

RateInit ==
    /\ bucket = FullBuckets
    /\ answer = NoAnswer
    /\ quiet = None /\ window = 0 /\ served = None

Capped(n, limit) == IF n > limit THEN limit ELSE n

\* What Refilled must not be: rounded up, by whole minutes, or without the cap.
RefilledRoundedUp(b) ==
    Capped(b.tokens + (b.idle * RequestsPerMinute + Minute - 1) \div Minute, RequestsPerMinute)

RefilledByMinutes(b) ==
    Capped(b.tokens + (b.idle \div Minute) * RequestsPerMinute, RequestsPerMinute)

RefilledUncapped(b) == b.tokens + (b.idle * RequestsPerMinute) \div Minute

\* int(elapsed.Minutes() * float64(requestsPerMinute)), which drops the fraction.
Refilled(b) ==
    Capped(b.tokens + (b.idle * RequestsPerMinute) \div Minute, RequestsPerMinute)

Answer(k, status) == answer' = [key |-> k, status |-> status]

Serve(k) ==
    /\ Refilled(bucket[k]) > 0
    /\ bucket' = [bucket EXCEPT ![k] = [tokens |-> Refilled(bucket[k]) - 1, idle |-> 0]]
    /\ served' = [served EXCEPT ![k] = @ + 1]
    /\ Answer(k, "served")
    /\ quiet' = [quiet EXCEPT ![k] = 0]
    /\ UNCHANGED window

\* 429.  The time since the last request is gone all the same.
Refuse(k) ==
    /\ Refilled(bucket[k]) <= 0
    /\ bucket' = [bucket EXCEPT ![k] = [tokens |-> Refilled(bucket[k]), idle |-> 0]]
    /\ Answer(k, "limited")
    /\ quiet' = [quiet EXCEPT ![k] = 0]
    /\ UNCHANGED <<window, served>>

Tick ==
    /\ window < MaxWindow
    /\ bucket' = [k \in Keys |-> [bucket[k] EXCEPT !.idle = Capped(@ + 1, Minute)]]
    /\ quiet' = [k \in Keys |-> Capped(quiet[k] + 1, Minute)]
    /\ window' = window + 1
    /\ answer' = NoAnswer
    /\ UNCHANGED served

\* The observer starts a window at any time.
Observe ==
    /\ window' = 0 /\ served' = None
    /\ answer' = NoAnswer
    /\ UNCHANGED <<bucket, quiet>>

\* The map of buckets dies with the process.
Restart ==
    /\ bucket' = FullBuckets
    /\ quiet' = None /\ window' = 0 /\ served' = None
    /\ answer' = NoAnswer

-----------------------------------------------------------------------------
Limited(k) == answer'.status = "limited" /\ answer'.key = k

\* In no window of time are more requests of a key served than a full bucket
\* and what the rate gives for the length of the window: up to twice the limit
\* in one minute, whatever the requests' times, refusals and rounding.
ServedInWindow ==
    \A k \in Keys : served[k] * Minute <= (Minute + window) * RequestsPerMinute

\* A client that paused for as long as one token takes is not refused, however
\* much it asked before, and whatever others do: with other keys, or (where
\* something in front of the limiter refuses them) with its own.
PatientIsServed ==
    [][\A k \in Keys :
         Limited(k) => quiet[k] * RequestsPerMinute < Minute]_rateVars

\* A request is refused only when as many as the limit were served in the minute
\* before it (what "1000 req/min per token" says): not so, as a client that asks
\* more often than tokens are made gets none.
RefusedOnlyAtLimit ==
    [][\A k \in Keys :
         Limited(k) /\ window = Minute => served[k] >= RequestsPerMinute]_rateVars
=============================================================================
