---------------------------- MODULE TokenBucket ----------------------------
(***************************************************************************)
(* What rate limiting promises, without integers that are refilled at the  *)
(* next request, times of last use, refused origins or windows: each key   *)
(* has a credit that grows evenly up to a minute's worth; a request is     *)
(* served if there is credit for it, which it takes, and refused if there  *)
(* is not.  Middleware implements it (module Middleware,                   *)
(* TokenBucketSpec).                                                       *)
(***************************************************************************)
EXTENDS Integers

CONSTANTS
    Keys,
    RequestsPerMinute,
    Minute              \* in ticks of the clock; the credit one request takes

VARIABLES
    credit,   \* for each key; a tick adds RequestsPerMinute, a minute Full
    verdict   \* the verdict that was given last, and to which key

tokenBucketVars == <<credit, verdict>>

Full == RequestsPerMinute * Minute
AllFull == [k \in Keys |-> Full]

NoVerdict == [status |-> "none"]
Verdict(k, status) == verdict' = [key |-> k, status |-> status]

TokenBucketInit == credit = AllFull /\ verdict = NoVerdict

\* A request pays its cost, and less than the cost of a request is lost with it.
Pay(k, cost) ==
    \E left \in 0 .. (credit[k] - cost) :
        /\ credit[k] - cost < left + Minute
        /\ credit' = [credit EXCEPT ![k] = left]

Grant(k) == credit[k] >= Minute /\ Pay(k, Minute) /\ Verdict(k, "served")

Deny(k) == credit[k] < Minute /\ Pay(k, 0) /\ Verdict(k, "limited")

\* A tick of the clock.
Elapse ==
    /\ credit' = [k \in Keys |-> IF credit[k] + RequestsPerMinute > Full
                                 THEN Full ELSE credit[k] + RequestsPerMinute]
    /\ verdict' = NoVerdict

\* The process starts anew.
Reset == credit' = AllFull /\ verdict' = NoVerdict

\* A request that does not come to the limiter, or the clock of an observer.
Pass == verdict' = NoVerdict /\ UNCHANGED credit

TokenBucketNext == (\E k \in Keys : Grant(k) \/ Deny(k)) \/ Elapse \/ Reset \/ Pass

TokenBucketSpec == TokenBucketInit /\ [][TokenBucketNext]_tokenBucketVars
=============================================================================
