-------------------------- MODULE MiddlewareProofs --------------------------
(***************************************************************************)
(* Theorems of Middleware: the rate limiter, the abstract bucket that it   *)
(* implements, and the origins of a token.                                 *)
(***************************************************************************)
EXTENDS Middleware, SequenceTheorems, TLAPS

-----------------------------------------------------------------------------
(* The refill.                                                              *)

LEMMA Quotient ==
    ASSUME NEW a \in Nat, NEW m \in Nat \ {0}
    PROVE  /\ a \div m \in Nat
           /\ (a \div m) * m <= a
           /\ a < (a \div m) * m + m
OBVIOUS

LEMMA RefillBounds ==
    ASSUME NEW b \in Bucket
    PROVE  /\ Refilled(b) \in 0 .. RequestsPerMinute
           /\ Refilled(b) * Minute <= Content(b)
           /\ Content(b) < Refilled(b) * Minute + Minute
           /\ Refilled(b) <= 0 => b.idle * RequestsPerMinute < Minute
<1> DEFINE a == b.idle * RequestsPerMinute
           q == a \div Minute
<1>1. /\ RequestsPerMinute \in Nat /\ Minute \in Nat \ {0}
      /\ b.tokens \in 0 .. RequestsPerMinute /\ b.idle \in 0 .. Minute
  BY RateAssumption DEF Bucket
<1>2. a \in Nat
  BY <1>1
<1>3. q \in Nat /\ q * Minute <= a /\ a < q * Minute + Minute
  BY <1>1, <1>2, Quotient
<1>4. Refilled(b) = Capped(b.tokens + q, RequestsPerMinute)
  BY DEF Refilled
<1>5. Content(b) = Capped(b.tokens * Minute + a, RequestsPerMinute * Minute)
  BY DEF Content
<1> HIDE DEF q
<1>6. CASE b.tokens + q > RequestsPerMinute
  <2>1. Refilled(b) = RequestsPerMinute
    BY <1>4, <1>6 DEF Capped
  <2>2. RequestsPerMinute * Minute <= (b.tokens + q) * Minute
    BY <1>1, <1>3, <1>6
  <2>3. (b.tokens + q) * Minute <= b.tokens * Minute + a
    BY <1>1, <1>2, <1>3
  <2>4. RequestsPerMinute * Minute <= Content(b)
    BY <1>1, <1>2, <1>3, <1>5, <2>2, <2>3 DEF Capped
  <2>5. RequestsPerMinute = 0 => a = 0
    BY <1>1
  <2>6. RequestsPerMinute * Minute \in Nat /\ b.tokens * Minute \in Nat
    BY <1>1
  <2>7. Content(b) <= RequestsPerMinute * Minute /\ Content(b) \in Nat
    BY <1>2, <1>5, <2>6 DEF Capped
  <2>8. Content(b) < RequestsPerMinute * Minute + Minute
    BY <1>1, <2>6, <2>7
  <2> QED
    BY <1>1, <1>2, <2>1, <2>4, <2>5, <2>8
<1>7. CASE ~ (b.tokens + q > RequestsPerMinute)
  <2>1. Refilled(b) = b.tokens + q
    BY <1>4, <1>7 DEF Capped
  <2>2. (b.tokens + q) * Minute <= b.tokens * Minute + a
    BY <1>1, <1>2, <1>3
  <2>3. (b.tokens + q) * Minute <= RequestsPerMinute * Minute
    BY <1>1, <1>3, <1>7
  <2>4. (b.tokens + q) * Minute <= Content(b)
    BY <1>5, <2>2, <2>3 DEF Capped
  <2>5. b.tokens + q <= 0 => a < Minute
    BY <1>1, <1>2, <1>3
  <2>6. b.tokens * Minute + a < (b.tokens + q) * Minute + Minute
    BY <1>1, <1>2, <1>3
  <2>7. b.tokens * Minute \in Nat /\ RequestsPerMinute * Minute \in Nat
    BY <1>1
  <2>8. Content(b) <= b.tokens * Minute + a /\ Content(b) \in Nat
    BY <1>2, <1>5, <2>7 DEF Capped
  <2>9. Content(b) < (b.tokens + q) * Minute + Minute
    <3>1. (b.tokens + q) * Minute \in Nat
      BY <1>1, <1>3
    <3> QED
      BY <1>1, <1>2, <2>6, <2>7, <2>8, <3>1
  <2> QED
    BY <1>1, <1>3, <1>7, <2>1, <2>4, <2>5, <2>9
<1> QED
  BY <1>6, <1>7

-----------------------------------------------------------------------------
(* The steps.                                                               *)

LEMMA AfterRequest ==
    ASSUME RateTypeOK, NEW k \in Keys, NEW n \in 0 .. RequestsPerMinute,
           bucket' = [bucket EXCEPT ![k] = [tokens |-> n, idle |-> 0]]
    PROVE  /\ bucket' \in [Keys -> Bucket]
           /\ bucket'[k] = [tokens |-> n, idle |-> 0]
           /\ \A j \in Keys : j # k => bucket'[j] = bucket[j]
<1>1. [tokens |-> n, idle |-> 0] \in Bucket
  BY RateAssumption DEF Bucket
<1> QED
  BY <1>1 DEF RateTypeOK

LEMMA ServeLeaves ==
    ASSUME RateTypeOK, NEW k \in Keys, Serve(k)
    PROVE  /\ Refilled(bucket[k]) - 1 \in 0 .. RequestsPerMinute
           /\ bucket' = [bucket EXCEPT ![k] = [tokens |-> Refilled(bucket[k]) - 1, idle |-> 0]]
<1>1. Refilled(bucket[k]) \in 0 .. RequestsPerMinute
  BY RefillBounds DEF RateTypeOK
<1> QED
  BY <1>1, RateAssumption DEF Serve

LEMMA RefuseLeaves ==
    ASSUME RateTypeOK, NEW k \in Keys, Refuse(k)
    PROVE  /\ Refilled(bucket[k]) \in 0 .. RequestsPerMinute
           /\ bucket' = [bucket EXCEPT ![k] = [tokens |-> Refilled(bucket[k]), idle |-> 0]]
           /\ bucket[k].idle * RequestsPerMinute < Minute
BY RefillBounds DEF RateTypeOK, Refuse

\* The steps of the chain are those of the limiter, or leave it alone.
LEMMA MiddlewareSteps ==
    ASSUME [MiddlewareNext]_middlewareVars
    PROVE  \/ \E k \in Keys : Serve(k) \/ Refuse(k)
           \/ Tick \/ Observe \/ Restart
           \/ UNCHANGED <<bucket, quiet, window, served>>
BY DEF MiddlewareNext, middlewareVars, rateVars, Track, TokenAuth, ReadToken, WriteToken,
       WriteFails, Stopped

\* Buckets are never over-full, and the clocks stay in their bounds.
LEMMA RateTypeStep ==
    ASSUME RateTypeOK, [MiddlewareNext]_middlewareVars
    PROVE  RateTypeOK'
<1> USE RateAssumption
<1>1. ASSUME NEW k \in Keys, Serve(k)
      PROVE  RateTypeOK'
  <2>1. bucket' \in [Keys -> Bucket]
    <3>1. PICK n \in 0 .. RequestsPerMinute :
            bucket' = [bucket EXCEPT ![k] = [tokens |-> n, idle |-> 0]]
      BY <1>1, ServeLeaves
    <3> QED
      BY <3>1, AfterRequest
  <2> QED
    BY <1>1, <2>1 DEF Serve, RateTypeOK
<1>2. ASSUME NEW k \in Keys, Refuse(k)
      PROVE  RateTypeOK'
  <2>1. bucket' \in [Keys -> Bucket]
    <3>1. PICK n \in 0 .. RequestsPerMinute :
            bucket' = [bucket EXCEPT ![k] = [tokens |-> n, idle |-> 0]]
      BY <1>2, RefuseLeaves
    <3> QED
      BY <3>1, AfterRequest
  <2> QED
    BY <1>2, <2>1 DEF Refuse, RateTypeOK
<1>3. CASE Tick
  <2>1. ASSUME NEW k \in Keys
        PROVE  [bucket[k] EXCEPT !.idle = Capped(@ + 1, Minute)] \in Bucket
    BY DEF RateTypeOK, Bucket, Capped
  <2>2. ASSUME NEW k \in Keys
        PROVE  Capped(quiet[k] + 1, Minute) \in 0 .. Minute
    BY DEF RateTypeOK, Capped
  <2> QED
    BY <1>3, <2>1, <2>2 DEF Tick, RateTypeOK
<1>4. CASE Observe
  BY <1>4 DEF Observe, RateTypeOK, None
<1>5. CASE Restart
  BY <1>5 DEF Restart, RateTypeOK, None, FullBuckets, Bucket
<1>6. CASE UNCHANGED <<bucket, quiet, window, served>>
  BY <1>6 DEF RateTypeOK
<1> QED
  BY <1>1, <1>2, <1>3, <1>4, <1>5, <1>6, MiddlewareSteps

\* Nothing of a normalised list is lost in the column.
LEMMA StoredIsNormalized ==
    ASSUME NEW list
    PROVE  Stored(NormalizeOrigins(list)) = NormalizeOrigins(list)
<1>1. ASSUME NEW e PROVE Canonical(e).kind # "blank"
  <2>1. CASE e.kind = "*"
    BY <2>1 DEF Canonical, AnyOrigin
  <2>2. CASE e.kind # "*"
    BY <2>2 DEF Canonical
  <2> QED
    BY <2>1, <2>2
<1> QED
  BY <1>1 DEF Stored, NormalizeOrigins

\* What a request that is in flight may write.
MadeEdits == {Edit(k, NormalizeOrigins(list), list) : k \in Keys, list \in Accepted}

\* The list of a token, and each that a request in flight will put in its place, is
\* what was made of a list that was asked for and accepted.
OriginsInv ==
    /\ asked \in [Keys -> Accepted]
    /\ allowed = [k \in Keys |-> NormalizeOrigins(asked[k])]
    /\ edits \in [Editors -> {NoEdit} \cup MadeEdits]

LEMMA OriginsInit == MiddlewareInit => OriginsInv
BY StoredIsNormalized DEF MiddlewareInit, OriginsInv

LEMMA OriginsStep == OriginsInv /\ [MiddlewareNext]_middlewareVars => OriginsInv'
<1> SUFFICES ASSUME OriginsInv, [MiddlewareNext]_middlewareVars PROVE OriginsInv'
  OBVIOUS
<1>1. ASSUME NEW a \in Editors, ReadToken(a)
      PROVE  OriginsInv'
  <2>1. PICK edit \in MadeEdits : edits' = [edits EXCEPT ![a] = edit]
    <3>1. PICK k \in Keys :
            \/ \E list \in Lists :
                 /\ ~ IsRejected(list)
                 /\ edits' = [edits EXCEPT ![a] = Edit(k, NormalizeOrigins(list), list)]
            \/ edits' = [edits EXCEPT ![a] = Edit(k, allowed[k], asked[k])]
      BY <1>1 DEF ReadToken
    <3>2. CASE \E list \in Lists :
                 /\ ~ IsRejected(list)
                 /\ edits' = [edits EXCEPT ![a] = Edit(k, NormalizeOrigins(list), list)]
      <4>1. PICK list \in Lists :
              /\ ~ IsRejected(list)
              /\ edits' = [edits EXCEPT ![a] = Edit(k, NormalizeOrigins(list), list)]
        BY <3>2
      <4>2. list \in Accepted
        BY <4>1 DEF Accepted
      <4>3. Edit(k, NormalizeOrigins(list), list) \in MadeEdits
        BY <4>2 DEF MadeEdits
      <4> QED
        BY <4>1, <4>3
    <3>3. CASE edits' = [edits EXCEPT ![a] = Edit(k, allowed[k], asked[k])]
      <4>1. asked[k] \in Accepted /\ allowed[k] = NormalizeOrigins(asked[k])
        BY DEF OriginsInv
      <4>2. Edit(k, NormalizeOrigins(asked[k]), asked[k]) \in MadeEdits
        BY <4>1 DEF MadeEdits
      <4> QED
        BY <3>3, <4>1, <4>2
    <3> QED
      BY <3>1, <3>2, <3>3
  <2> QED
    BY <1>1, <2>1 DEF ReadToken, OriginsInv
<1>2. ASSUME NEW a \in Editors, WriteToken(a)
      PROVE  OriginsInv'
  <2>1. PICK k \in Keys, list \in Accepted : edits[a] = Edit(k, NormalizeOrigins(list), list)
    BY <1>2 DEF WriteToken, OriginsInv, MadeEdits
  <2>2. /\ allowed' = [allowed EXCEPT ![k] = NormalizeOrigins(list)]
        /\ asked' = [asked EXCEPT ![k] = list]
        /\ edits' = [edits EXCEPT ![a] = NoEdit]
    <3>1. /\ edits[a].token = k /\ edits[a].asked = list
          /\ edits[a].origins = NormalizeOrigins(list)
      BY <2>1 DEF Edit
    <3>2. Stored(edits[a].origins) = NormalizeOrigins(list)
      BY <3>1, StoredIsNormalized
    <3>3. /\ allowed' = [allowed EXCEPT ![k] = Stored(edits[a].origins)]
          /\ asked' = [asked EXCEPT ![k] = list]
          /\ edits' = [edits EXCEPT ![a] = NoEdit]
      BY <1>2, <3>1 DEF WriteToken
    <3> QED
      BY <3>2, <3>3
  <2>3. asked' \in [Keys -> Accepted] /\ edits' \in [Editors -> {NoEdit} \cup MadeEdits]
    BY <2>2 DEF OriginsInv
  <2>4. ASSUME NEW j \in Keys
        PROVE  allowed'[j] = NormalizeOrigins(asked'[j])
    BY <2>2 DEF OriginsInv
  <2>5. allowed' = [j \in Keys |-> allowed'[j]]
    BY <2>2 DEF OriginsInv
  <2>6. allowed' = [j \in Keys |-> NormalizeOrigins(asked'[j])]
    BY <2>4, <2>5
  <2>7. MadeEdits' = MadeEdits /\ NoEdit' = NoEdit
    BY DEF MadeEdits, Edit, NoEdit
  <2> QED
    BY <2>3, <2>6, <2>7 DEF OriginsInv
<1>3. ASSUME NEW a \in Editors, WriteFails(a)
      PROVE  OriginsInv'
  BY <1>3 DEF WriteFails, OriginsInv
<1>4. CASE Stopped
  BY <1>4 DEF Stopped, OriginsInv
<1>5. CASE UNCHANGED listVars
  BY <1>5 DEF listVars, OriginsInv
<1> QED
  BY <1>1, <1>2, <1>3, <1>4, <1>5 DEF MiddlewareNext, middlewareVars, Track

\* The buckets and the stored lists are well formed: no bucket ever holds more
\* than a minute's worth of requests.
THEOREM MiddlewareTypeCorrect == MiddlewareSpec => []MiddlewareTypeOK
<1>1. MiddlewareInit => RateTypeOK
  BY RateAssumption DEF MiddlewareInit, RateInit, RateTypeOK, FullBuckets, None, Bucket
<1>2. RateTypeOK /\ [MiddlewareNext]_middlewareVars => RateTypeOK'
  BY RateTypeStep
<1>3. RateTypeOK /\ OriginsInv => MiddlewareTypeOK
  <2>1. MadeEdits \subseteq [token : Keys, origins : Columns, asked : Accepted]
    BY DEF MadeEdits, Edit, Columns
  <2>2. OriginsInv => allowed \in [Keys -> Columns]
    BY DEF OriginsInv, Columns
  <2> QED
    BY <2>1, <2>2 DEF MiddlewareTypeOK, OriginsInv
<1> QED
  BY <1>1, <1>2, <1>3, OriginsInit, OriginsStep, PTL DEF MiddlewareSpec

-----------------------------------------------------------------------------
(* What is served in a window, and what a bucket still holds, together never *)
(* exceed a full bucket and the rate.                                        *)

Budget(k) ==
    served[k] * Minute + Content(bucket[k]) <= (Minute + window) * RequestsPerMinute

WithinBudget == \A k \in Keys : Budget(k)

LEMMA ContentRange ==
    ASSUME NEW b \in Bucket
    PROVE  /\ Content(b) \in Nat
           /\ Content(b) <= RequestsPerMinute * Minute
<1>1. /\ RequestsPerMinute \in Nat /\ Minute \in Nat
      /\ b.tokens \in Nat /\ b.idle \in Nat
  BY RateAssumption DEF Bucket
<1> DEFINE x == b.tokens * Minute + b.idle * RequestsPerMinute
           y == RequestsPerMinute * Minute
<1>2. x \in Nat /\ y \in Nat
  BY <1>1
<1>3. Content(b) = Capped(x, y)
  BY DEF Content
<1> HIDE DEF x, y
<1>4. Capped(x, y) \in Nat /\ Capped(x, y) <= y
  BY <1>2 DEF Capped
<1> QED
  BY <1>3, <1>4 DEF y

LEMMA ContentOfUnused ==
    ASSUME NEW n \in 0 .. RequestsPerMinute
    PROVE  Content([tokens |-> n, idle |-> 0]) = n * Minute
<1>1. n * Minute <= RequestsPerMinute * Minute
  BY RateAssumption
<1>2. n * Minute \in Nat /\ RequestsPerMinute * Minute \in Nat
  BY RateAssumption
<1> QED
  BY <1>1, <1>2, RateAssumption DEF Content, Capped

\* A tick adds the rate, up to a full bucket: to forget how long more than a
\* minute is loses nothing.
LEMMA ContentOfTick ==
    ASSUME NEW b \in Bucket
    PROVE  Content([b EXCEPT !.idle = Capped(@ + 1, Minute)])
             = Capped(Content(b) + RequestsPerMinute, RequestsPerMinute * Minute)
<1>1. /\ RequestsPerMinute \in Nat /\ Minute \in Nat
      /\ b.tokens \in Nat /\ b.idle \in Nat
  BY RateAssumption DEF Bucket
<1> DEFINE c  == [b EXCEPT !.idle = Capped(@ + 1, Minute)]
           x  == b.tokens * Minute
           i  == b.idle * RequestsPerMinute
           ii == c.idle * RequestsPerMinute
           y  == RequestsPerMinute * Minute
<1>2. c.tokens = b.tokens /\ c.idle = Capped(b.idle + 1, Minute)
  BY DEF Bucket
<1>3. x \in Nat /\ i \in Nat /\ y \in Nat
  BY <1>1
<1>4. Content(b) = Capped(x + i, y) /\ Content(c) = Capped(x + ii, y)
  BY <1>2 DEF Content
<1>5. CASE b.idle + 1 > Minute
  <2>1. c.idle = Minute /\ b.idle = Minute
    BY <1>1, <1>2, <1>5 DEF Capped, Bucket
  <2>2. i = y /\ ii = y
    BY <1>1, <2>1
  <2> HIDE DEF x, i, ii, y, c
  <2> QED
    BY <1>1, <1>3, <1>4, <2>2 DEF Capped, c, y
<1>6. CASE ~ (b.idle + 1 > Minute)
  <2>1. c.idle = b.idle + 1
    BY <1>2, <1>6 DEF Capped
  <2>2. ii = i + RequestsPerMinute
    BY <1>1, <2>1
  <2> HIDE DEF x, i, ii, y, c
  <2> QED
    BY <1>1, <1>3, <1>4, <2>2 DEF Capped, c, y
<1> QED
  BY <1>5, <1>6

LEMMA BudgetInit ==
    ASSUME RateInit
    PROVE  WithinBudget
<1>1. ASSUME NEW k \in Keys
      PROVE  served[k] = 0 /\ window = 0 /\ Content(bucket[k]) = RequestsPerMinute * Minute
  BY ContentOfUnused, RateAssumption DEF RateInit, None, FullBuckets
<1>2. 0 * Minute + RequestsPerMinute * Minute <= (Minute + 0) * RequestsPerMinute
  BY RateAssumption
<1> QED
  BY <1>1, <1>2 DEF WithinBudget, Budget

LEMMA BudgetStep ==
    ASSUME RateTypeOK, RateTypeOK', WithinBudget, [MiddlewareNext]_middlewareVars
    PROVE  WithinBudget'
<1> SUFFICES ASSUME NEW j \in Keys
             PROVE  Budget(j)'
  BY DEF WithinBudget
<1>1. Budget(j)
  BY DEF WithinBudget
<1>2. /\ RequestsPerMinute \in Nat /\ Minute \in Nat /\ window \in Nat
      /\ served[j] \in Nat /\ bucket[j] \in Bucket
      /\ Content(bucket[j]) \in Nat
  BY RateAssumption, ContentRange DEF RateTypeOK
<1>3. ASSUME NEW k \in Keys, Serve(k)
      PROVE  Budget(j)'
  <2> DEFINE n == Refilled(bucket[k]) - 1
  <2>1. /\ n \in 0 .. RequestsPerMinute
        /\ bucket' = [bucket EXCEPT ![k] = [tokens |-> n, idle |-> 0]]
        /\ window' = window /\ served' = [served EXCEPT ![k] = @ + 1]
    BY <1>3, ServeLeaves DEF Serve
  <2>2. CASE j # k
    <3>1. bucket'[j] = bucket[j] /\ served'[j] = served[j]
      BY <2>1, <2>2, AfterRequest DEF RateTypeOK
    <3> QED
      BY <1>1, <2>1, <3>1 DEF Budget, Content
  <2>3. CASE j = k
    <3>1. (n + 1) * Minute <= Content(bucket[j])
      BY <1>2, <2>1, <2>3, RefillBounds
    <3>2. Content(bucket'[j]) = n * Minute
      BY <2>1, <2>3, AfterRequest, ContentOfUnused
    <3>3. served'[j] = served[j] + 1
      BY <2>1, <2>3 DEF RateTypeOK
    <3>4. served'[j] * Minute + n * Minute = served[j] * Minute + (n + 1) * Minute
      BY <1>2, <2>1, <3>3
    <3>5. n * Minute \in Nat /\ (n + 1) * Minute \in Nat /\ served[j] * Minute \in Nat
          /\ (Minute + window) * RequestsPerMinute \in Nat
      BY <1>2, <2>1
    <3> HIDE DEF n
    <3> QED
      BY <1>1, <1>2, <2>1, <3>1, <3>2, <3>4, <3>5 DEF Budget, Content
  <2> QED
    BY <2>2, <2>3
<1>4. ASSUME NEW k \in Keys, Refuse(k)
      PROVE  Budget(j)'
  <2> DEFINE n == Refilled(bucket[k])
  <2>1. /\ n \in 0 .. RequestsPerMinute
        /\ bucket' = [bucket EXCEPT ![k] = [tokens |-> n, idle |-> 0]]
        /\ window' = window /\ served' = served
    BY <1>4, RefuseLeaves DEF Refuse
  <2>2. CASE j # k
    <3>1. bucket'[j] = bucket[j]
      BY <2>1, <2>2, AfterRequest
    <3> QED
      BY <1>1, <2>1, <3>1 DEF Budget, Content
  <2>3. CASE j = k
    <3>1. n * Minute <= Content(bucket[j])
      BY <1>2, <2>3, RefillBounds
    <3>2. Content(bucket'[j]) = n * Minute
      BY <2>1, <2>3, AfterRequest, ContentOfUnused
    <3>3. n * Minute \in Nat /\ served[j] * Minute \in Nat
          /\ (Minute + window) * RequestsPerMinute \in Nat
      BY <1>2, <2>1
    <3> HIDE DEF n
    <3> QED
      BY <1>1, <1>2, <2>1, <3>1, <3>2, <3>3 DEF Budget, Content
  <2> QED
    BY <2>2, <2>3
<1>5. CASE Tick
  <2>1. /\ bucket'[j] = [bucket[j] EXCEPT !.idle = Capped(@ + 1, Minute)]
        /\ window' = window + 1 /\ served' = served
    BY <1>5 DEF Tick
  <2>2. Content(bucket'[j]) <= Content(bucket[j]) + RequestsPerMinute
    <3>1. Content(bucket'[j]) = Capped(Content(bucket[j]) + RequestsPerMinute,
                                       RequestsPerMinute * Minute)
      BY <1>2, <2>1, ContentOfTick
    <3>2. Content(bucket[j]) + RequestsPerMinute \in Nat /\ RequestsPerMinute * Minute \in Nat
      BY <1>2
    <3> QED
      BY <3>1, <3>2 DEF Capped
  <2>3. Content(bucket'[j]) \in Nat
    BY ContentRange DEF RateTypeOK, Content
  <2>4. (Minute + window') * RequestsPerMinute
          = (Minute + window) * RequestsPerMinute + RequestsPerMinute
    BY <1>2, <2>1
  <2>5. served[j] * Minute \in Nat /\ (Minute + window) * RequestsPerMinute \in Nat
    BY <1>2
  <2> QED
    BY <1>1, <1>2, <2>1, <2>2, <2>3, <2>4, <2>5 DEF Budget, Content
<1>6. CASE Observe \/ Restart
  <2>1. served'[j] = 0 /\ window' = 0
    BY <1>6 DEF Observe, Restart, None
  <2>2. Content(bucket'[j]) <= RequestsPerMinute * Minute /\ Content(bucket'[j]) \in Nat
    BY ContentRange DEF RateTypeOK, Content
  <2> QED
    BY <1>2, <2>1, <2>2 DEF Budget, Content
<1>7. CASE UNCHANGED <<bucket, quiet, window, served>>
  BY <1>1, <1>7 DEF Budget, Content
<1> QED
  BY <1>3, <1>4, <1>5, <1>6, <1>7, MiddlewareSteps

\* In no window of time is a key served more than a full bucket and the rate for
\* the length of the window, whatever the requests' times, refusals, refused
\* origins and restarts of the window.
THEOREM ServedWithinRate == MiddlewareSpec => []ServedInWindow
<1>1. RateTypeOK /\ WithinBudget => ServedInWindow
  <2> SUFFICES ASSUME RateTypeOK, WithinBudget, NEW k \in Keys
               PROVE  served[k] * Minute <= (Minute + window) * RequestsPerMinute
    BY DEF ServedInWindow
  <2>1. Content(bucket[k]) \in Nat /\ Budget(k)
    BY ContentRange DEF RateTypeOK, WithinBudget
  <2>2. served[k] * Minute \in Nat /\ (Minute + window) * RequestsPerMinute \in Nat
    BY RateAssumption DEF RateTypeOK
  <2> QED
    BY <2>1, <2>2 DEF Budget
<1>2. MiddlewareInit => WithinBudget
  BY BudgetInit DEF MiddlewareInit
<1>3. RateTypeOK /\ RateTypeOK' /\ WithinBudget /\ [MiddlewareNext]_middlewareVars
        => WithinBudget'
  BY BudgetStep
<1>4. MiddlewareTypeOK => RateTypeOK
  BY DEF MiddlewareTypeOK
<1> QED
  BY <1>1, <1>2, <1>3, <1>4, MiddlewareTypeCorrect, PTL DEF MiddlewareSpec

-----------------------------------------------------------------------------
(* A request is refused only when too little time has passed since the last  *)
(* one that came to the limiter.                                            *)

QuietIsIdle == \A k \in Keys : quiet[k] = bucket[k].idle

LEMMA QuietStep ==
    ASSUME RateTypeOK, QuietIsIdle, [MiddlewareNext]_middlewareVars
    PROVE  QuietIsIdle'
<1> USE DEF QuietIsIdle
<1>1. ASSUME NEW k \in Keys, Serve(k)
      PROVE  QuietIsIdle'
  <2>1. /\ bucket'[k].idle = 0
        /\ \A j \in Keys : j # k => bucket'[j] = bucket[j]
    <3>1. PICK n \in 0 .. RequestsPerMinute :
            bucket' = [bucket EXCEPT ![k] = [tokens |-> n, idle |-> 0]]
      BY <1>1, ServeLeaves
    <3> QED
      BY <3>1, AfterRequest
  <2> QED
    BY <1>1, <2>1 DEF Serve, RateTypeOK
<1>2. ASSUME NEW k \in Keys, Refuse(k)
      PROVE  QuietIsIdle'
  <2>1. /\ bucket'[k].idle = 0
        /\ \A j \in Keys : j # k => bucket'[j] = bucket[j]
    <3>1. PICK n \in 0 .. RequestsPerMinute :
            bucket' = [bucket EXCEPT ![k] = [tokens |-> n, idle |-> 0]]
      BY <1>2, RefuseLeaves
    <3> QED
      BY <3>1, AfterRequest
  <2> QED
    BY <1>2, <2>1 DEF Refuse, RateTypeOK
<1>3. CASE Tick
  <2>1. ASSUME NEW k \in Keys
        PROVE  bucket'[k].idle = Capped(bucket[k].idle + 1, Minute)
    BY <1>3 DEF Tick, RateTypeOK, Bucket
  <2>2. ASSUME NEW k \in Keys
        PROVE  quiet'[k] = Capped(quiet[k] + 1, Minute)
    BY <1>3 DEF Tick
  <2> QED
    BY <2>1, <2>2
<1>4. CASE Observe \/ Restart
  BY <1>4 DEF Observe, Restart, None, FullBuckets
<1>5. CASE UNCHANGED <<bucket, quiet, window, served>>
  BY <1>5
<1> QED
  BY <1>1, <1>2, <1>3, <1>4, <1>5, MiddlewareSteps

LEMMA OnlyRefuseLimits ==
    ASSUME [MiddlewareNext]_middlewareVars, ~ UNCHANGED rateVars,
           NEW k \in Keys, Limited(k)
    PROVE  Refuse(k)
<1>1. MiddlewareNext
  BY DEF middlewareVars
<1>2. ASSUME NEW j \in Keys, Refuse(j)
      PROVE  j = k
  BY <1>2 DEF Refuse, Limited, Answer
<1>3. ASSUME NEW j \in Keys, Serve(j)
      PROVE  FALSE
  BY <1>3 DEF Serve, Limited, Answer
<1>4. ASSUME NEW j \in Keys, Answer(j, "forbidden")
      PROVE  FALSE
  BY <1>4 DEF Limited, Answer
<1>5. answer' # NoAnswer
  BY DEF Limited, NoAnswer
<1> QED
  BY <1>1, <1>2, <1>3, <1>4, <1>5
     DEF MiddlewareNext, Track, TokenAuth, ReadToken, WriteToken, WriteFails, Stopped,
         Tick, Observe, Restart

\* A client that waits as long as one token takes is never refused, whatever it
\* and the others did before, and however often its origin was refused meanwhile.
THEOREM PatientServed == MiddlewareSpec => PatientIsServed
<1>1. ASSUME RateTypeOK, QuietIsIdle, [MiddlewareNext]_middlewareVars
      PROVE  [\A k \in Keys : Limited(k) => quiet[k] * RequestsPerMinute < Minute]_rateVars
  <2> SUFFICES ASSUME ~ UNCHANGED rateVars, NEW k \in Keys, Limited(k)
               PROVE  quiet[k] * RequestsPerMinute < Minute
    OBVIOUS
  <2>1. Refuse(k)
    BY <1>1, OnlyRefuseLimits
  <2>2. bucket[k].idle * RequestsPerMinute < Minute
    BY <1>1, <2>1, RefuseLeaves
  <2> QED
    BY <1>1, <2>2 DEF QuietIsIdle
<1>2. MiddlewareInit => QuietIsIdle
  <2> SUFFICES ASSUME MiddlewareInit, NEW k \in Keys
               PROVE  quiet[k] = bucket[k].idle
    BY DEF QuietIsIdle
  <2>1. quiet[k] = 0
    BY DEF MiddlewareInit, RateInit, None
  <2>2. bucket[k] = [tokens |-> RequestsPerMinute, idle |-> 0]
    BY DEF MiddlewareInit, RateInit, FullBuckets
  <2> QED
    BY <2>1, <2>2
<1>3. RateTypeOK /\ QuietIsIdle /\ [MiddlewareNext]_middlewareVars => QuietIsIdle'
  BY QuietStep
<1>4. MiddlewareTypeOK => RateTypeOK
  BY DEF MiddlewareTypeOK
<1> QED
  BY <1>1, <1>2, <1>3, <1>4, MiddlewareTypeCorrect, PTL DEF MiddlewareSpec, PatientIsServed

-----------------------------------------------------------------------------
(* The limiter is a token bucket.                                           *)

LEMMA CreditOfRequest ==
    ASSUME RateTypeOK, NEW k \in Keys, NEW n \in 0 .. RequestsPerMinute,
           bucket' = [bucket EXCEPT ![k] = [tokens |-> n, idle |-> 0]]
    PROVE  Credit' = [Credit EXCEPT ![k] = n * Minute]
<1>1. bucket'[k] = [tokens |-> n, idle |-> 0]
  BY AfterRequest
<1>2. \A j \in Keys : j # k => bucket'[j] = bucket[j]
  BY AfterRequest
<1>3. Content(bucket'[k]) = n * Minute
  BY <1>1, ContentOfUnused
<1>4. Credit' = [j \in Keys |-> Content(bucket'[j])]
  BY DEF Credit, Content
<1>5. \A j \in Keys : Content(bucket'[j]) = IF j = k THEN n * Minute ELSE Credit[j]
  BY <1>2, <1>3 DEF Credit
<1>6. Credit = [j \in Keys |-> Credit[j]]
  BY DEF Credit
<1> QED
  BY <1>4, <1>5, <1>6

\* A request leaves whole tokens: less than one is lost.
LEMMA RequestPays ==
    ASSUME RateTypeOK, NEW k \in Keys, NEW cost \in {0, 1},
           Refilled(bucket[k]) - cost \in 0 .. RequestsPerMinute,
           bucket' = [bucket EXCEPT ![k] = [tokens |-> Refilled(bucket[k]) - cost, idle |-> 0]]
    PROVE  Limiter!Pay(k, cost * Minute)
<1> DEFINE n == Refilled(bucket[k]) - cost
<1>0. bucket[k] \in Bucket /\ Minute \in Nat \ {0} /\ RequestsPerMinute \in Nat
  BY RateAssumption DEF RateTypeOK
<1>1. /\ Refilled(bucket[k]) \in 0 .. RequestsPerMinute
      /\ Refilled(bucket[k]) * Minute <= Credit[k]
      /\ Credit[k] < Refilled(bucket[k]) * Minute + Minute
      /\ Credit[k] \in Nat
  BY <1>0, RefillBounds, ContentRange DEF Credit
<1>2. Credit' = [Credit EXCEPT ![k] = n * Minute]
  BY CreditOfRequest
<1>3. n * Minute = Refilled(bucket[k]) * Minute - cost * Minute
  BY <1>0, <1>1
<1>4. n * Minute \in Nat /\ cost * Minute \in Nat /\ Refilled(bucket[k]) * Minute \in Nat
  BY <1>0, <1>1
<1>5. /\ n * Minute \in 0 .. (Credit[k] - cost * Minute)
      /\ Credit[k] - cost * Minute < n * Minute + Minute
  BY <1>0, <1>1, <1>3, <1>4
<1> QED
  BY <1>2, <1>5 DEF Limiter!Pay

LEMMA ServeGrants ==
    ASSUME RateTypeOK, NEW k \in Keys, Serve(k)
    PROVE  Limiter!Grant(k)
<1>1. Limiter!Pay(k, Minute)
  <2>1. Limiter!Pay(k, 1 * Minute)
    BY ServeLeaves, RequestPays
  <2>2. 1 * Minute = Minute
    BY RateAssumption
  <2> QED
    BY <2>1, <2>2
<1>2. Credit[k] >= Minute
  <2>1. /\ Refilled(bucket[k]) \in 0 .. RequestsPerMinute /\ Refilled(bucket[k]) > 0
        /\ Refilled(bucket[k]) * Minute <= Content(bucket[k]) /\ Content(bucket[k]) \in Nat
    BY RefillBounds, ContentRange DEF RateTypeOK, Serve
  <2>2. Minute <= Refilled(bucket[k]) * Minute /\ Refilled(bucket[k]) * Minute \in Nat
    BY <2>1, RateAssumption
  <2> QED
    BY <2>1, <2>2, RateAssumption DEF Credit
<1>3. LimiterAnswer' = [key |-> k, status |-> "served"]
  BY DEF Serve, Answer, LimiterAnswer
<1> QED
  BY <1>1, <1>2, <1>3 DEF Limiter!Grant, Limiter!Verdict

LEMMA RefuseDenies ==
    ASSUME RateTypeOK, NEW k \in Keys, Refuse(k)
    PROVE  Limiter!Deny(k)
<1>0. Refilled(bucket[k]) = 0
  BY RefillBounds, RateAssumption DEF RateTypeOK, Refuse
<1>1. Limiter!Pay(k, 0)
  <2>1. Limiter!Pay(k, 0 * Minute)
    BY <1>0, RefuseLeaves, RequestPays
  <2>2. 0 * Minute = 0
    BY RateAssumption
  <2> QED
    BY <2>1, <2>2
<1>2. Credit[k] < Minute
  <2>1. Content(bucket[k]) < 0 * Minute + Minute
    BY <1>0, RefillBounds DEF RateTypeOK
  <2> QED
    BY <2>1, RateAssumption DEF Credit
<1>3. LimiterAnswer' = [key |-> k, status |-> "limited"]
  BY DEF Refuse, Answer, LimiterAnswer
<1> QED
  BY <1>1, <1>2, <1>3 DEF Limiter!Deny, Limiter!Verdict

LEMMA TickElapses ==
    ASSUME RateTypeOK, Tick
    PROVE  Limiter!Elapse
<1>1. ASSUME NEW k \in Keys
      PROVE  Content(bucket'[k]) = Capped(Credit[k] + RequestsPerMinute,
                                          RequestsPerMinute * Minute)
  <2>1. bucket'[k] = [bucket[k] EXCEPT !.idle = Capped(@ + 1, Minute)]
    BY DEF Tick
  <2> QED
    BY <2>1, ContentOfTick DEF RateTypeOK, Credit
<1>2. Credit' = [k \in Keys |-> Capped(Credit[k] + RequestsPerMinute,
                                       RequestsPerMinute * Minute)]
  BY <1>1 DEF Credit, Content
<1>3. LimiterAnswer' = NoAnswer
  BY DEF Tick, LimiterAnswer, NoAnswer
<1> QED
  BY <1>2, <1>3 DEF Limiter!Elapse, Limiter!Full, Limiter!NoVerdict, Capped, NoAnswer

LEMMA FullBucketsAreFull ==
    ASSUME bucket = FullBuckets
    PROVE  Credit = Limiter!AllFull
BY ContentOfUnused, RateAssumption DEF FullBuckets, Credit, Limiter!AllFull, Limiter!Full

LEMMA RestartResets ==
    ASSUME Restart
    PROVE  Limiter!Reset
<1>1. \A k \in Keys : Content(bucket'[k]) = RequestsPerMinute * Minute
  BY ContentOfUnused, RateAssumption DEF Restart, FullBuckets
<1>2. Credit' = Limiter!AllFull
  BY <1>1 DEF Credit, Content, Limiter!AllFull, Limiter!Full
<1>3. LimiterAnswer' = NoAnswer
  BY DEF Restart, LimiterAnswer, NoAnswer
<1> QED
  BY <1>2, <1>3 DEF Limiter!Reset, Limiter!NoVerdict, NoAnswer

\* What does not come to the limiter costs no credit.
LEMMA OthersPass ==
    ASSUME UNCHANGED bucket,
           answer' = NoAnswer \/ \E k \in Keys : Answer(k, "forbidden")
    PROVE  Limiter!Pass
<1>1. Credit' = Credit
  BY DEF Credit, Content
<1>2. LimiterAnswer' = NoAnswer
  BY DEF Answer, LimiterAnswer, NoAnswer
<1> QED
  BY <1>1, <1>2 DEF Limiter!Pass, Limiter!NoVerdict, NoAnswer

LEMMA StepOfLimiter ==
    RateTypeOK /\ [MiddlewareNext]_middlewareVars
      => [Limiter!TokenBucketNext]_(Limiter!tokenBucketVars)
<1> SUFFICES ASSUME RateTypeOK, [MiddlewareNext]_middlewareVars
             PROVE  [Limiter!TokenBucketNext]_(Limiter!tokenBucketVars)
  OBVIOUS
<1>1. CASE UNCHANGED middlewareVars
  BY <1>1 DEF middlewareVars, rateVars, Credit, Content, LimiterAnswer, Limiter!tokenBucketVars
<1>2. ASSUME NEW k \in Keys, NEW origin \in Headers, Track(k, origin)
      PROVE  Limiter!TokenBucketNext
  BY <1>2, ServeGrants, RefuseDenies, OthersPass
     DEF Track, TokenAuth, Limiter!TokenBucketNext
<1>3. ASSUME NEW a \in Editors, ReadToken(a) \/ WriteToken(a) \/ WriteFails(a)
      PROVE  Limiter!TokenBucketNext
  BY <1>3, OthersPass DEF ReadToken, WriteToken, WriteFails, Limiter!TokenBucketNext
<1>4. CASE Tick
  BY <1>4, TickElapses DEF Limiter!TokenBucketNext
<1>5. CASE Observe
  BY <1>5, OthersPass DEF Observe, Limiter!TokenBucketNext
<1>6. CASE Stopped
  BY <1>6, RestartResets DEF Stopped, Limiter!TokenBucketNext
<1> QED
  BY <1>1, <1>2, <1>3, <1>4, <1>5, <1>6 DEF MiddlewareNext

\* For any rate, any clock and any number of keys the limiter behind TokenAuth is
\* a token bucket: it serves whoever has credit and nobody else, and of a key's
\* credit nothing but its own served requests and the fraction each request of it
\* drops is ever taken.
THEOREM ImplementsTokenBucket == MiddlewareSpec => TokenBucketSpec
<1>1. MiddlewareInit => Limiter!TokenBucketInit
  BY FullBucketsAreFull
     DEF MiddlewareInit, RateInit, LimiterAnswer, NoAnswer, Limiter!TokenBucketInit,
         Limiter!NoVerdict
<1>2. MiddlewareTypeOK => RateTypeOK
  BY DEF MiddlewareTypeOK
<1> QED
  BY <1>1, <1>2, StepOfLimiter, MiddlewareTypeCorrect, PTL
     DEF MiddlewareSpec, TokenBucketSpec, Limiter!TokenBucketSpec

-----------------------------------------------------------------------------
(* The origins of a token.                                                  *)

LEMMA ReverseProperties ==
    ASSUME NEW S, NEW s \in Seq(S)
    PROVE  /\ Reverse(s) \in Seq(S) /\ Len(Reverse(s)) = Len(s)
           /\ \A i \in 1 .. Len(s) : Reverse(s)[i] = s[Len(s) - i + 1]
BY DEF Reverse

\* A suffix is told by its length.
LEMMA SuffixIsSubSeq ==
    ASSUME NEW S, NEW s \in Seq(S), NEW t \in Seq(S)
    PROVE  IsSuffix(s, t) <=> Len(s) <= Len(t) /\ SubSeq(t, Len(t) - Len(s) + 1, Len(t)) = s
<1> DEFINE n == Len(s)
           m == Len(t)
           r == Reverse(s)
           u == Reverse(t)
           tail == SubSeq(t, m - n + 1, m)
<1>1. /\ n \in Nat /\ m \in Nat
      /\ r \in Seq(S) /\ Len(r) = n /\ \A i \in 1 .. n : r[i] = s[n - i + 1]
      /\ u \in Seq(S) /\ Len(u) = m /\ \A i \in 1 .. m : u[i] = t[m - i + 1]
  BY ReverseProperties
<1>2. IsSuffix(s, t) <=> n <= m /\ SubSeq(r, 1, n) = SubSeq(u, 1, n)
  BY <1>1 DEF IsSuffix, IsPrefix
<1> SUFFICES ASSUME n <= m PROVE SubSeq(r, 1, n) = SubSeq(u, 1, n) <=> tail = s
  BY <1>2
<1> HIDE DEF r, u
<1>3. SubSeq(r, 1, n) = r
  BY <1>1, SubSeqFull
<1>4. /\ SubSeq(u, 1, n) \in Seq(S) /\ Len(SubSeq(u, 1, n)) = n
      /\ \A i \in 1 .. n : SubSeq(u, 1, n)[i] = u[i]
  <2>1. \A i \in 1 .. n : u[i] \in S
    BY <1>1
  <2> QED
    BY <1>1, <2>1, SubSeqProperties
<1>5. /\ tail \in Seq(S) /\ Len(tail) = n
      /\ \A i \in 1 .. n : tail[i] = t[m - n + i]
  <2>0. m - n + 1 \in Int
    BY <1>1
  <2>1. PICK j \in Int : j = m - n + 1
    BY <2>0, Zenon
  <2>2. \A i \in j .. m : t[i] \in S
    BY <1>1, <2>1
  <2>3. /\ SubSeq(t, j, m) \in Seq(S)
        /\ Len(SubSeq(t, j, m)) = IF j <= m THEN m - j + 1 ELSE 0
        /\ \A i \in 1 .. m - j + 1 : SubSeq(t, j, m)[i] = t[j + i - 1]
    BY <1>1, <2>2, SubSeqProperties
  <2>4. tail = SubSeq(t, j, m)
    BY <1>1, <2>1
  <2> HIDE DEF tail
  <2>5. tail \in Seq(S) /\ Len(tail) = n
    BY <1>1, <2>1, <2>3, <2>4
  <2>6. ASSUME NEW i \in 1 .. n PROVE tail[i] = t[m - n + i]
    <3>1. i \in 1 .. m - j + 1 /\ j + i - 1 = m - n + i
      BY <1>1, <2>1
    <3> QED
      BY <2>3, <2>4, <3>1
  <2> QED
    BY <2>5, <2>6
<1> HIDE DEF n, m, tail
<1>6. tail = s <=> \A i \in 1 .. n : t[m - n + i] = s[i]
  BY <1>5 DEF n
<1>7. r = SubSeq(u, 1, n) <=> \A i \in 1 .. n : s[n - i + 1] = t[m - i + 1]
  <2>1. PICK v \in Seq(S) : v = SubSeq(u, 1, n)
    BY <1>4
  <2>2. Len(v) = n /\ \A i \in 1 .. n : v[i] = t[m - i + 1]
    BY <1>1, <1>4, <2>1
  <2>3. r = v <=> \A i \in 1 .. n : r[i] = v[i]
    BY <1>1, <2>2
  <2> QED
    BY <1>1, <2>1, <2>2, <2>3
<1>8. (\A i \in 1 .. n : t[m - n + i] = s[i]) <=> \A i \in 1 .. n : s[n - i + 1] = t[m - i + 1]
  <2>1. ASSUME \A i \in 1 .. n : t[m - n + i] = s[i], NEW i \in 1 .. n
        PROVE  s[n - i + 1] = t[m - i + 1]
    <3>1. n - i + 1 \in 1 .. n /\ m - n + (n - i + 1) = m - i + 1
      BY <1>1
    <3> QED
      BY <2>1, <3>1
  <2>2. ASSUME \A i \in 1 .. n : s[n - i + 1] = t[m - i + 1], NEW i \in 1 .. n
        PROVE  t[m - n + i] = s[i]
    <3>1. /\ n - i + 1 \in 1 .. n
          /\ n - (n - i + 1) + 1 = i /\ m - (n - i + 1) + 1 = m - n + i
      BY <1>1
    <3> QED
      BY <2>2, <3>1
  <2> QED
    BY <2>1, <2>2
<1> QED
  BY <1>3, <1>6, <1>7, <1>8

\* Comparing hosts by IsSuffix is to look for the host among the suffixes.
LEMMA WildHost ==
    ASSUME NEW host \in Hosts, NEW other \in Hosts
    PROVE  IsSuffix(host, other)
             <=> \E i \in 1 .. Len(other) : SubSeq(other, i, Len(other)) = host
<1>1. /\ host \in Seq(STRING) /\ other \in Seq(STRING)
      /\ Len(host) \in Nat \ {0} /\ Len(other) \in Nat \ {0}
  BY EmptySeq DEF Hosts
<1>2. ASSUME IsSuffix(host, other)
      PROVE  \E i \in 1 .. Len(other) : SubSeq(other, i, Len(other)) = host
  <2>1. /\ Len(host) <= Len(other)
        /\ SubSeq(other, Len(other) - Len(host) + 1, Len(other)) = host
    BY <1>1, <1>2, SuffixIsSubSeq
  <2>2. Len(other) - Len(host) + 1 \in 1 .. Len(other)
    BY <1>1, <2>1
  <2> QED
    BY <2>1, <2>2
<1>3. ASSUME NEW i \in 1 .. Len(other), SubSeq(other, i, Len(other)) = host
      PROVE  IsSuffix(host, other)
  <2>1. \A j \in i .. Len(other) : other[j] \in STRING
    BY <1>1
  <2>2. Len(host) = Len(other) - i + 1
    BY <1>1, <1>3, <2>1, SubSeqProperties
  <2>3. Len(host) <= Len(other) /\ Len(other) - Len(host) + 1 = i
    BY <1>1, <2>2
  <2> QED
    BY <1>1, <1>3, <2>3, SuffixIsSubSeq
<1> QED
  BY <1>2, <1>3

\* Where neither spells out the port of the scheme, equal ports are spelled alike.
LEMMA PortsAgree ==
    ASSUME NEW e, NEW o, e.scheme = o.scheme,
           e.port # DefaultPort(e.scheme), o.port # DefaultPort(o.scheme)
    PROVE  Port(e) = Port(o) <=> e.port = o.port
BY DEF Port

\* What normalising keeps of an entry is enough to compare it: an entry that
\* matches covers the origin, and one that is plain and covers it matches.
LEMMA MatchCovers ==
    ASSUME NEW e \in Entry, e.kind # "blank", e.kind # "bad",
           NEW origin \in BrowserOrigin, origin # NoOrigin
    PROVE  /\ MatchEntry(Canonical(e), origin) => Covers(e, origin)
           /\ IsPlain(e) /\ Covers(e, origin) => MatchEntry(Canonical(e), origin)
<1>1. CASE e.kind = "*"
  BY <1>1 DEF Canonical, AnyOrigin, MatchEntry, Covers
<1>2. CASE e.kind = "origin"
  <2>1. e.host \in Hosts /\ origin.host \in Hosts /\ origin.port # DefaultPort(origin.scheme)
    BY <1>2 DEF Entry, BrowserOrigin
  <2>2. PICK a : a = Canonical(e)
    OBVIOUS
  <2>3. /\ a.kind = "origin" /\ a.scheme = e.scheme /\ a.wild = e.wild /\ a.host = e.host
        /\ a.port = e.port /\ a.upper = e.upper
    BY <1>2, <2>2 DEF Canonical
  <2>4. e.wild \in BOOLEAN /\ e.upper \in BOOLEAN
    BY <1>2 DEF Entry
  <2>5. IsSuffix(e.host, origin.host)
          <=> \E i \in 1 .. Len(origin.host) :
                SubSeq(origin.host, i, Len(origin.host)) = e.host
    BY <2>1, WildHost
  <2>6. e.host = origin.host => IsSuffix(e.host, origin.host)
    <3>1. ASSUME e.host = origin.host PROVE SubSeq(origin.host, 1, Len(origin.host)) = e.host
      BY <2>1, <3>1, SubSeqFull DEF Hosts
    <3>2. Len(origin.host) \in Nat \ {0}
      BY <2>1, EmptySeq DEF Hosts
    <3> QED
      BY <2>5, <3>1, <3>2
  <2>7. MatchEntry(a, origin)
          <=> /\ ~ e.upper /\ e.scheme = origin.scheme /\ e.port = origin.port
              /\ e.host = origin.host \/ (e.wild /\ IsSuffix(e.host, origin.host))
    BY <2>3, <2>4, <2>6 DEF MatchEntry
  <2>8. Covers(e, origin)
          <=> /\ e.scheme = origin.scheme /\ Port(e) = Port(origin)
              /\ e.host = origin.host \/ (e.wild /\ IsSuffix(e.host, origin.host))
    BY <1>2, <2>5 DEF Covers
  <2>9. e.scheme = origin.scheme /\ e.port = origin.port => Port(e) = Port(origin)
    BY DEF Port
  <2>10. IsPlain(e) => ~ e.upper /\ e.port # DefaultPort(e.scheme)
    BY <1>2 DEF IsPlain
  <2>11. IsPlain(e) /\ e.scheme = origin.scheme => (Port(e) = Port(origin) <=> e.port = origin.port)
    BY <2>1, <2>10, PortsAgree
  <2> QED
    BY <2>2, <2>7, <2>8, <2>9, <2>10, <2>11
<1> QED
  BY <1>1, <1>2 DEF Entry

LEMMA InvMakesAdmitted == OriginsInv => AdmitsAsAsked
<1> SUFFICES ASSUME OriginsInv, NEW k \in Keys, NEW origin \in Headers
             PROVE  IF Restricting(asked[k])
                    THEN /\ TokenAdmits(allowed[k], origin) =>
                              origin # NoOrigin /\ \E e \in asked[k] : Covers(e, origin)
                         /\ origin # NoOrigin /\ (\E e \in asked[k] : IsPlain(e) /\ Covers(e, origin))
                              => TokenAdmits(allowed[k], origin)
                    ELSE TokenAdmits(allowed[k], origin)
  BY DEF AdmitsAsAsked
<1>1. PICK list : list = asked[k]
  OBVIOUS
<1>2. /\ allowed[k] = {Canonical(e) : e \in {x \in list : x.kind # "blank"}}
      /\ list \in Lists \cup {{}} /\ \A e \in list : e.kind # "bad"
  BY <1>1 DEF OriginsInv, Accepted, NormalizeOrigins, IsRejected
<1>3. \A e \in list : e \in Entry
  BY <1>2, ListsAssumption
<1>4. origin \in BrowserOrigin
  BY HeadersAssumption
<1>5. allowed[k] # {} <=> Restricting(list)
  BY <1>2 DEF Restricting
<1>6. CASE ~ Restricting(list)
  BY <1>1, <1>5, <1>6 DEF TokenAdmits
<1>7. CASE Restricting(list) /\ origin = NoOrigin
  BY <1>1, <1>5, <1>7 DEF TokenAdmits, MatchOrigin
<1>8. CASE Restricting(list) /\ origin # NoOrigin
  <2>1. TokenAdmits(allowed[k], origin)
          <=> \E e \in list : e.kind # "blank" /\ MatchEntry(Canonical(e), origin)
    BY <1>2, <1>5, <1>8 DEF TokenAdmits, MatchOrigin
  <2>2. ASSUME NEW e \in list
        PROVE  /\ e.kind # "blank" /\ MatchEntry(Canonical(e), origin) => Covers(e, origin)
               /\ IsPlain(e) /\ Covers(e, origin)
                    => e.kind # "blank" /\ MatchEntry(Canonical(e), origin)
    <3>1. CASE e.kind = "blank"
      BY <3>1 DEF Covers
    <3>2. CASE e.kind # "blank"
      BY <1>2, <1>3, <1>4, <1>8, <3>2, MatchCovers
    <3> QED
      BY <3>1, <3>2
  <2> QED
    BY <1>1, <1>8, <2>1, <2>2
<1> QED
  BY <1>6, <1>7, <1>8

\* A token admits the origins its administrator asked for and no others, for any
\* lists and any origins a browser sends: what normalizeOrigins, the column and
\* matchOrigin make of a list admits no origin that the list does not cover, and
\* all that its plainly spelled entries cover.
THEOREM OriginsAsAsked == MiddlewareSpec => []AdmitsAsAsked
BY OriginsInit, OriginsStep, InvMakesAdmitted, PTL DEF MiddlewareSpec
=============================================================================
