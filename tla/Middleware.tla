----------------------------- MODULE Middleware -----------------------------
(***************************************************************************)
(* The chain in front of the tracking handlers: TokenAuth with its check   *)
(* of the origin, around RateLimit, while administrators change the        *)
(* origins a token may be used from.  UpdateToken, DisableToken and        *)
(* EnableToken read the row of the token and write all of it back later:   *)
(* a frame of `edits` is between the two.  (CORS answers a preflight       *)
(* request before TokenAuth and touches nothing; tokens that are unknown   *)
(* or disabled are refused in Tracking.)                                   *)
(***************************************************************************)
EXTENDS RateLimit, Origins

CONSTANTS
    Editors,    \* console requests that may be in flight together
    Lists,      \* lists of entries an administrator may type
    Headers     \* Origin headers a request may have

ASSUME ListsAssumption == \A list \in Lists : \A e \in list : e \in Entry
ASSUME HeadersAssumption == \A origin \in Headers : origin \in BrowserOrigin

VARIABLES
    allowed,    \* for each token its allowed_origins
    asked,      \* history: the list they were made from
    edits       \* the frames

listVars == <<allowed, asked, edits>>
middlewareVars == <<rateVars, listVars>>

\* CreateToken has written the list a token starts with, if it was given one.
Accepted == {list \in Lists \cup {{}} : ~ IsRejected(list)}
Columns == {NormalizeOrigins(list) : list \in Accepted}

\* What will be written to the column of a token, and what it was made from.
NoEdit == [op |-> "idle"]
Edit(k, origins, list) == [token |-> k, origins |-> origins, asked |-> list]

MiddlewareInit ==
    /\ RateInit
    /\ asked \in [Keys -> Accepted]
    /\ allowed = [k \in Keys |-> Stored(NormalizeOrigins(asked[k]))]
    /\ edits = [a \in Editors |-> NoEdit]

\* What TokenAuth must not be: inside RateLimit instead of around it.
RateLimitAround(k, origin) ==
    \/ TokenAdmits(allowed[k], origin) /\ (Serve(k) \/ Refuse(k))
    \/ /\ ~ TokenAdmits(allowed[k], origin)
       /\ Refilled(bucket[k]) > 0
       /\ bucket' = [bucket EXCEPT ![k] = [tokens |-> Refilled(@) - 1, idle |-> 0]]
       /\ Answer(k, "forbidden")
       /\ UNCHANGED <<quiet, window, served>>

TokenAuth(k, origin) ==
    \/ TokenAdmits(allowed[k], origin) /\ (Serve(k) \/ Refuse(k))
    \/ /\ ~ TokenAdmits(allowed[k], origin)
       /\ Answer(k, "forbidden")
       /\ UNCHANGED <<bucket, quiet, window, served>>

Track(k, origin) == TokenAuth(k, origin) /\ UNCHANGED listVars

\* UpdateToken with a new list (400 and no frame if an entry of it is bad), or one
\* of the three requests that leave the list as they read it: another request may
\* replace it before they write it back.
ReadToken(a) ==
    /\ edits[a] = NoEdit
    /\ \E k \in Keys :
         \/ \E list \in Lists :
              /\ ~ IsRejected(list)
              /\ edits' = [edits EXCEPT ![a] = Edit(k, NormalizeOrigins(list), list)]
         \/ edits' = [edits EXCEPT ![a] = Edit(k, allowed[k], asked[k])]
    /\ answer' = NoAnswer
    /\ UNCHANGED <<bucket, quiet, window, served, allowed, asked>>

WriteToken(a) ==
    /\ edits[a] # NoEdit
    /\ allowed' = [allowed EXCEPT ![edits[a].token] = Stored(edits[a].origins)]
    /\ asked' = [asked EXCEPT ![edits[a].token] = edits[a].asked]
    /\ edits' = [edits EXCEPT ![a] = NoEdit]
    /\ answer' = NoAnswer
    /\ UNCHANGED <<bucket, quiet, window, served>>

\* The database refused the UPDATE: 500.
WriteFails(a) ==
    /\ edits[a] # NoEdit
    /\ edits' = [edits EXCEPT ![a] = NoEdit]
    /\ answer' = NoAnswer
    /\ UNCHANGED <<bucket, quiet, window, served, allowed, asked>>

Stopped == Restart /\ edits' = [a \in Editors |-> NoEdit] /\ UNCHANGED <<allowed, asked>>

MiddlewareNext ==
    \/ \E k \in Keys, origin \in Headers : Track(k, origin)
    \/ \E a \in Editors : ReadToken(a) \/ WriteToken(a) \/ WriteFails(a)
    \/ (Tick \/ Observe) /\ UNCHANGED listVars
    \/ Stopped

MiddlewareSpec == MiddlewareInit /\ [][MiddlewareNext]_middlewareVars

MiddlewareTypeOK ==
    /\ RateTypeOK
    /\ allowed \in [Keys -> Columns]
    /\ edits \in [Editors ->
                  {NoEdit} \cup [token : Keys, origins : Columns, asked : Accepted]]

-----------------------------------------------------------------------------
Restricting(list) == \E e \in list : e.kind # "blank"

\* A token is usable from where its administrator asked and from nowhere else:
\* what typing, normalising, storing and comparing make of a list admits no
\* origin the list does not cover, and all it covers if its entries are spelled
\* as browsers spell origins; and writing a row back, as often and as late as it
\* may be, changes nothing of this.  (The list is the one last written, which a
\* request that only renames may have brought back.)
AdmitsAsAsked ==
    \A k \in Keys : \A origin \in Headers :
        IF Restricting(asked[k])
        THEN /\ TokenAdmits(allowed[k], origin) =>
                  origin # NoOrigin /\ \E e \in asked[k] : Covers(e, origin)
             /\ origin # NoOrigin /\ (\E e \in asked[k] : IsPlain(e) /\ Covers(e, origin))
                  => TokenAdmits(allowed[k], origin)
        ELSE TokenAdmits(allowed[k], origin)

-----------------------------------------------------------------------------
(* Refinement.                                                              *)

\* What a bucket holds, in parts of a token: its tokens and the refill it has
\* not been given yet, up to a full bucket.
Content(b) == Capped(b.tokens * Minute + b.idle * RequestsPerMinute, RequestsPerMinute * Minute)

Credit == [k \in Keys |-> Content(bucket[k])]

LimiterAnswer == IF answer.status \in {"served", "limited"} THEN answer ELSE NoAnswer

Limiter == INSTANCE TokenBucket WITH credit <- Credit, verdict <- LimiterAnswer

\* The limiter, with its refill at the next request, truncated to whole tokens and
\* the clock of the bucket moved on, behind the check of the origin, is a bucket
\* that fills evenly: whoever has credit is served, nobody else is, what is lost
\* by truncation is less than a token per request, and a refused origin, the
\* change of a token's origins and the requests of other keys cost nothing.
TokenBucketSpec == Limiter!TokenBucketSpec
=============================================================================
