------------------------------ MODULE Origins ------------------------------
(***************************************************************************)
(* The origins a token may be used from: normalizeOrigins, which the       *)
(* console handlers apply to what an administrator types, and matchOrigin, *)
(* which TokenAuth applies to the Origin header of a request.              *)
(*                                                                         *)
(* A host is the sequence of its labels.  `wild` is hasWild: the string    *)
(* typed has "://*." in it.  (Nothing asks that it stands in front of the  *)
(* host: a path that contains it turns the entry into a wildcard too.)     *)
(* url.Parse lowers the case of a scheme but not of a host; `upper` says   *)
(* that the host was typed with a capital.  A list is the set of its       *)
(* entries: duplicates are dropped, the order is not used.                 *)
(***************************************************************************)
EXTENDS Sequences, SequencesExt

\* An entry as it is typed: `kind` is "blank", "*", "bad" (no scheme or host, or
\* a scheme other than http and https) or "origin".
Typed(kind) == [kind |-> kind]
TypedOrigin(scheme, wild, host, port, upper, path) ==
    [kind |-> "origin", scheme |-> scheme, wild |-> wild, host |-> host, port |-> port,
     upper |-> upper, path |-> path]

\* A host has a label at least ("https://*." has none and passes url.Parse, but
\* no browser sends an origin that could match it: it is left out).
Hosts == Seq(STRING) \ {<<>>}
Schemes == {"http", "https"}
Entry ==
    [kind : {"blank", "*", "bad"}] \cup
    [kind : {"origin"}, scheme : Schemes, wild : BOOLEAN, host : Hosts, port : STRING,
     upper : BOOLEAN, path : BOOLEAN]

\* As it is kept: path and trailing slash are gone.
AnyOrigin == [kind |-> "*"]
Canonical(e) ==
    IF e.kind = "*" THEN AnyOrigin
    ELSE [kind |-> "origin", scheme |-> e.scheme, wild |-> e.wild, host |-> e.host,
          port |-> e.port, upper |-> e.upper]

IsRejected(list) == \E e \in list : e.kind = "bad"

NormalizeOrigins(list) == {Canonical(e) : e \in {x \in list : x.kind # "blank"}}

\* What comes back of a list that was written to the column and read again:
\* encodeOrigins joins the entries that are not blank by newlines (no entry that
\* was parsed has one), decodeOrigins splits them and drops blank ones.
Stored(list) == {e \in list : e.kind # "blank"}

-----------------------------------------------------------------------------
\* An Origin header, as a browser sends it: lower case, no default port.  No
\* header is NoOrigin.
NoOrigin == [scheme |-> "none"]
Origin(scheme, host, port) == [scheme |-> scheme, host |-> host, port |-> port]

DefaultPort(scheme) == IF scheme = "https" THEN "443" ELSE "80"
BrowserOrigin ==
    {NoOrigin} \cup {o \in [scheme : STRING, host : Hosts, port : STRING] :
                       o.port # DefaultPort(o.scheme)}

\* What MatchEntry must not be: without the scheme.
MatchHost(a, origin) ==
    \/ a.kind = "*"
    \/ /\ a.kind = "origin" /\ ~ a.upper /\ a.port = origin.port
       /\ IF a.wild THEN IsSuffix(a.host, origin.host) ELSE a.host = origin.host

\* "https://*.host" stands for host and all hosts below it.
MatchEntry(a, origin) ==
    \/ a.kind = "*"
    \/ /\ a.kind = "origin" /\ ~ a.upper
       /\ a.scheme = origin.scheme /\ a.port = origin.port
       /\ IF a.wild THEN IsSuffix(a.host, origin.host) ELSE a.host = origin.host

MatchOrigin(allowed, origin) ==
    origin # NoOrigin /\ \E a \in allowed : MatchEntry(a, origin)

\* An empty list restricts nothing.
TokenAdmits(allowed, origin) == allowed # {} => MatchOrigin(allowed, origin)

-----------------------------------------------------------------------------
(* The meaning of a list, as RFC 6454 compares origins: without regard to   *)
(* the case of the host, and with the port of the scheme where none is.     *)

Port(o) == IF o.port = "" THEN DefaultPort(o.scheme) ELSE o.port

Covers(e, origin) ==
    \/ e.kind = "*"
    \/ /\ e.kind = "origin" /\ e.scheme = origin.scheme /\ Port(e) = Port(origin)
       /\ \/ e.host = origin.host
          \/ e.wild /\ \E i \in 1 .. Len(origin.host) : SubSeq(origin.host, i, Len(origin.host)) = e.host

\* As a browser would spell it.
IsPlain(e) == e.kind # "origin" \/ (~ e.upper /\ e.port # DefaultPort(e.scheme))
=============================================================================
