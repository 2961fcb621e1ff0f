---------------------------- MODULE MCMiddleware ----------------------------
(***************************************************************************)
(* A small instance of Middleware: the lists an administrator types and    *)
(* the origins of the requests.                                            *)
(***************************************************************************)
EXTENDS Middleware, TLC

CONSTANTS k1, k2, c1, c2

Site == <<"example", "com">>
App  == <<"app">> \o Site
Shop == <<"shop", "net">>
News == <<"news", "org">>

\* Each host has an entry of a kind of its own, so that one list has them all.
MCLists ==
    {{},
     {TypedOrigin("https", FALSE, App, "", FALSE, TRUE), Typed("bad")},
     {Typed("blank"),
      TypedOrigin("https", TRUE, Site, "", FALSE, TRUE),
      TypedOrigin("http", FALSE, Shop, "80", FALSE, FALSE),
      TypedOrigin("https", FALSE, Shop, "8443", FALSE, FALSE),
      TypedOrigin("https", FALSE, News, "", TRUE, FALSE)}}

MCHeaders ==
    {NoOrigin, Origin("https", Site, ""), Origin("https", App, ""), Origin("http", App, ""),
     Origin("http", Shop, ""), Origin("https", Shop, "8443"), Origin("https", News, "")}

OneList == {{}}
OneHeader == {NoOrigin}

ConsoleSymmetry == Permutations(Keys) \cup Permutations(Editors)
=============================================================================
