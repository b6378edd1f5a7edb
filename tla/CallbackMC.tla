----------------------------- MODULE CallbackMC -----------------------------
(***************************************************************************)
(* Two tabs on two hosts of one domain, with every combination of options. *)
(***************************************************************************)

EXTENDS Callback

CONSTANTS t1, t2

\* One tab at the entrance of app, the other at a page of wiki.
MCStarts(first, second) == [t \in {t1, t2} |-> IF t = t1 THEN first ELSE second]
TwoPages == MCStarts([host |-> "app", path |-> <<"docs">>],
                     [host |-> "wiki", path |-> <<"docs", "start">>])

MCHostsUnder(d) == IF d = "example" THEN {"app", "wiki", "auth"} ELSE {d}

MCCanonical(h) == IF h = "app:443" THEN "app" ELSE h

Ref(scheme, host, rooted, path) ==
    [scheme |-> scheme, host |-> host, rooted |-> rooted, path |-> path]

Redirects ==
    { NoURL,
      Ref("", "", TRUE, <<"docs", "cb">>),          \* /docs/cb
      Ref("", "", FALSE, <<"cb">>),                 \* cb
      Ref("", "", FALSE, <<"oauth2", "cb">>),       \* oauth2/cb
      Ref("", "auth", TRUE, <<"cb">>),              \* //auth/cb
      Ref("https", "app", TRUE, <<"cb">>),          \* https://app/cb
      Ref("https", "app:443", TRUE, <<"docs">>),    \* https://app:443/docs
      Ref("http", "app", TRUE, <<"docs", "cb">>) }  \* http://app/docs/cb

MCOptions ==
    [redirect_url : Redirects, domain : {"", "example", "wiki"},
     path : {<<>>, <<"docs">>, <<"oauth2">>},
     same_site : {"lax", "strict", "none"}, insecure : BOOLEAN]

MCSites ==
    {[scheme |-> s, proxy |-> p] : s \in {"http", "https"}, p \in {"none", "forwarding"}}
      \union {[scheme |-> "https", proxy |-> "offloading"]}

=============================================================================
