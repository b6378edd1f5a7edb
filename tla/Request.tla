------------------------------- MODULE Request -------------------------------
(***************************************************************************)
(* What the middleware looks at in an HTTP request.                        *)
(*                                                                         *)
(*   method    "GET" or another                                            *)
(*   path      "callback" when IsCallbackURL holds, "wellknown" for        *)
(*             /.well-known/oauth-protected-resource, otherwise a resource *)
(*   owner     what a placeholder of a rule expands to for this request    *)
(*   csrf      a callback whose CSRF cookie decodes, without an error      *)
(*             parameter                                                   *)
(*   long      a login's cookie with the URL of the request in it is too    *)
(*             long to be encoded                                          *)
(*   mode, dest, upgrade, accept                                           *)
(*             Sec-Fetch-Mode, Sec-Fetch-Dest, Upgrade-Insecure-Requests   *)
(*             and Accept                                                  *)
(*   creds     for each authentication method, the credential it finds     *)
(***************************************************************************)

\* goautoneg.Negotiate(accept, "text/html") = "text/html": a wildcard will do.
AcceptsHTML(q) == q.accept \in {"text/html", "*/*"}

IsBrowserInteractive(q) ==
    \/ q.mode = "navigate"
    \/ q.dest \in {"document", "iframe"}
    \/ q.dest = "empty" /\ q.upgrade /\ AcceptsHTML(q)
    \/ q.dest = "" /\ AcceptsHTML(q)

=============================================================================
