---------------------------- MODULE InheritanceMC ----------------------------
(***************************************************************************)
(* Two handlers, one named provider.  A value names the block or handler   *)
(* it was given in, so that it shows where a handler has it from.          *)
(***************************************************************************)

EXTENDS Inheritance

CONSTANTS h1, h2, n1

MCAuthenticators == {"bearer", "cookie", "query"}
MCDefaultAuthenticators == <<"bearer", "cookie">>
MCDefaultScope == <<"openid">>

Line(option, args)       == [option |-> option, args |-> args, block |-> <<>>]
Blocked(option, content) == [option |-> option, args |-> <<>>, block |-> content]

\* The lines with v for a value.
Pool(v) ==
    { Line("issuer", <<v>>), Line("username", <<v>>), Line("tls_insecure_skip_verify", <<>>),
      Line("scope", <<v>>), Line("authenticate", <<"query">>),
      Line("authenticate", <<"required", "default">>), Line("authenticate", <<"preserve_request">>),
      Line("protected_resource_metadata", <<"off">>),
      Blocked("protected_resource_metadata", << <<"audience">> >>),
      Blocked("token_params", << <<"k", v>>, <<"k", "w">> >>) }

\* Values that count for nothing, and errors.
Odd == { Line("scope", <<>>), Blocked("token_params", <<>>), Line("authenticate", <<>>),
         Line("issuer", <<>>), Line("authenticate", <<"magic">>), Line("user_token", <<>>),
         Line("postgres", <<"db">>) }

Block(name, lines) == [name |-> name, lines |-> lines]

\* The lines whose effect depends on what was there before, and one more.
Pairing(v) ==
    {l \in Pool(v) : l.option \in {"username", "scope", "authenticate", "token_params"}
                      \/ (l.option = "protected_resource_metadata" /\ l.block # <<>>)}

\* One block for a provider; or two, for one provider or both, in either order.
Blocks(v, lines) ==
    {Block(o, <<Line("issuer", <<v>>), l>>) : o \in {Default, n1}, l \in lines}

Further(v) == {Block(o, <<l>>) : o \in {Default, n1}, l \in Pool(v)}

MCFiles ==
    { <<>> } \union {<<b>> : b \in Blocks("a", Pool("a") \union Odd)}
             \union {<<b, c>> : b \in Blocks("a", Pairing("a")), c \in Further("b")}

MCDirectives ==
    [h \in {h1, h2} |->
       IF h = h1 THEN {<<>>} \union {<<l>> : l \in Pool("h")}
                    \union {<<l>> : l \in {l \in Odd : l.option \in {"scope", "issuer", "postgres"}}}
       ELSE {<<>>, <<Line("authenticate", <<"required">>), Line("issuer", <<"i">>)>>}]

=============================================================================
