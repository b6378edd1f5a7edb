----------------------------- MODULE Caddyfile ------------------------------
(***************************************************************************)
(* What the lines of a block make of the provider module they are about:   *)
(* OIDCProviderModule.UnmarshalCaddyfileToken and what it calls            *)
(* (provider_module.go, resource.go, authenticator/authenticators.go).     *)
(*                                                                         *)
(* A line has the name of an option, the arguments behind it, and the      *)
(* content of the block behind those.  The client's ID and secret are      *)
(* options like the issuer, and left out.  An authenticator is its name,   *)
(* whatever its own options are.                                           *)
(***************************************************************************)

EXTENDS SequencesExt

CONSTANTS
    Unset,                 \* the zero value: "", false, nil
    Authenticators,        \* the registered authenticators
    DefaultAuthenticators  \* the two of the default set

Lines == [option : STRING, args : Seq(STRING), block : Seq(Seq(STRING))]

\* What OIDCProviderModule refers to for authenticators and metadata.
AuthenticatorSets ==
    [raw : Seq(Authenticators), loaded : Seq(Authenticators),
     required : BOOLEAN, preserve : BOOLEAN]

MetadataConfigurations == [disable : BOOLEAN, audience : BOOLEAN]

\* The zero value is neither of these, and no list.
ASSUME CaddyfileAssumption ==
    /\ DefaultAuthenticators \in Seq(Authenticators)
    /\ Unset \notin Seq(STRING)
    /\ Unset \notin AuthenticatorSets /\ Unset \notin MetadataConfigurations

\* Fields of OIDCProviderModule, values and references.
Values     == {"issuer", "username", "tls_insecure_skip_verify"}
References == {"scope", "authenticators", "metadata", "token_params"}
Fields     == Values \union References

Nothing == [f \in Fields |-> Unset]

EmptySet == [raw |-> <<>>, loaded |-> <<>>, required |-> FALSE, preserve |-> FALSE]

Flags == {"default", "required", "preserve_request"}

Else(value, default) == IF value = Unset THEN default ELSE value

\* An empty slice or map is left out of the JSON the Caddyfile is turned into,
\* and is nil when that is read.
NotEmpty(value) == IF value = <<>> THEN Unset ELSE value

Words(l) == ToSet(l.args)

\* What UnmarshalCaddyfile takes; an argument too many would be an option, and
\* there is none of that name.
LineAccepted(l) ==
    CASE l.option \in {"issuer", "username", "postgres"} -> Len(l.args) = 1
      [] l.option = "tls_insecure_skip_verify" -> l.args = <<>>
      [] l.option = "scope" -> TRUE
      [] l.option = "authenticate" -> Words(l) \subseteq Authenticators \union Flags
      [] l.option = "protected_resource_metadata" ->
           /\ l.args \in {<<>>, <<"off">>}
           /\ \A b \in ToSet(l.block) : b = <<"audience">>
      [] l.option = "token_params" -> \A b \in ToSet(l.block) : Len(b) = 2
      [] OTHER -> FALSE

\* The authenticators a word behind authenticate stands for.
Named(w) == IF w = "default" THEN DefaultAuthenticators ELSE IF w \in Flags THEN <<>> ELSE <<w>>

\* The words behind authenticate, in a line or in a block: authenticators are
\* appended to those of earlier lines.
WithAuthenticators(set, words) ==
    [set EXCEPT !.raw = @ \o FlattenSeq([i \in DOMAIN words |-> Named(words[i])]),
                !.required = @ \/ "required" \in ToSet(words),
                !.preserve = @ \/ "preserve_request" \in ToSet(words)]

Metadata(l) == [disable |-> l.args = <<"off">>, audience |-> <<"audience">> \in ToSet(l.block)]

\* A later value of a key replaces an earlier one.
TokenParams(l) == FoldLeft(LAMBDA m, b : (b[1] :> b[2]) @@ m, <<>>, l.block)

\* Module m after line l: strings and blocks replace what there was, scopes and
\* authenticators are added to it.
WithLine(m, l) ==
    CASE l.option \in {"issuer", "username"} -> [m EXCEPT ![l.option] = l.args[1]]
      [] l.option = "tls_insecure_skip_verify" -> [m EXCEPT ![l.option] = TRUE]
      [] l.option = "scope" -> [m EXCEPT !.scope = NotEmpty(Else(@, <<>>) \o l.args)]
      [] l.option = "authenticate" ->
           [m EXCEPT !.authenticators = WithAuthenticators(Else(@, EmptySet), l.args)]
      [] l.option = "protected_resource_metadata" -> [m EXCEPT !.metadata = Metadata(l)]
      [] l.option = "token_params" -> [m EXCEPT !.token_params = NotEmpty(TokenParams(l))]
      [] OTHER -> m

WithLines(m, lines) ==
    LET after[i \in 0 .. Len(lines)] == IF i = 0 THEN m ELSE WithLine(after[i - 1], lines[i])
    IN  after[Len(lines)]

-----------------------------------------------------------------------------
(* What lines say, all of one module taken together *)

Of(lines, option) == {i \in DOMAIN lines : lines[i].option = option}

ArgsOf(lines, option) ==
    FlattenSeq([i \in DOMAIN lines |-> IF lines[i].option = option THEN lines[i].args ELSE <<>>])

\* The last line with the option, seen through F.
LastOf(lines, option, F(_)) ==
    IF Of(lines, option) = {} THEN Unset ELSE F(lines[Max(Of(lines, option))])

Said(lines) ==
    LET First(l) == Head(l.args)
        Yes(l)   == TRUE
        Given(l) == NotEmpty(TokenParams(l))
    IN  [issuer |-> LastOf(lines, "issuer", First),
         username |-> LastOf(lines, "username", First),
         tls_insecure_skip_verify |-> LastOf(lines, "tls_insecure_skip_verify", Yes),
         scope |-> NotEmpty(ArgsOf(lines, "scope")),
         authenticators |->
           IF Of(lines, "authenticate") = {} THEN Unset
           ELSE WithAuthenticators(EmptySet, ArgsOf(lines, "authenticate")),
         metadata |-> LastOf(lines, "protected_resource_metadata", Metadata),
         token_params |-> LastOf(lines, "token_params", Given)]

=============================================================================
