------------------------------- MODULE Claims -------------------------------
(***************************************************************************)
(* The two ways from what the provider says of a person to a session: from *)
(* the ID token of a bearer request (session.go), and from the ID token    *)
(* and the user info of an interactive login (cookie.go).                  *)
(*                                                                         *)
(* Claims are a function from keys to values.  A value is a record:        *)
(* isArray, isNull, the set of the strings in it (its own, or those of the *)
(* list; none for a number, null or an object), and inner, the values      *)
(* inside an object or a list, a function from the sequences of keys that  *)
(* lead to them.  Where no session comes of the claims, the set of         *)
(* sessions is empty.                                                      *)
(*                                                                         *)
(* There are two ways to ask for a claim.  gjson takes a name for a path   *)
(* and splits it at its dots, where no backslash stands before them; a map *)
(* in Go takes it for a key.                                               *)
(***************************************************************************)

EXTENDS Sequences

CONSTANT Path(_)  \* Path(name): the keys of the path, at least one

\* The key of the claims that a name leads to, or into.
Key(name) == Head(Path(name))

\* What is at a path inside a value: one value, or none.
Inside(v, path) == IF path = <<>> THEN {v} ELSE {v.inner[p] : p \in {path} \cap DOMAIN v.inner}

\* gjson's Get: one value, or none.
ClaimAt(claims, name) ==
    IF Key(name) \in DOMAIN claims THEN Inside(claims[Key(name)], Tail(Path(name))) ELSE {}

IsString(v) == ~v.isArray /\ v.strings # {}

\* NewFromIDToken: gjson looks the name up as a path, null is no string.
TokenUser(token, name) == UNION {v.strings : v \in {w \in ClaimAt(token, name) : IsString(w)}}

\* extractUsernameClaim: the name is a key; a string can be unmarshalled from
\* null, as the empty one.
InfoUser(info, name) ==
    IF name \notin DOMAIN info THEN {}
    ELSE IF info[name].isNull THEN {""}
    ELSE {u \in info[name].strings : IsString(info[name])}

\* Mutant of ExtractClaims: lists are left out.
ExtractClaimsOfText(dst, src, keys) ==
    LET taken == {k \in keys \cap DOMAIN src : ~src[k].isArray}
    IN  [k \in DOMAIN dst \union taken |-> IF k \in taken THEN src[k] ELSE dst[k]]

\* extractClaims: those of src with these keys, over the ones in dst.
ExtractClaims(dst, src, keys) ==
    LET taken == keys \cap DOMAIN src
    IN  [k \in DOMAIN dst \union taken |-> IF k \in taken THEN src[k] ELSE dst[k]]

Session(uid, claims) == [anonymous |-> FALSE, uid |-> uid, claims |-> claims]

\* The session of a bearer request: all claims of the token.
NewFromIDToken(name, token) == {Session(u, token) : u \in TokenUser(token, name)}

\* That of a login: the claims the options copy, those of the user info over
\* those of the token; the name comes from the user info.
SessionOfLogin(name, token, info, options) ==
    {Session(u, ExtractClaims(ExtractClaims(<<>>, token, options.id_claims), info, options.claims)) :
        u \in InfoUser(info, name)}

=============================================================================
