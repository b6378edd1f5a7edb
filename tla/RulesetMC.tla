----------------------------- MODULE RulesetMC ------------------------------
(***************************************************************************)
(* Small files for Ruleset: blocks of up to two lines out of a pool that   *)
(* has each matcher with every number of arguments, and a few of three;    *)
(* entries in all forms, alone or next to another.                         *)
(***************************************************************************)

EXTENDS Ruleset

Stars == INSTANCE Wildcard WITH Star <- "*"

MCMatchWildcard(pattern, value) == Stars!StarMatches(pattern, value)
MCMeantBy(pattern, value) == Stars!StarMeans(pattern, value)

MCNormalizeEmail(e) == e

\* gjson's path of a name: a dot separates two keys, a backslash keeps it in one.
MCPath(name) ==
    CASE name = "realm.roles" -> <<"realm", "roles">>
      [] name = "a.b" -> <<"a", "b">>
      [] name = "a\\.b" -> <<"a.b">>
      [] OTHER -> <<name>>

MCExpand(q, text) == IF text = "{path}" THEN q.path ELSE text

MCParts(w) ==
    CASE w = "editor," -> {"editor"}
      [] w = "editor,staff" -> {"editor", "staff"}
      [] w = "," -> {}
      [] OTHER -> {w}

MCAuthMethods == {"none", "bearer", "cookie"}

-----------------------------------------------------------------------------
(* Files *)

Line(m, args) == [matcher |-> m, args |-> args]

LinePool ==
    { Line("user", <<>>), Line("user", <<"ann">>), Line("user", <<"*n*">>),
      Line("user", <<"bob", "ann">>), Line("user", <<"bob", "cy", "ann">>),
      Line("anonymous", <<>>), Line("anonymous", <<"x">>),
      Line("claim", <<>>), Line("claim", <<"groups">>), Line("claim", <<"groups", "staff">>),
      Line("claim", <<"groups", "st*", "*ors">>), Line("claim", <<"email", "*@x">>),
      Line("claim", <<"realm.roles", "staff">>), Line("claim", <<"realm.roles">>),
      Line("claim", <<"a.b">>), Line("claim", <<"a\\.b", "ev*">>),
      Line("role", <<"editor">>), Line("role", <<"editor,">>), Line("role", <<"editor", "staff">>),
      Line("auth_method", <<"cookie">>), Line("auth_method", <<"sms">>),
      Line("role", <<"{path}">>), Line("path", <<"public">>) }

GoodLines ==
    { Line("user", <<"ann">>), Line("user", <<"b*">>), Line("claim", <<"groups", "staff">>),
      Line("claim", <<"groups", "*tors">>), Line("role", <<"editor">>), Line("role", <<"staff">>),
      Line("auth_method", <<"cookie">>), Line("path", <<"public">>) }

Blocks == UNION {[1 .. n -> LinePool] : n \in 0 .. 2} \union [1 .. 3 -> GoodLines]

Entry(action, form, args, lines) ==
    [action |-> action, form |-> form, args |-> args, lines |-> lines]

Roles == { <<>>, <<"editor">>, <<"editor,", "staff">>, <<"editor,staff">>, <<",">> }

Entries(action) ==
    {Entry(action, "block", <<>>, b) : b \in Blocks}
      \union {Entry(action, "bare", r, <<>>) : r \in Roles}

\* What an entry is put next to.
Company ==
    { Entry("allow", "block", <<"all">>, <<Line("user", <<"*">>)>>),
      Entry("allow", "bare", <<"editor">>, <<>>),
      Entry("deny", "block", <<"no">>, <<Line("claim", <<"groups", "staff">>)>>) }

MCFiles ==
    {<<Entry(a, "line", r, <<>>)>> : a \in {"allow", "deny"}, r \in Roles}
      \union {<<e>> : e \in Entries("allow")}
      \union {<<d, c>> : d \in Entries("deny"), c \in Company}
      \union {<<c, e>> : e \in {Entry("allow", "block", <<>>, b) : b \in [1 .. 2 -> GoodLines]},
                         c \in Company}

-----------------------------------------------------------------------------
(* People *)

Value(isArray, strings) == [isArray |-> isArray, strings |-> strings, isNull |-> FALSE,
                           inner |-> <<>>]
Text(s) == Value(FALSE, {s})
List(ss) == Value(TRUE, ss)
Null == [Value(FALSE, {}) EXCEPT !.isNull = TRUE]
Object(inner) == [Value(FALSE, {}) EXCEPT !.inner = inner]

\* The provider tells token and user info the same.
Same(claims) == [token |-> claims, info |-> claims]

ann == Same([sub |-> Text("ann"), email |-> Text("ann@x"), groups |-> List({"staff", "editors"})])
bob == Same([sub |-> Text("bob"), email |-> List({"bob@x"}), groups |-> Text("staff")])

\* Her groups are in the token only, his address in the user info only.
cyn == [token |-> [sub |-> Text("cyn"), groups |-> List({"editors"})],
        info  |-> [sub |-> Text("cyn")]]
dan == [token |-> [sub |-> Text("dan"), groups |-> Value(FALSE, {})],
        info  |-> [sub |-> Text("dan"), email |-> Text("dan@y")]]

\* The user info has no name to give, another address, and a claim with a dot.
eve == [token |-> ("a.b" :> Text("eva")) @@ [sub |-> Text("eve"), email |-> Text("ann@x")],
        info  |-> ("a.b" :> Text("eva")) @@ [sub |-> Null, email |-> Text("eve@x")]]

\* His roles are inside a claim of the token.
fay == [token |-> [sub |-> Text("fay"), realm |-> Object(<<"roles">> :> List({"staff"}))],
        info  |-> [sub |-> Text("fay")]]

MCPeople == {ann, bob, cyn, dan, eve, fay}

MCCookieOptions ==
    { [claims |-> {}, id_claims |-> {}],
      [claims |-> {"email", "groups"}, id_claims |-> {}],
      [claims |-> {"email"}, id_claims |-> {"email", "groups"}],
      [claims |-> {"email", "a.b"}, id_claims |-> {"realm", "groups"}],
      [claims |-> {"email"}, id_claims |-> {"realm.roles"}] }

MCRuntimes ==
    { [e \in {"ann@x", "bob@x"} |-> [name |-> "n", roles |-> {"editor"}]],
      [e \in {"dan@y", "eve@x"} |-> [name |-> "n", roles |-> {"staff", "public"}]] }

MCRequests == {[path |-> "public"], [path |-> "private"]}

=============================================================================
