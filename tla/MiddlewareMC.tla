---------------------------- MODULE MiddlewareMC ----------------------------
(***************************************************************************)
(* Small worlds for Middleware.  The configurations and the requests of    *)
(* each run are definitions here; its .cfg picks them.                     *)
(***************************************************************************)

EXTENDS Middleware, TLC

-----------------------------------------------------------------------------
(* The operators of the environment *)

\* The addresses of the directory are lower case; alice's token says otherwise.
MCNormalizeEmail(e) == IF e = "Alice@x" THEN "alice@x" ELSE e

\* Enough of MatchWildcard for the patterns below.
MCMatchWildcard(pattern, value) == pattern = "*" \/ pattern = value

\* No name below has a dot in it.
MCPath(name) == <<name>>

\* The replacer knows one placeholder.
MCExpand(q, text) == IF text = "{owner}" THEN q.owner ELSE text

-----------------------------------------------------------------------------
(* People *)

Text(s) == [isArray |-> FALSE, isNull |-> FALSE, strings |-> {s}, inner |-> <<>>]
List(ss) == [isArray |-> TRUE, isNull |-> FALSE, strings |-> ss, inner |-> <<>>]

alice == [anonymous |-> FALSE, uid |-> "alice",
          claims |-> ("email" :> Text("Alice@x")) @@ ("groups" :> List({"staff"}))]
bob   == [anonymous |-> FALSE, uid |-> "bob",
          claims |-> ("email" :> Text("bob@x")) @@ ("groups" :> List({"staff", "banned"}))]
carol == [anonymous |-> FALSE, uid |-> "carol", claims |-> ("email" :> List({"carol@x"}))]

MCSessions == {alice, bob, carol}

User(roles) == [name |-> "n", roles |-> roles]

MCDirectories ==
    { ("alice@x" :> User({"editor"})) @@ ("carol@x" :> User({"editor"})),
      ("alice@x" :> User({"editor", "suspended"})) @@ ("bob@x" :> User({"editor"})) }

MCMethods == {"bearer", "query", "cookie"}

-----------------------------------------------------------------------------
(* Matchers and rules *)

AnyUser      == [kind |-> "user", users |-> {}]
Owner        == [kind |-> "user", users |-> {"{owner}"}]
Nobody       == [kind |-> "anonymous"]
Banned       == [kind |-> "claim", claims |-> {[name |-> "groups", values |-> {"banned"}]}]
HasGroups    == [kind |-> "claim", claims |-> {[name |-> "groups", values |-> {}]}]
ByCookie     == [kind |-> "auth_method", methods |-> {"cookie"}]
Role(r)      == [kind |-> "role", roles |-> {r}]
NoRoles      == [kind |-> "role", roles |-> {}]
OnPath(p)    == [kind |-> "request", paths |-> {p}, failing |-> {"broken"}]
Not(ms)      == [kind |-> "not", sets |-> <<ms>>]

Allow(ms) == [action |-> "allow", matchers |-> ms]
Deny(ms)  == [action |-> "deny", matchers |-> ms]

\* Rules with two matchers come in both orders.
RulePool ==
    { Allow(<<AnyUser>>), Allow(<<Owner, HasGroups>>), Allow(<<Role("editor")>>),
      Allow(<<Nobody, OnPath("public")>>), Allow(<<>>),
      Deny(<<Banned>>), Deny(<<Role("suspended")>>),
      Deny(<<OnPath("public"), Role("editor")>>), Deny(<<Role("editor"), OnPath("public")>>),
      Deny(<<ByCookie>>), Deny(<<Not(<<HasGroups>>)>>), Allow(<<Not(<<Role("suspended")>>)>>),
      Deny(<<NoRoles>>), Deny(<<Nobody, OnPath("public")>>) }

\* The rules whose order is told apart three deep.
ShortPool ==
    { Allow(<<AnyUser>>), Allow(<<Role("editor")>>), Deny(<<Banned>>),
      Deny(<<Role("suspended")>>) }

\* Validate refuses a rule set without an allow rule.
RuleLists ==
    {l \in RulePool \X RulePool \union ShortPool \X ShortPool \X ShortPool :
        \E i \in 1 .. Len(l) : l[i].action = "allow"}

-----------------------------------------------------------------------------
(* Requests *)

None == [status |-> "absent", session |-> alice]
Good(s) == [status |-> "good", session |-> s]

NoCreds == [m \in MCMethods |-> None]
With(m, c) == [NoCreds EXCEPT ![m] = c]

\* A browser navigation to a path.
Get(path, creds) ==
    [method |-> "GET", path |-> path, owner |-> "alice", csrf |-> TRUE, long |-> FALSE,
     mode |-> "navigate", dest |-> "document", upgrade |-> TRUE,
     accept |-> "text/html", creds |-> creds]

\* The same with a URL that does not fit into a cookie.
Long(q) == [q EXCEPT !.long = TRUE]

\* The same from a program, which says nothing about itself.
Call(path, creds) ==
    [Get(path, creds) EXCEPT !.mode = "", !.dest = "", !.upgrade = FALSE,
                             !.accept = "application/json"]

-----------------------------------------------------------------------------
(* Run "requests", rules: rule lists in every order, a handful of callers *)

PolicyConfigs ==
    { [authenticators |-> <<"bearer", "cookie">>, required |-> FALSE, preserve |-> FALSE,
       metadata |-> FALSE, postgres |-> TRUE, rules |-> l] : l \in RuleLists }

PolicyInputs ==
    { Get("public", NoCreds), Call("broken", NoCreds),
      Get("public", With("cookie", Good(alice))), Get("private", With("cookie", Good(carol))),
      Get("private", With("cookie", Good(bob))) }

-----------------------------------------------------------------------------
(* Run "requests", authentication: every combination of credentials *)

Status(st, s) == [status |-> st, session |-> s]

\* A different person behind each method, to see who is believed.
AllCreds ==
    {[bearer |-> Status(b, alice), query |-> Status(q, bob), cookie |-> Status(c, carol)] :
        b \in Statuses,
        q \in {"absent", "good", "expired", "nouid", "invalid"},
        c \in {"absent", "good", "expired", "invalid"}}

AuthenticationInputs ==
    {Get("private", creds) : creds \in AllCreds}
      \union {Call("private", NoCreds), Call("wellknown", NoCreds), Long(Get("private", NoCreds)),
              [Call("private", NoCreds) EXCEPT !.method = "POST"],
              Get("callback", NoCreds), [Get("callback", NoCreds) EXCEPT !.csrf = FALSE]}

\* Metadata are served or not with no regard to what is forwarded: one flag
\* stands for both.
AuthenticationConfigs ==
    { [authenticators |-> a, required |-> r, preserve |-> p, metadata |-> p,
       postgres |-> FALSE, rules |-> <<Allow(<<AnyUser>>)>>] :
        a \in {<<"bearer", "cookie">>, <<"cookie", "bearer">>, <<"query">>,
               <<"bearer", "query", "cookie">>, <<"cookie", "query", "bearer">>},
        r \in BOOLEAN, p \in BOOLEAN }

\* One run for both: the configurations with a directory are asked the requests
\* about rules, those without one the requests about credentials.
RequestsConfigs == PolicyConfigs \union AuthenticationConfigs
RequestsInputs  == PolicyInputs \union AuthenticationInputs

OwnInputs ==
    \A h \in Handlers :
        (pc[h] \in {"idle", "done"} /\ pc'[h] \notin {"idle", "done"}) =>
            request'[h] \in (IF cfg.postgres THEN PolicyInputs ELSE AuthenticationInputs)

-----------------------------------------------------------------------------
(* Run "serving": two requests at a time, under fairness *)

ServingConfigs ==
    { [authenticators |-> <<"bearer", "cookie">>, required |-> FALSE, preserve |-> FALSE,
       metadata |-> m, postgres |-> TRUE,
       rules |-> <<Deny(<<Role("suspended")>>), Allow(<<Role("editor")>>)>>] :
        m \in BOOLEAN }

ServingInputs ==
    { Get("private", NoCreds), Call("private", NoCreds), Get("callback", NoCreds),
      Call("private", With("bearer", Good(alice))),
      Get("private", With("cookie", Good(alice))) }

=============================================================================
