------------------------------ MODULE Ruleset -------------------------------
(***************************************************************************)
(* From the rules in a Caddyfile to the rules a handler evaluates: the     *)
(* block of the oidc directive and its one-line form (middleware.go), the  *)
(* entries and the matchers in them (rules.go, matchers.go), Provision and *)
(* Validate.                                                               *)
(*                                                                         *)
(* A file is the sequence of its allow and deny entries.  An entry has an  *)
(* action, arguments, and a form: "block" when a block follows, "bare"     *)
(* when none does, "line" for the one-line directive.  The block has lines *)
(* of a matcher's name and its arguments.                                  *)
(*                                                                         *)
(* No entry here has Caddy's own `not` in its block.                       *)
(*                                                                         *)
(* External: Caddy collects the lines of a block by matcher and hands each *)
(* matcher all of its lines at once.                                       *)
(***************************************************************************)

EXTENDS AccessPolicy, SequencesExt

CONSTANTS
    Files,          \* the files
    Parts(_),       \* the names in an argument: split at commas, no blanks
    AuthMethods,    \* what ParseAuthMethod knows
    MeantBy(_, _),  \* MeantBy(pattern, value): what a pattern is said to match
    People,         \* what the provider says of whom: ID token and user info
    UsernameClaims, \* values of the username option
    CookieOptions,  \* values of the options claim and id_claim
    Requests,
    Runtimes        \* directories

\* The matchers a block can have; "path" stands for Caddy's own.
Matchers == {"user", "anonymous", "auth_method", "claim", "role", "path"}

\* What the parser makes of the text: entries, with the lines of their blocks.
AllLines == [matcher : Matchers, args : Seq(STRING)]
AllEntries ==
    [action : {"allow", "deny"}, form : {"block", "bare", "line"}, args : Seq(STRING),
     lines : Seq(AllLines)]

ASSUME RulesetAssumption ==
    /\ Files \subseteq Seq(AllEntries)
    /\ Runtimes \cap Missing = {}

VARIABLES
    file,
    phase,          \* "parse", "provision", "ready" or "refused"
    next,           \* the entry or rule it is at
    rules,          \* the rules parsed so far: action, id, set of matchers
    loaded          \* the rules provisioned so far: the matchers in a sequence

vars == <<file, phase, next, rules, loaded>>

Init ==
    /\ file \in Files
    /\ phase = "parse" /\ next = 1 /\ rules = <<>> /\ loaded = <<>>

-----------------------------------------------------------------------------
(* Matchers *)

\* `for d.Next() { d.Args(&x) }` on the lines of a matcher: the name of the line
\* or an argument is passed over, the argument after it taken.  So every other
\* argument of a line is, and an even number of them is an error.
Taken(l) == {l.args[i] : i \in {i \in DOMAIN l.args : i % 2 = 1}}

LineAccepted(l) ==
    CASE l.matcher \in {"user", "role"} -> Len(l.args) % 2 = 1
      [] l.matcher = "auth_method" -> Len(l.args) % 2 = 1 /\ Taken(l) \subseteq AuthMethods
      [] l.matcher = "anonymous" -> l.args = <<>>
      [] l.matcher = "claim" -> l.args # <<>>
      [] l.matcher = "path" -> l.args # <<>>

\* The matcher of some lines, all of one matcher.
Matcher(matcher, ls) ==
    LET all == UNION {Taken(l) : l \in ls}
    IN  CASE matcher = "user" -> [kind |-> "user", users |-> all]
          [] matcher = "role" -> [kind |-> "role", roles |-> all]
          [] matcher = "auth_method" -> [kind |-> "auth_method", methods |-> all]
          [] matcher = "anonymous" -> [kind |-> "anonymous"]
          [] matcher = "claim" ->
               [kind |-> "claim",
                claims |-> {[name |-> Head(l.args), values |-> ToSet(Tail(l.args))] : l \in ls}]
          [] matcher = "path" ->
               [kind |-> "request", failing |-> {}, paths |-> UNION {ToSet(l.args) : l \in ls}]

Lines(e) == ToSet(e.lines)

\* Mutant of MatcherSet: the last line of a matcher replaces those before.
MatcherSetOfLast(e) ==
    {Matcher(m, {Last(SelectSeq(e.lines, LAMBDA l : l.matcher = m))}) :
        m \in {l.matcher : l \in Lines(e)}}

\* Mutant of MatcherSet: a matcher of its own for each line.
MatcherSetByLine(e) == {Matcher(l.matcher, {l}) : l \in Lines(e)}

\* ParseCaddyfileNestedMatcherSet: one matcher for all lines that name it.
MatcherSet(e) ==
    {Matcher(m, {l \in Lines(e) : l.matcher = m}) : m \in {l.matcher : l \in Lines(e)}}

-----------------------------------------------------------------------------
(* Rules *)

\* Arguments without a block are roles; one before a block is the rule's ID.
IsShorthand(e) == e.form = "line" \/ (e.form = "bare" /\ e.args # <<>>)

\* splitRoleArgs.
SplitRoleArgs(args) == UNION {Parts(w) : w \in ToSet(args)}

RuleOf(e) ==
    IF IsShorthand(e)
      THEN [action |-> e.action, id |-> "",
            matchers |-> {[kind |-> "role", roles |-> SplitRoleArgs(e.args)]}]
      ELSE [action |-> e.action, id |-> IF e.args = <<>> THEN "" ELSE Head(e.args),
            matchers |-> MatcherSet(e)]

ParseEntry ==
    /\ phase = "parse" /\ next <= Len(file)
    /\ \A l \in Lines(file[next]) : LineAccepted(l)
    /\ rules' = Append(rules, RuleOf(file[next]))
    /\ next' = next + 1
    /\ UNCHANGED <<file, phase, loaded>>

ParseFails ==
    /\ phase = "parse" /\ next <= Len(file)
    /\ \E l \in Lines(file[next]) : ~LineAccepted(l)
    /\ phase' = "refused"
    /\ UNCHANGED <<file, next, rules, loaded>>

Parsed ==
    /\ phase = "parse" /\ next > Len(file)
    /\ phase' = "provision" /\ next' = 1
    /\ UNCHANGED <<file, rules, loaded>>

\* The matchers come out of a map, in any order.
ProvisionRule ==
    /\ phase = "provision" /\ next <= Len(rules)
    /\ \E ms \in SetToSeqs(rules[next].matchers) :
         loaded' = Append(loaded, [action |-> rules[next].action, id |-> rules[next].id,
                                   matchers |-> ms])
    /\ next' = next + 1
    /\ UNCHANGED <<file, phase, rules>>

\* Without an allow rule nobody would get through: the configuration is refused.
Validate ==
    /\ phase = "provision" /\ next > Len(rules)
    /\ phase' = IF \E i \in DOMAIN loaded : loaded[i].action = "allow" THEN "ready" ELSE "refused"
    /\ UNCHANGED <<file, next, rules, loaded>>

Next == ParseEntry \/ ParseFails \/ Parsed \/ ProvisionRule \/ Validate

Spec == Init /\ [][Next]_vars

-----------------------------------------------------------------------------
(* The verdict *)

\* What Ruleset.Evaluate comes to when the directory is there (Middleware has it
\* rule by rule): an allow rule matches and no deny rule does.
Allowed(q, s, method, rt) ==
    LET Matches(action) == \E i \in DOMAIN loaded :
            loaded[i].action = action /\ RulePasses(loaded[i], q, s, method, rt)
    IN  Matches("allow") /\ ~Matches("deny")

\* What a line says of a caller, its placeholders filled in.
LineHolds(l, q, s, method, rt) ==
    CASE l.matcher = "user" -> ~s.anonymous /\ \E a \in ToSet(l.args) : MeantBy(Expand(q, a), s.uid)
      [] l.matcher = "anonymous" -> s.anonymous
      [] l.matcher = "auth_method" -> method \in ToSet(l.args)
      [] l.matcher = "role" -> \E a \in ToSet(l.args), e \in EmailOf(s) : HasRole(rt, e, Expand(q, a))
      [] l.matcher = "path" -> q.path \in ToSet(l.args)
      [] l.matcher = "claim" ->
           \E found \in ClaimAt(s.claims, Expand(q, Head(l.args))) :
             \/ Len(l.args) = 1
             \/ \E a \in ToSet(Tail(l.args)), x \in found.strings : MeantBy(Expand(q, a), x)

\* What an entry says: one of the roles; or all matchers of the block, a claim by
\* all of its lines, another by any of them.
EntryHolds(e, q, s, method, rt) ==
    IF IsShorthand(e)
      THEN \E r \in SplitRoleArgs(e.args), m \in EmailOf(s) : HasRole(rt, m, Expand(q, r))
      ELSE /\ e.lines # <<>>
           /\ \A l \in Lines(e) :
                \E k \in (IF l.matcher = "claim" THEN {l}
                            ELSE {k \in Lines(e) : k.matcher = l.matcher}) :
                  LineHolds(k, q, s, method, rt)

MeantToPass(q, s, method, rt) ==
    LET Says(action) == \E e \in ToSet(file) :
            e.action = action /\ EntryHolds(e, q, s, method, rt)
    IN  Says("allow") /\ ~Says("deny")

-----------------------------------------------------------------------------
(* Properties *)

\* No entry is lost or parsed twice, and a loaded rule has each matcher of its
\* entry once.
TypeOK ==
    /\ phase \in {"parse", "provision", "ready", "refused"}
    /\ next \in 1 .. Len(file) + 1
    /\ Len(rules) <= Len(file) /\ Len(loaded) <= Len(rules)
    /\ \A i \in DOMAIN loaded :
         /\ ToSet(loaded[i].matchers) = rules[i].matchers
         /\ Len(loaded[i].matchers) = Cardinality({m.kind : m \in rules[i].matchers})

Nobody == [anonymous |-> TRUE, uid |-> "", claims |-> <<>>]

Bearers(name, p)    == NewFromIDToken(name, p.token)
Logins(name, p, o)  == SessionOfLogin(name, p.token, p.info, o)

\* Who comes with which method.
Callers ==
    {<<"none", Nobody>>}
      \union {<<"bearer", s>> : s \in UNION {Bearers(n, p) : n \in UsernameClaims, p \in People}}
      \union {<<"cookie", s>> : s \in UNION {Logins(n, p, o) :
                                   n \in UsernameClaims, p \in People, o \in CookieOptions}}

\* Every line of a matcher that takes one argument has one.
OneEach ==
    \A e \in ToSet(file) : \A l \in Lines(e) :
        l.matcher \in {"user", "role", "auth_method"} => Len(l.args) = 1

\* The rules that are loaded decide about everybody as the file says: however its
\* lines are split over entries and merged by matcher, in whatever order the
\* matchers come out of the map, and wherever the stars are in a pattern.  A claim
\* line speaks of what its name leads to as a path, whether or not that is what its
\* author had in mind (see ReadmeClaims).
MeaningKept ==
    phase = "ready" /\ OneEach =>
        \A c \in Callers, q \in Requests, rt \in Runtimes :
            Allowed(q, c[2], c[1], rt) = MeantToPass(q, c[2], c[1], rt)

\* The claims the rules look at, or into, for request q.
Mentioned(q) ==
    {Key(Expand(q, Head(l.args))) :
        l \in {k \in UNION {Lines(e) : e \in ToSet(file)} : k.matcher = "claim"}}
      \union (IF \E i \in DOMAIN rules : \E m \in rules[i].matchers : m.kind = "role"
                THEN {"email"} ELSE {})

MethodBlind == \A i \in DOMAIN rules : \A m \in rules[i].matchers : m.kind # "auth_method"

\* The provider says the same of p in the token and in the user info, as far as
\* both speak of it, and the options copy each claim that is mentioned from where
\* it can be found.
Copied(name, p, o, q) ==
    /\ \A k \in DOMAIN p.token \cap DOMAIN p.info : p.token[k] = p.info[k]
    /\ (name \in DOMAIN p.token) = (name \in DOMAIN p.info)
    /\ \A k \in Mentioned(q) \cap DOMAIN p.token :
         k \in o.id_claims \/ (k \in o.claims /\ k \in DOMAIN p.info)
    /\ (Mentioned(q) \cap o.claims \cap DOMAIN p.info) \subseteq DOMAIN p.token

\* A name that both ways read alike.
Plain(name, p) == Path(name) = <<name>> /\ (name \in DOMAIN p.info => ~p.info[name].isNull)

\* A person is judged alike behind a token and behind a session cookie, once the
\* claims that the rules look at, or into, are copied into the cookie.  The rules
\* follow paths; what is copied goes by keys.
SameVerdict ==
    phase = "ready" /\ MethodBlind =>
        \A name \in UsernameClaims, p \in People, o \in CookieOptions, q \in Requests, rt \in Runtimes :
            (Copied(name, p, o, q) /\ Plain(name, p)) =>
                {Allowed(q, s, "bearer", rt) : s \in Bearers(name, p)}
                  = {Allowed(q, s, "cookie", rt) : s \in Logins(name, p, o)}

-----------------------------------------------------------------------------
(* What the README says *)

\* README:625: "Multiple roles are treated as a logical OR", with the example
\* `role admin residents`; a file whose blocks have only lines like it, and one
\* allow among them, is taken.
ReadmeRoles ==
    phase = "refused" =>
        \/ \A e \in ToSet(file) : e.action = "deny"
        \/ \E e \in ToSet(file) : \E l \in Lines(e) : l.matcher # "role" \/ l.args = <<>>

\* README:552: without values "the matcher only checks for the claim's existence";
\* it passes for every session that has claims of these names.
ReadmeClaims ==
    phase = "ready" =>
        \A i \in DOMAIN rules, c \in Callers, q \in Requests, rt \in Runtimes :
            \A m \in rules[i].matchers :
                (/\ m.kind = "claim"
                 /\ \A k \in m.claims : k.values = {} /\ Expand(q, k.name) \in DOMAIN c[2].claims)
                  => Passes(m, q, c[2], c[1], rt)

=============================================================================
