---------------------------- MODULE RulesetProofs ----------------------------
(***************************************************************************)
(* The rules that a handler evaluates are the entries of the file, in      *)
(* their order, each with every matcher of its block once; they decide     *)
(* about everybody as the lines read; and they judge a person alike behind *)
(* a token and behind a session cookie.  For all files, options, claims,   *)
(* paths, requests and directories, and whatever the patterns are:         *)
(* MatchWildcard accepts what they stand for.  A claim line speaks of what *)
(* its name leads to when it is read as a path.                            *)
(***************************************************************************)

EXTENDS Ruleset, FiniteSetTheorems, SequenceTheorems, TLAPS

-----------------------------------------------------------------------------
(* The inductive invariant *)

\* What ProvisionRule can make of a rule.
LoadsOf(r) ==
    {[action |-> r.action, id |-> r.id, matchers |-> ms] : ms \in SetToSeqs(r.matchers)}

Rules == {RuleOf(e) : e \in AllEntries}

Loads == UNION {LoadsOf(r) : r \in Rules}

\* Entry e has become a rule.
Accepted(e) == \A l \in Lines(e) : LineAccepted(l)

\* How far each phase is.
Progress ==
    /\ phase = "parse" => Len(rules) = next - 1 /\ loaded = <<>>
    /\ phase = "provision" => Len(rules) = Len(file) /\ Len(loaded) = next - 1
    /\ phase = "ready" => Len(rules) = Len(file) /\ Len(loaded) = Len(rules)
    /\ Len(rules) <= Len(file) /\ Len(loaded) <= Len(rules)

IInv ==
    /\ file \in Files /\ file \in Seq(AllEntries)
    /\ phase \in {"parse", "provision", "ready", "refused"}
    /\ next \in 1 .. Len(file) + 1
    /\ rules \in Seq(Rules) /\ loaded \in Seq(Loads)
    /\ Progress
    /\ \A i \in 1 .. Len(rules) : rules[i] = RuleOf(file[i]) /\ Accepted(file[i])
    /\ \A i \in 1 .. Len(loaded) : loaded[i] \in LoadsOf(rules[i])

LEMMA InitInv == Init => IInv
BY RulesetAssumption, EmptySeq DEF Init, IInv, Progress

LEMMA ParseEntryInv == ASSUME IInv, ParseEntry PROVE IInv'
<1> DEFINE r == RuleOf(file[next])
<1>1. /\ next \in 1 .. Len(file) /\ Len(file) \in Nat /\ file[next] \in AllEntries
      /\ Len(rules) = next - 1 /\ loaded = <<>>
  BY DEF IInv, ParseEntry, Progress
<1>2. r \in Rules
  BY <1>1 DEF Rules
<1>3. rules' = Append(rules, r) /\ Accepted(file[next])
  BY DEF ParseEntry, Accepted
<1> HIDE DEF r
<1>4. rules' \in Seq(Rules) /\ Len(rules') = next
  BY <1>1, <1>2, <1>3 DEF IInv
<1>5. ASSUME NEW i \in 1 .. Len(rules')
      PROVE  rules'[i] = RuleOf(file[i]) /\ Accepted(file[i])
  <2>1. CASE i = next
    BY <2>1, <1>1, <1>2, <1>3 DEF IInv, r
  <2>2. CASE i # next
    BY <2>2, <1>1, <1>2, <1>3, <1>4 DEF IInv
  <2> QED BY <2>1, <2>2
<1>6. file' = file /\ phase' = phase /\ next' = next + 1 /\ loaded' = <<>> /\ phase = "parse"
  BY <1>1 DEF ParseEntry
<1>7. Progress'
  BY <1>1, <1>4, <1>6 DEF Progress
<1>8. next' \in 1 .. Len(file') + 1 /\ loaded' \in Seq(Loads)
  BY <1>1, <1>6, EmptySeq
<1> QED BY <1>1, <1>4, <1>5, <1>6, <1>7, <1>8 DEF IInv, Accepted

LEMMA ProvisionRuleInv == ASSUME IInv, ProvisionRule PROVE IInv'
<1>1. /\ next \in 1 .. Len(rules) /\ Len(rules) = Len(file) /\ Len(file) \in Nat
      /\ Len(loaded) = next - 1 /\ rules[next] \in Rules
  BY DEF IInv, ProvisionRule, Progress
<1>2. PICK ms \in SetToSeqs(rules[next].matchers) :
        loaded' = Append(loaded, [action |-> rules[next].action, id |-> rules[next].id,
                                  matchers |-> ms])
  BY DEF ProvisionRule
<1>3. PICK d : d = [action |-> rules[next].action, id |-> rules[next].id, matchers |-> ms]
  OBVIOUS
<1>4. d \in LoadsOf(rules[next]) /\ d \in Loads
  <2>1. d \in LoadsOf(rules[next])
    BY <1>3 DEF LoadsOf
  <2> QED BY <2>1, <1>1 DEF Loads
<1>5. loaded' = Append(loaded, d)
  BY <1>2, <1>3
<1>6. loaded' \in Seq(Loads) /\ Len(loaded') = next
  BY <1>1, <1>4, <1>5 DEF IInv
<1>7. \A i \in 1 .. Len(loaded') : loaded'[i] \in LoadsOf(rules[i])
  BY <1>1, <1>4, <1>5, <1>6 DEF IInv
<1>8. file' = file /\ phase' = phase /\ next' = next + 1 /\ rules' = rules /\ phase = "provision"
  BY DEF ProvisionRule
<1>9. Progress'
  BY <1>1, <1>6, <1>8 DEF Progress
<1> QED BY <1>1, <1>6, <1>7, <1>8, <1>9 DEF IInv, Accepted

LEMMA StepInv == IInv /\ [Next]_vars => IInv'
<1> SUFFICES ASSUME IInv, [Next]_vars PROVE IInv'
  OBVIOUS
<1>1. CASE ParseEntry
  BY <1>1, ParseEntryInv
<1>2. CASE ParseFails
  BY <1>2 DEF ParseFails, IInv, Progress, Accepted
<1>3. CASE Parsed
  BY <1>3 DEF Parsed, IInv, Progress, Accepted
<1>4. CASE ProvisionRule
  BY <1>4, ProvisionRuleInv
<1>5. CASE Validate
  <2> USE <1>5 DEF Validate
  <2>1. Len(rules) = Len(file) /\ Len(loaded) = next - 1 /\ next > Len(rules)
    BY DEF IInv, Progress
  <2>2. phase' \in {"ready", "refused"} /\ UNCHANGED <<file, next, rules, loaded>>
    OBVIOUS
  <2>3. next \in 1 .. Len(file) + 1 /\ Len(file) \in Nat
    BY DEF IInv
  <2>4. Progress'
    BY <2>1, <2>2, <2>3 DEF Progress
  <2> QED BY <2>2, <2>4 DEF IInv, Accepted
<1>6. CASE UNCHANGED vars
  BY <1>6 DEF vars, IInv, Progress, Accepted
<1> QED BY <1>1, <1>2, <1>3, <1>4, <1>5, <1>6 DEF Next

\* The invariant holds of every file.
THEOREM Invariance == Spec => []IInv
BY InitInv, StepInv, PTL DEF Spec

-----------------------------------------------------------------------------
(* Matchers *)

\* The sequences of all elements of a finite set.
LEMMA Arranged ==
    ASSUME NEW S, IsFiniteSet(S), NEW ms \in SetToSeqs(S)
    PROVE  /\ ms \in Seq(S) /\ Len(ms) = Cardinality(S) /\ DOMAIN ms = 1 .. Len(ms)
           /\ ToSet(ms) = S
<1> DEFINE n == Cardinality(S)
<1>1. n \in Nat
  BY FS_CardinalityType
<1>2. ms \in [1 .. n -> S] /\ \A i, j \in 1 .. n : i # j => ms[i] # ms[j]
  BY DEF SetToSeqs
<1> HIDE DEF n
<1>3. ms \in Injection(1 .. n, S)
  BY <1>2 DEF Injection, IsInjective
<1>4. IsFiniteSet(1 .. n) /\ Cardinality(1 .. n) = n
  BY <1>1, FS_Interval
<1>5. ms \in Surjection(1 .. n, S)
  BY <1>3, <1>4, FS_Injection DEF n
<1>6. ms \in Seq(S) /\ Len(ms) = n /\ DOMAIN ms = 1 .. n
  BY <1>1, <1>2
<1>7. ToSet(ms) = S
  BY <1>2, <1>5, <1>6 DEF ToSet, Surjection
<1> QED BY <1>6, <1>7 DEF n

\* As many kinds as matchers, where no two are of a kind.
LEMMA OneOfAKind ==
    ASSUME NEW S, IsFiniteSet(S), \A m, k \in S : m.kind = k.kind => m = k
    PROVE  Cardinality({m.kind : m \in S}) = Cardinality(S)
<1> DEFINE T == {m.kind : m \in S}
           f == [m \in S |-> m.kind]
<1>1. f \in [S -> T] /\ \A t \in T : \E m \in S : f[m] = t
  OBVIOUS
<1>2. f \in Injection(S, T) /\ f \in Surjection(S, T)
  BY <1>1 DEF Injection, IsInjective, Surjection
<1> HIDE DEF f, T
<1>3. Cardinality(T) = Cardinality(S)
  BY <1>2, FS_Surjection
<1> QED BY <1>3 DEF T

LEMMA KindOf ==
    ASSUME NEW m \in Matchers, NEW ls
    PROVE  Matcher(m, ls).kind = IF m = "path" THEN "request" ELSE m
BY DEF Matchers, Matcher

\* A rule has a finite set of matchers, no two of a kind.
LEMMA MatchersApart ==
    ASSUME NEW e \in AllEntries
    PROVE  LET S == RuleOf(e).matchers
           IN  IsFiniteSet(S) /\ Cardinality({m.kind : m \in S}) = Cardinality(S)
<1> DEFINE S == RuleOf(e).matchers
<1>1. IsFiniteSet(S) /\ \A m, k \in S : m.kind = k.kind => m = k
  <2>1. CASE IsShorthand(e)
    <3>1. PICK m : S = {m}
      BY <2>1 DEF RuleOf
    <3> QED BY <3>1, FS_Singleton
  <2>2. CASE ~IsShorthand(e)
    <3>1. S = MatcherSet(e)
      BY <2>2 DEF RuleOf
    <3>2. /\ e.lines \in Seq(AllLines)
          /\ Len(e.lines) \in Nat /\ DOMAIN e.lines = 1 .. Len(e.lines)
      BY DEF AllEntries
    <3>3. \A l \in Lines(e) : l.matcher \in Matchers
      <4>1. \A i \in 1 .. Len(e.lines) : e.lines[i] \in AllLines
        BY <3>2
      <4>2. \A l \in AllLines : l.matcher \in Matchers
        BY DEF AllLines
      <4> QED BY <3>2, <4>1, <4>2 DEF Lines, ToSet
    <3> DEFINE Of(m) == Matcher(m, {l \in Lines(e) : l.matcher = m})
               f == [i \in 1 .. Len(e.lines) |-> Of(e.lines[i].matcher)]
    <3>4. S = {Of(m) : m \in {l.matcher : l \in Lines(e)}}
      BY <3>1 DEF MatcherSet
    <3> HIDE DEF Of, S
    <3>5. f \in [1 .. Len(e.lines) -> S] /\ \A s \in S : \E i \in 1 .. Len(e.lines) : f[i] = s
      BY <3>2, <3>4 DEF Lines, ToSet
    <3>6. f \in Surjection(1 .. Len(e.lines), S)
      BY <3>5 DEF Surjection
    <3> HIDE DEF f
    <3>7. IsFiniteSet(S)
      BY <3>2, <3>6, FS_Interval, FS_Surjection
    <3>8. \A m \in Matchers : Of(m).kind = IF m = "path" THEN "request" ELSE m
      BY KindOf DEF Of
    <3>9. \A m, k \in S : m.kind = k.kind => m = k
      BY <3>3, <3>4, <3>8 DEF Matchers
    <3> QED BY <3>7, <3>9 DEF S
  <2> QED BY <2>1, <2>2
<1> QED BY <1>1, OneOfAKind

\* Once it is loaded, it has each of them once.
LEMMA Whole ==
    ASSUME IInv, NEW i \in DOMAIN loaded
    PROVE  /\ i \in 1 .. Len(file) /\ i \in DOMAIN rules /\ file[i] \in AllEntries
           /\ rules[i] = RuleOf(file[i]) /\ Accepted(file[i])
           /\ loaded[i].action = rules[i].action
           /\ loaded[i].matchers \in Seq(rules[i].matchers)
           /\ ToSet(loaded[i].matchers) = rules[i].matchers
           /\ Len(loaded[i].matchers) = Cardinality({m.kind : m \in rules[i].matchers})
<1>1. /\ i \in 1 .. Len(loaded) /\ i \in 1 .. Len(file) /\ i \in 1 .. Len(rules)
      /\ DOMAIN rules = 1 .. Len(rules) /\ file[i] \in AllEntries
  BY DEF IInv, Progress
<1>2. rules[i] = RuleOf(file[i]) /\ Accepted(file[i]) /\ loaded[i] \in LoadsOf(rules[i])
  BY <1>1 DEF IInv
<1>3. PICK S : S = rules[i].matchers
  OBVIOUS
<1>4. PICK ms \in SetToSeqs(S) :
        loaded[i] = [action |-> rules[i].action, id |-> rules[i].id, matchers |-> ms]
  BY <1>2, <1>3 DEF LoadsOf
<1>5. IsFiniteSet(S) /\ Cardinality({m.kind : m \in S}) = Cardinality(S)
  BY <1>1, <1>2, <1>3, MatchersApart
<1>6. ms \in Seq(S) /\ Len(ms) = Cardinality(S) /\ ToSet(ms) = S
  BY <1>4, <1>5, Arranged
<1>7. loaded[i].action = rules[i].action /\ loaded[i].matchers = ms
  BY <1>4
<1> QED BY <1>1, <1>2, <1>3, <1>5, <1>6, <1>7

\* No entry is lost or parsed twice, and a loaded rule has each matcher of its
\* entry once (rules.go, Provision), however its lines are ordered.
THEOREM TypeCorrect == Spec => []TypeOK
<1>1. IInv => TypeOK
  <2> SUFFICES ASSUME IInv PROVE TypeOK
    OBVIOUS
  <2>1. \A i \in DOMAIN loaded :
          /\ ToSet(loaded[i].matchers) = rules[i].matchers
          /\ Len(loaded[i].matchers) = Cardinality({m.kind : m \in rules[i].matchers})
    BY Whole
  <2>2. /\ phase \in {"parse", "provision", "ready", "refused"}
        /\ next \in 1 .. Len(file) + 1
        /\ Len(rules) <= Len(file) /\ Len(loaded) <= Len(rules)
    BY DEF IInv, Progress
  <2> QED BY <2>1, <2>2 DEF TypeOK
<1> QED BY <1>1, Invariance, PTL

-----------------------------------------------------------------------------
(* What the rules mean *)

\* All matchers of a rule pass, and it has some; their order does not matter.
LEMMA AnyOrder ==
    ASSUME NEW rule, NEW S, rule.matchers \in Seq(S), ToSet(rule.matchers) = S,
           NEW q, NEW s, NEW method, NEW rt
    PROVE  RulePasses(rule, q, s, method, rt)
             <=> S # {} /\ \A m \in S : Passes(m, q, s, method, rt)
<1>1. PICK ms \in Seq(S) : ms = rule.matchers
  OBVIOUS
<1>2. DOMAIN ms = 1 .. Len(ms) /\ Len(ms) \in Nat /\ (ms = <<>> <=> Len(ms) = 0)
  BY EmptySeq
<1>3. S = {ms[i] : i \in 1 .. Len(ms)}
  BY <1>1, <1>2 DEF ToSet
<1>4. ms # <<>> <=> S # {}
  BY <1>2, <1>3
<1> QED BY <1>1, <1>3, <1>4 DEF RulePasses

\* The arguments after the first.
LEMMA Tails ==
    ASSUME NEW args \in Seq(STRING), args # <<>>
    PROVE  /\ ToSet(Tail(args)) \subseteq ToSet(args) /\ Head(args) \in ToSet(args)
           /\ ToSet(Tail(args)) = {} <=> Len(args) = 1
<1>1. Len(args) \in Nat \ {0} /\ DOMAIN args = 1 .. Len(args)
  BY EmptySeq
<1>2. /\ Tail(args) \in Seq(STRING) /\ Len(Tail(args)) = Len(args) - 1
      /\ \A i \in 1 .. Len(args) - 1 : Tail(args)[i] = args[i + 1]
  BY <1>1
<1>3. DOMAIN Tail(args) = 1 .. Len(args) - 1
  BY <1>2
<1>4. ToSet(Tail(args)) = {args[i + 1] : i \in 1 .. Len(args) - 1}
  BY <1>2, <1>3 DEF ToSet
<1>5. ToSet(args) = {args[i] : i \in 1 .. Len(args)}
  BY <1>1 DEF ToSet
<1>6. Head(args) = args[1]
  OBVIOUS
<1>7. ToSet(Tail(args)) = {} <=> Len(args) = 1
  <2>1. CASE Len(args) = 1
    BY <2>1, <1>4
  <2>2. CASE Len(args) # 1
    <3>1. 1 \in 1 .. Len(args) - 1
      BY <2>2, <1>1
    <3> QED BY <3>1, <2>2, <1>4
  <2> QED BY <2>1, <2>2
<1>8. ToSet(Tail(args)) \subseteq ToSet(args) /\ Head(args) \in ToSet(args)
  BY <1>1, <1>4, <1>5, <1>6
<1> QED BY <1>7, <1>8

\* One argument is taken, and it is the only one there is.
LEMMA TakenOne ==
    ASSUME NEW l \in AllLines, Len(l.args) = 1
    PROVE  Taken(l) = ToSet(l.args) /\ Taken(l) = {l.args[1]}
<1>1. l.args \in Seq(STRING)
  BY DEF AllLines
<1>2. DOMAIN l.args = {1}
  BY <1>1
<1>3. 1 % 2 = 1
  OBVIOUS
<1>4. {i \in DOMAIN l.args : i % 2 = 1} = {1}
  BY <1>2, <1>3
<1> QED BY <1>2, <1>4 DEF Taken, ToSet

\* The strings of a claim, and those inside it.
StringsOf(v) == v.strings \union UNION {v.inner[p].strings : p \in DOMAIN v.inner}

\* The strings a session has for a pattern to match.
ValuesOf(s) == {s.uid} \union UNION {StringsOf(s.claims[k]) : k \in DOMAIN s.claims}

\* What a path leads to has no other strings.
LEMMA FoundStrings ==
    ASSUME NEW s, NEW name, NEW found \in ClaimAt(s.claims, name), NEW x \in found.strings
    PROVE  x \in ValuesOf(s)
<1>1. PICK v, path : /\ Key(name) \in DOMAIN s.claims /\ v = s.claims[Key(name)]
                     /\ path = Tail(Path(name)) /\ found \in Inside(v, path)
  BY DEF ClaimAt
<1>2. found = v \/ \E p \in DOMAIN v.inner : found = v.inner[p]
  BY <1>1 DEF Inside
<1>3. x \in StringsOf(v)
  BY <1>2 DEF StringsOf
<1> QED BY <1>1, <1>3 DEF ValuesOf

\* A pattern of l matches what it is said to match, where q and s are concerned.
Reads(l, q, s) ==
    \A a \in ToSet(l.args), v \in ValuesOf(s) :
        MatchWildcard(Expand(q, a), v) <=> MeantBy(Expand(q, a), v)

\* A line that could be parsed, of a matcher with its one argument if it takes one.
Plainly(l) ==
    LineAccepted(l) /\ (l.matcher \in {"user", "role", "auth_method"} => Len(l.args) = 1)

\* The matcher that some lines are merged into passes when one of them holds; all
\* of them, if they are claims.
LEMMA MergedLines ==
    ASSUME NEW n \in Matchers, NEW ls \in SUBSET AllLines, ls # {},
           \A l \in ls : l.matcher = n /\ Plainly(l),
           NEW q, NEW s, NEW method, NEW rt, rt \notin Missing,
           s.anonymous => EmailOf(s) = {},
           \A l \in ls : Reads(l, q, s)
    PROVE  Passes(Matcher(n, ls), q, s, method, rt)
             <=> IF n = "claim" THEN \A l \in ls : LineHolds(l, q, s, method, rt)
                                ELSE \E l \in ls : LineHolds(l, q, s, method, rt)
<1> DEFINE all == UNION {Taken(l) : l \in ls}
           m == Matcher(n, ls)
<1>0. ASSUME n \in {"user", "role", "auth_method"}
      PROVE  all # {} /\ all = UNION {ToSet(l.args) : l \in ls}
  BY <1>0, TakenOne DEF Plainly
<1>1. CASE n = "user"
  <2>1. m.kind = "user" /\ m.users = all
    BY <1>1 DEF Matcher
  <2>2. Passes(m, q, s, method, rt)
          <=> ~s.anonymous /\ \E u \in all : MatchWildcard(Expand(q, u), s.uid)
    BY <2>1, <1>0, <1>1 DEF Passes, SimplePasses, UserPasses
  <2>3. \A l \in ls : LineHolds(l, q, s, method, rt)
          <=> ~s.anonymous /\ \E a \in ToSet(l.args) : MeantBy(Expand(q, a), s.uid)
    BY <1>1 DEF LineHolds
  <2>4. \A l \in ls : \A a \in ToSet(l.args) :
          MatchWildcard(Expand(q, a), s.uid) <=> MeantBy(Expand(q, a), s.uid)
    BY DEF Reads, ValuesOf
  <2> HIDE DEF m
  <2> QED BY <2>2, <2>3, <2>4, <1>0, <1>1 DEF m
<1>2. CASE n = "anonymous"
  <2>1. m.kind = "anonymous"
    BY <1>2 DEF Matcher
  <2>2. Passes(m, q, s, method, rt) <=> s.anonymous
    BY <2>1 DEF Passes, SimplePasses
  <2>3. \A l \in ls : LineHolds(l, q, s, method, rt) <=> s.anonymous
    BY <1>2 DEF LineHolds
  <2> QED BY <2>2, <2>3, <1>2
<1>3. CASE n = "auth_method"
  <2>1. m.kind = "auth_method" /\ m.methods = all
    BY <1>3 DEF Matcher
  <2>2. Passes(m, q, s, method, rt) <=> method \in all
    BY <2>1 DEF Passes, SimplePasses
  <2>3. \A l \in ls : LineHolds(l, q, s, method, rt) <=> method \in ToSet(l.args)
    BY <1>3 DEF LineHolds
  <2> HIDE DEF m
  <2> QED BY <2>2, <2>3, <1>0, <1>3 DEF m
<1>4. CASE n = "role"
  <2>1. m.kind = "role" /\ m.roles = all
    BY <1>4 DEF Matcher
  <2>2. Passes(m, q, s, method, rt)
          <=> ~s.anonymous /\ \E e \in EmailOf(s), a \in all : HasRole(rt, e, Expand(q, a))
    BY <2>1, <1>0, <1>4 DEF Passes, SimplePasses, RolePasses, NeedsDirectory
  <2>3. \A l \in ls : LineHolds(l, q, s, method, rt)
          <=> \E a \in ToSet(l.args), e \in EmailOf(s) : HasRole(rt, e, Expand(q, a))
    BY <1>4 DEF LineHolds
  <2> HIDE DEF m
  <2> QED BY <2>2, <2>3, <1>0, <1>4 DEF m
<1>5. CASE n = "path"
  <2>1. m.kind = "request" /\ m.failing = {} /\ m.paths = UNION {ToSet(l.args) : l \in ls}
    BY <1>5 DEF Matcher
  <2>2. Passes(m, q, s, method, rt) <=> q.path \in UNION {ToSet(l.args) : l \in ls}
    BY <2>1 DEF Passes, SimplePasses
  <2>3. \A l \in ls : LineHolds(l, q, s, method, rt) <=> q.path \in ToSet(l.args)
    BY <1>5 DEF LineHolds
  <2> HIDE DEF m
  <2> QED BY <2>2, <2>3, <1>5 DEF m
<1>6. CASE n = "claim"
  <2> DEFINE Claim(l) == [name |-> Head(l.args), values |-> ToSet(Tail(l.args))]
  <2>1. m.kind = "claim" /\ m.claims = {Claim(l) : l \in ls}
    BY <1>6 DEF Matcher
  <2>2. Passes(m, q, s, method, rt) <=> \A l \in ls : ClaimMatches(Claim(l), q, s)
    BY <2>1 DEF Passes, SimplePasses
  <2>3. ASSUME NEW l \in ls
        PROVE  ClaimMatches(Claim(l), q, s) <=> LineHolds(l, q, s, method, rt)
    <3>1. l.args \in Seq(STRING) /\ l.args # <<>> /\ l.matcher = "claim"
      BY <1>6 DEF AllLines, Plainly, LineAccepted
    <3>2. PICK name : name = Expand(q, Head(l.args))
      OBVIOUS
    <3>3. PICK rest : rest = ToSet(Tail(l.args))
      OBVIOUS
    <3>4. rest \subseteq ToSet(l.args) /\ (rest = {} <=> Len(l.args) = 1)
      BY <3>1, <3>3, Tails
    <3>5. LineHolds(l, q, s, method, rt)
            <=> \E found \in ClaimAt(s.claims, name) :
                  Len(l.args) = 1 \/ \E a \in rest, x \in found.strings : MeantBy(Expand(q, a), x)
      BY <3>1, <3>2, <3>3 DEF LineHolds
    <3>6. ClaimMatches(Claim(l), q, s)
            <=> \E found \in ClaimAt(s.claims, name) :
                  rest = {} \/ \E a \in rest, x \in found.strings : MatchWildcard(Expand(q, a), x)
      BY <3>2, <3>3 DEF ClaimMatches
    <3>7. ASSUME NEW found \in ClaimAt(s.claims, name), NEW a \in rest, NEW x \in found.strings
          PROVE  MatchWildcard(Expand(q, a), x) <=> MeantBy(Expand(q, a), x)
      <4>1. x \in ValuesOf(s)
        BY FoundStrings
      <4> QED BY <4>1, <3>4 DEF Reads
    <3> QED BY <3>4, <3>5, <3>6, <3>7
  <2> HIDE DEF m, Claim
  <2> QED BY <2>2, <2>3, <1>6 DEF m
<1> QED BY <1>1, <1>2, <1>3, <1>4, <1>5, <1>6 DEF Matchers

\* A rule passes for whom its entry holds.
LEMMA EntryMeans ==
    ASSUME NEW e \in AllEntries, \A l \in Lines(e) : Plainly(l),
           NEW rule, rule.matchers \in Seq(RuleOf(e).matchers),
           ToSet(rule.matchers) = RuleOf(e).matchers,
           NEW q, NEW s, NEW method, NEW rt, rt \notin Missing,
           s.anonymous => EmailOf(s) = {},
           \A l \in Lines(e) : Reads(l, q, s)
    PROVE  RulePasses(rule, q, s, method, rt) <=> EntryHolds(e, q, s, method, rt)
<1> DEFINE S == RuleOf(e).matchers
<1>1. RulePasses(rule, q, s, method, rt) <=> S # {} /\ \A m \in S : Passes(m, q, s, method, rt)
  BY AnyOrder
<1>2. CASE IsShorthand(e)
  <2> DEFINE m == [kind |-> "role", roles |-> SplitRoleArgs(e.args)]
  <2>1. S = {m}
    BY <1>2 DEF RuleOf
  <2>2. m.kind = "role" /\ m.roles = SplitRoleArgs(e.args)
    OBVIOUS
  <2> HIDE DEF m, S
  <2>3. Passes(m, q, s, method, rt)
          <=> \E r \in SplitRoleArgs(e.args), x \in EmailOf(s) : HasRole(rt, x, Expand(q, r))
    BY <2>2 DEF Passes, SimplePasses, RolePasses, NeedsDirectory
  <2> QED BY <2>1, <2>3, <1>1, <1>2 DEF EntryHolds
<1>3. CASE ~IsShorthand(e)
  <2> DEFINE Of(n) == {l \in Lines(e) : l.matcher = n}
  <2>1. S = {Matcher(n, Of(n)) : n \in {l.matcher : l \in Lines(e)}}
    BY <1>3 DEF RuleOf, MatcherSet
  <2>2. Lines(e) \subseteq AllLines /\ (e.lines # <<>> <=> Lines(e) # {})
    <3>1. PICK ls \in Seq(AllLines) : ls = e.lines
      BY DEF AllEntries
    <3>2. DOMAIN ls = 1 .. Len(ls) /\ Len(ls) \in Nat /\ (ls = <<>> <=> Len(ls) = 0)
      BY EmptySeq
    <3>3. Lines(e) = {ls[i] : i \in 1 .. Len(ls)}
      BY <3>1, <3>2 DEF Lines, ToSet
    <3>4. Lines(e) \subseteq AllLines
      BY <3>2, <3>3
    <3>5. ls # <<>> <=> 1 \in 1 .. Len(ls)
      BY <3>2
    <3>6. ls # <<>> <=> Lines(e) # {}
      BY <3>2, <3>3, <3>5
    <3> QED BY <3>1, <3>4, <3>6
  <2>3. ASSUME NEW l \in Lines(e)
        PROVE  Passes(Matcher(l.matcher, Of(l.matcher)), q, s, method, rt)
                 <=> IF l.matcher = "claim" THEN \A k \in Of(l.matcher) : LineHolds(k, q, s, method, rt)
                                            ELSE \E k \in Of(l.matcher) : LineHolds(k, q, s, method, rt)
    <3>1. l.matcher \in Matchers
      BY <2>2 DEF AllLines
    <3>2. l \in Of(l.matcher) /\ Of(l.matcher) \in SUBSET AllLines
      BY <2>2
    <3>3. PICK n \in Matchers : n = l.matcher
      BY <3>1
    <3>4. PICK ls \in SUBSET AllLines : ls = Of(n)
      BY <3>2, <3>3
    <3>5. ls # {} /\ \A k \in ls : k.matcher = n /\ Plainly(k) /\ Reads(k, q, s)
      BY <3>2, <3>3, <3>4
    <3>6. Passes(Matcher(n, ls), q, s, method, rt)
            <=> IF n = "claim" THEN \A k \in ls : LineHolds(k, q, s, method, rt)
                               ELSE \E k \in ls : LineHolds(k, q, s, method, rt)
      BY <3>5, MergedLines
    <3> QED BY <3>3, <3>4, <3>6
  <2>4. (\A m \in S : Passes(m, q, s, method, rt))
          <=> \A l \in Lines(e) : Passes(Matcher(l.matcher, Of(l.matcher)), q, s, method, rt)
    BY <2>1
  <2>5. S # {} <=> Lines(e) # {}
    <3>1. \A l \in Lines(e) : Matcher(l.matcher, Of(l.matcher)) \in S
      BY <2>1
    <3>2. \A m \in S : \E l \in Lines(e) : m = Matcher(l.matcher, Of(l.matcher))
      BY <2>1
    <3> HIDE DEF S, Of
    <3> QED BY <3>1, <3>2
  <2>6. EntryHolds(e, q, s, method, rt)
          <=> /\ e.lines # <<>>
              /\ \A l \in Lines(e) : \E k \in (IF l.matcher = "claim" THEN {l} ELSE Of(l.matcher)) :
                   LineHolds(k, q, s, method, rt)
    BY <1>3 DEF EntryHolds
  <2>7. ASSUME NEW l \in Lines(e), l.matcher = "claim",
               Passes(Matcher(l.matcher, Of(l.matcher)), q, s, method, rt)
        PROVE  LineHolds(l, q, s, method, rt)
    BY <2>3, <2>7
  <2>8. ASSUME \A l \in Lines(e) : \E k \in (IF l.matcher = "claim" THEN {l} ELSE Of(l.matcher)) :
                 LineHolds(k, q, s, method, rt),
               NEW l \in Lines(e)
        PROVE  Passes(Matcher(l.matcher, Of(l.matcher)), q, s, method, rt)
    <3>1. CASE l.matcher = "claim"
      <4>1. \A k \in Of(l.matcher) : LineHolds(k, q, s, method, rt)
        BY <2>8, <3>1
      <4> QED BY <4>1, <3>1, <2>3
    <3>2. CASE l.matcher # "claim"
      BY <2>8, <3>2, <2>3
    <3> QED BY <3>1, <3>2
  <2>9. ASSUME \A l \in Lines(e) : Passes(Matcher(l.matcher, Of(l.matcher)), q, s, method, rt),
               NEW l \in Lines(e)
        PROVE  \E k \in (IF l.matcher = "claim" THEN {l} ELSE Of(l.matcher)) :
                 LineHolds(k, q, s, method, rt)
    <3>1. CASE l.matcher = "claim"
      BY <3>1, <2>9, <2>7
    <3>2. CASE l.matcher # "claim"
      BY <3>2, <2>9, <2>3
    <3> QED BY <3>1, <3>2
  <2> HIDE DEF S, Of
  <2> QED BY <1>1, <2>2, <2>4, <2>5, <2>6, <2>8, <2>9
<1> QED BY <1>2, <1>3

\* Whoever has no name has no address either.
LEMMA Unnamed ==
    ASSUME NEW c \in Callers
    PROVE  c[2].anonymous => EmailOf(c[2]) = {}
<1>1. EmailOf(Nobody) = {}
  <2>1. DOMAIN Nobody.claims = {}
    BY DEF Nobody
  <2> QED BY <2>1 DEF EmailOf
<1>2. ASSUME NEW n, NEW p, NEW s \in Bearers(n, p) PROVE s.anonymous = FALSE
  BY DEF Bearers, NewFromIDToken, Session
<1>3. ASSUME NEW n, NEW p, NEW o, NEW s \in Logins(n, p, o) PROVE s.anonymous = FALSE
  BY DEF Logins, SessionOfLogin, Session
<1>4. c = <<"none", Nobody>> \/ c[2].anonymous = FALSE
  <2> DEFINE Bs == UNION {Bearers(n, p) : n \in UsernameClaims, p \in People}
             Ls == UNION {Logins(n, p, o) : n \in UsernameClaims, p \in People, o \in CookieOptions}
  <2>1. c = <<"none", Nobody>> \/ (\E s \in Bs : c = <<"bearer", s>>) \/ (\E s \in Ls : c = <<"cookie", s>>)
    BY DEF Callers
  <2>2. ASSUME NEW s \in Bs PROVE s.anonymous = FALSE
    <3>1. PICK n \in UsernameClaims, p \in People : s \in Bearers(n, p)
      OBVIOUS
    <3> HIDE DEF Bs
    <3> QED BY <3>1, <1>2
  <2>3. ASSUME NEW s \in Ls PROVE s.anonymous = FALSE
    <3>1. PICK n \in UsernameClaims, p \in People, o \in CookieOptions : s \in Logins(n, p, o)
      OBVIOUS
    <3> HIDE DEF Ls
    <3> QED BY <3>1, <1>3
  <2> HIDE DEF Bs, Ls
  <2>4. ASSUME NEW s \in Bs, c = <<"bearer", s>> PROVE c[2].anonymous = FALSE
    <3>1. c[2] = s
      BY <2>4
    <3> QED BY <3>1, <2>2
  <2>5. ASSUME NEW s \in Ls, c = <<"cookie", s>> PROVE c[2].anonymous = FALSE
    <3>1. c[2] = s
      BY <2>5
    <3> QED BY <3>1, <2>3
  <2> QED BY <2>1, <2>4, <2>5
<1> QED BY <1>1, <1>4

\* The patterns of the file match what they are said to match, whoever calls.
StarsAsMeant ==
    \A e \in ToSet(file) : \A l \in Lines(e), q \in Requests, c \in Callers : Reads(l, q, c[2])

\* Some entry of the file passes for whom some rule does.
LEMMA RulesAreEntries ==
    ASSUME IInv, phase = "ready", OneEach, StarsAsMeant,
           NEW c \in Callers, NEW q \in Requests, NEW rt \in Runtimes, NEW action
    PROVE  (\E i \in DOMAIN loaded :
               loaded[i].action = action /\ RulePasses(loaded[i], q, c[2], c[1], rt))
             <=> \E e \in ToSet(file) : e.action = action /\ EntryHolds(e, q, c[2], c[1], rt)
<1>1. DOMAIN loaded = 1 .. Len(file) /\ DOMAIN file = 1 .. Len(file)
  BY DEF IInv, Progress
<1>2. ASSUME NEW i \in 1 .. Len(file)
      PROVE  /\ loaded[i].action = file[i].action
             /\ RulePasses(loaded[i], q, c[2], c[1], rt) <=> EntryHolds(file[i], q, c[2], c[1], rt)
  <2>1. PICK e \in AllEntries : e = file[i]
    BY <1>1, Whole
  <2>2. PICK rule : rule = loaded[i]
    OBVIOUS
  <2>3. /\ Accepted(e) /\ rule.action = RuleOf(e).action
        /\ rule.matchers \in Seq(RuleOf(e).matchers) /\ ToSet(rule.matchers) = RuleOf(e).matchers
    BY <1>1, <2>1, <2>2, Whole
  <2>4. RuleOf(e).action = e.action
    BY DEF RuleOf
  <2>5. e \in ToSet(file)
    BY <1>1, <2>1 DEF ToSet
  <2>6. \A l \in Lines(e) : Plainly(l)
    BY <2>3, <2>5 DEF Plainly, Accepted, OneEach
  <2>7. \A l \in Lines(e) : Reads(l, q, c[2])
    BY <2>5 DEF StarsAsMeant
  <2>8. rt \notin Missing
    BY RulesetAssumption
  <2>9. PICK s : s = c[2]
    OBVIOUS
  <2>10. (s.anonymous => EmailOf(s) = {}) /\ \A l \in Lines(e) : Reads(l, q, s)
    BY <2>7, <2>9, Unnamed
  <2>11. RulePasses(rule, q, s, c[1], rt) <=> EntryHolds(e, q, s, c[1], rt)
    BY <2>3, <2>6, <2>8, <2>10, EntryMeans
  <2> QED BY <2>1, <2>2, <2>3, <2>4, <2>9, <2>11
<1> QED BY <1>1, <1>2 DEF ToSet

\* With patterns that match what they are said to match (the run compares
\* MatchWildcard with that), the rules that are loaded decide about everybody as
\* the file says: for every file, however its lines are split over entries, in
\* whatever order the matchers come out of the map.  The claim of a line is the one
\* at the path its name stands for (matchers.go:171).
THEOREM MeaningIsKept == Spec => [](StarsAsMeant => MeaningKept)
<1>1. IInv => (StarsAsMeant => MeaningKept)
  <2> SUFFICES ASSUME IInv, StarsAsMeant, phase = "ready", OneEach,
                      NEW c \in Callers, NEW q \in Requests, NEW rt \in Runtimes
               PROVE  Allowed(q, c[2], c[1], rt) = MeantToPass(q, c[2], c[1], rt)
    BY DEF MeaningKept
  <2>1. Allowed(q, c[2], c[1], rt) <=> MeantToPass(q, c[2], c[1], rt)
    BY RulesAreEntries DEF Allowed, MeantToPass
  <2>2. Allowed(q, c[2], c[1], rt) \in BOOLEAN /\ MeantToPass(q, c[2], c[1], rt) \in BOOLEAN
    BY DEF Allowed, MeantToPass
  <2> QED BY <2>1, <2>2
<1> QED BY <1>1, Invariance, PTL

-----------------------------------------------------------------------------
(* Tokens and cookies *)

\* No rule can tell session s from session t when it answers request q.
Alike(s, t, q) ==
    /\ s.anonymous = t.anonymous /\ s.uid = t.uid
    /\ \A k \in Mentioned(q) : k \in DOMAIN s.claims <=> k \in DOMAIN t.claims
    /\ \A k \in Mentioned(q) : k \in DOMAIN s.claims => s.claims[k] = t.claims[k]

\* The shorthand makes a role matcher.
LEMMA ShorthandKind ==
    ASSUME NEW e, IsShorthand(e), NEW m \in RuleOf(e).matchers
    PROVE  m.kind = "role"
<1> DEFINE role == [kind |-> "role", roles |-> SplitRoleArgs(e.args)]
<1>1. RuleOf(e).matchers = {role}
  BY DEF RuleOf
<1>2. role.kind = "role"
  OBVIOUS
<1> HIDE DEF role
<1> QED BY <1>1, <1>2

\* A matcher of a block is made of lines of the block.
LEMMA BlockMatcher ==
    ASSUME NEW e \in AllEntries, ~IsShorthand(e), NEW m \in RuleOf(e).matchers
    PROVE  \E n \in Matchers : m = Matcher(n, {l \in Lines(e) : l.matcher = n})
<1>1. m \in MatcherSet(e)
  BY DEF RuleOf
<1>2. PICK n \in {l.matcher : l \in Lines(e)} : m = Matcher(n, {l \in Lines(e) : l.matcher = n})
  BY <1>1 DEF MatcherSet
<1>3. n \in Matchers
  <2>1. e.lines \in Seq(AllLines) /\ DOMAIN e.lines = 1 .. Len(e.lines)
    BY DEF AllEntries
  <2>2. \A j \in 1 .. Len(e.lines) : e.lines[j] \in AllLines
    BY <2>1
  <2>3. \A l \in AllLines : l.matcher \in Matchers
    BY DEF AllLines
  <2> QED BY <1>2, <2>1, <2>2, <2>3 DEF Lines, ToSet
<1> QED BY <1>2, <1>3

\* A matcher of a rule looks at the claims that are mentioned, and at no others.
LEMMA LooksAt ==
    ASSUME IInv, NEW i \in DOMAIN loaded, NEW m \in rules[i].matchers, NEW q
    PROVE  /\ m.kind # "not"
           /\ m.kind = "claim" => \A c \in m.claims : Key(Expand(q, c.name)) \in Mentioned(q)
           /\ m.kind = "role" => "email" \in Mentioned(q)
<1>1. PICK e \in AllEntries : e = file[i] /\ e \in ToSet(file)
  <2>1. DOMAIN file = 1 .. Len(file)
    BY DEF IInv
  <2> QED BY <2>1, Whole DEF ToSet
<1>2. rules[i] = RuleOf(e) /\ i \in DOMAIN rules
  BY <1>1, Whole
<1>3. ASSUME m.kind = "role" PROVE "email" \in Mentioned(q)
  BY <1>2, <1>3 DEF Mentioned
<1>4. ASSUME m.kind = "claim", NEW c \in m.claims PROVE Key(Expand(q, c.name)) \in Mentioned(q)
  <2>1. ~IsShorthand(e)
    BY <1>2, <1>4, ShorthandKind
  <2>2. PICK n \in Matchers : m = Matcher(n, {l \in Lines(e) : l.matcher = n})
    BY <1>2, <2>1, BlockMatcher
  <2>5. PICK ls : ls = {l \in Lines(e) : l.matcher = n}
    OBVIOUS
  <2>6. n = "claim"
    BY <2>2, <1>4, KindOf
  <2>7. m.claims = {[name |-> Head(l.args), values |-> ToSet(Tail(l.args))] : l \in ls}
    BY <2>2, <2>5, <2>6 DEF Matcher
  <2>8. PICK l \in ls : c.name = Head(l.args)
    BY <2>7, <1>4
  <2>9. l \in UNION {Lines(d) : d \in ToSet(file)} /\ l.matcher = "claim"
    BY <1>1, <2>5, <2>6
  <2>10. Key(Expand(q, Head(l.args))) \in Mentioned(q)
    BY <2>9 DEF Mentioned
  <2> QED BY <2>8, <2>10
<1>5. m.kind # "not"
  <2>1. CASE IsShorthand(e)
    BY <1>2, <2>1, ShorthandKind
  <2>2. CASE ~IsShorthand(e)
    <3>1. PICK n \in Matchers : m = Matcher(n, {l \in Lines(e) : l.matcher = n})
      BY <1>2, <2>2, BlockMatcher
    <3> QED BY <3>1, KindOf DEF Matchers
  <2> QED BY <2>1, <2>2
<1> QED BY <1>3, <1>4, <1>5

\* It passes for one if it passes for the other.
LEMMA PassesAlike ==
    ASSUME NEW m, m.kind \notin {"auth_method", "not"}, NEW q, NEW s, NEW t, Alike(s, t, q),
           m.kind = "claim" => \A c \in m.claims : Key(Expand(q, c.name)) \in Mentioned(q),
           m.kind = "role" => "email" \in Mentioned(q), NEW a, NEW b, NEW rt
    PROVE  Passes(m, q, s, a, rt) <=> Passes(m, q, t, b, rt)
<1>1. UserPasses(m, q, s) <=> UserPasses(m, q, t)
  BY DEF Alike, UserPasses
<1>2. ASSUME m.kind = "claim", NEW c \in m.claims
      PROVE  ClaimMatches(c, q, s) <=> ClaimMatches(c, q, t)
  <2>1. PICK k : k = Expand(q, c.name)
    OBVIOUS
  <2>2. Key(k) \in Mentioned(q)
    BY <2>1, <1>2
  <2>3. ClaimAt(s.claims, k) = ClaimAt(t.claims, k)
    BY <2>2 DEF Alike, ClaimAt
  <2> QED BY <2>1, <2>3 DEF ClaimMatches
<1>3. ASSUME m.kind = "role" PROVE RolePasses(m, q, s, rt) <=> RolePasses(m, q, t, rt)
  <2>1. EmailOf(s) = EmailOf(t)
    BY <1>3 DEF Alike, EmailOf
  <2>2. NeedsDirectory(m, s) <=> NeedsDirectory(m, t)
    BY DEF Alike, NeedsDirectory
  <2> QED BY <2>1, <2>2 DEF RolePasses
<1>4. s.anonymous <=> t.anonymous
  BY DEF Alike
<1> QED BY <1>1, <1>2, <1>3, <1>4 DEF Passes, SimplePasses

\* So does a rule, and so do all of them.
LEMMA AllowedAlike ==
    ASSUME IInv, MethodBlind, NEW q, NEW s, NEW t, Alike(s, t, q), NEW a, NEW b, NEW rt
    PROVE  Allowed(q, s, a, rt) = Allowed(q, t, b, rt)
<1>1. ASSUME NEW i \in DOMAIN loaded
      PROVE  RulePasses(loaded[i], q, s, a, rt) <=> RulePasses(loaded[i], q, t, b, rt)
  <2>1. PICK S : S = rules[i].matchers
    OBVIOUS
  <2>2. PICK rule : rule = loaded[i]
    OBVIOUS
  <2>3. rule.matchers \in Seq(S) /\ ToSet(rule.matchers) = S /\ i \in DOMAIN rules
    BY <2>1, <2>2, Whole
  <2>4. ASSUME NEW m \in S PROVE Passes(m, q, s, a, rt) <=> Passes(m, q, t, b, rt)
    <3>1. m.kind # "auth_method"
      BY <2>1, <2>3 DEF MethodBlind
    <3>2. /\ m.kind # "not"
          /\ m.kind = "claim" => \A c \in m.claims : Key(Expand(q, c.name)) \in Mentioned(q)
          /\ m.kind = "role" => "email" \in Mentioned(q)
      BY <2>1, LooksAt
    <3> QED BY <3>1, <3>2, PassesAlike
  <2>5. /\ RulePasses(rule, q, s, a, rt) <=> S # {} /\ \A m \in S : Passes(m, q, s, a, rt)
        /\ RulePasses(rule, q, t, b, rt) <=> S # {} /\ \A m \in S : Passes(m, q, t, b, rt)
    BY <2>3, AnyOrder
  <2> QED BY <2>2, <2>4, <2>5
<1>2. Allowed(q, s, a, rt) <=> Allowed(q, t, b, rt)
  BY <1>1 DEF Allowed
<1>3. Allowed(q, s, a, rt) \in BOOLEAN /\ Allowed(q, t, b, rt) \in BOOLEAN
  BY DEF Allowed
<1> QED BY <1>2, <1>3

\* What a name leads to that is a key and nothing more.
LEMMA PlainClaim ==
    ASSUME NEW name, Path(name) = <<name>>, NEW claims
    PROVE  ClaimAt(claims, name) = IF name \in DOMAIN claims THEN {claims[name]} ELSE {}
<1>1. Key(name) = name /\ Tail(Path(name)) = <<>>
  BY DEF Key
<1> QED BY <1>1 DEF ClaimAt, Inside

\* The two ways agree on the name, where Plain and Copied hold.
LEMMA SameUser ==
    ASSUME NEW name, NEW p, NEW o, NEW q, Plain(name, p), Copied(name, p, o, q)
    PROVE  TokenUser(p.token, name) = InfoUser(p.info, name)
<1>0. ClaimAt(p.token, name) = IF name \in DOMAIN p.token THEN {p.token[name]} ELSE {}
  BY PlainClaim DEF Plain
<1>1. CASE name \in DOMAIN p.info
  <2>1. name \in DOMAIN p.token
    BY <1>1 DEF Plain, Copied
  <2>2. PICK v : v = p.info[name]
    OBVIOUS
  <2>3. p.token[name] = v /\ ~v.isNull
    BY <1>1, <2>1, <2>2 DEF Plain, Copied
  <2>4. TokenUser(p.token, name) = {u \in v.strings : IsString(v)}
    <3>1. ClaimAt(p.token, name) = {v}
      BY <1>0, <2>1, <2>3
    <3>2. TokenUser(p.token, name) = UNION {w.strings : w \in {z \in {v} : IsString(z)}}
      BY <3>1 DEF TokenUser
    <3> QED BY <3>2
  <2>5. InfoUser(p.info, name) = {u \in v.strings : IsString(v)}
    BY <1>1, <2>2, <2>3 DEF InfoUser
  <2> QED BY <2>4, <2>5
<1>2. CASE name \notin DOMAIN p.info
  BY <1>0, <1>2 DEF Copied, TokenUser, InfoUser
<1> QED BY <1>1, <1>2

\* They agree on the claims that are mentioned.
LEMMA SameClaims ==
    ASSUME NEW name, NEW p, NEW o, NEW q, Copied(name, p, o, q), NEW u
    PROVE  Alike(Session(u, p.token),
                 Session(u, ExtractClaims(ExtractClaims(<<>>, p.token, o.id_claims), p.info, o.claims)), q)
<1> DEFINE D == ExtractClaims(<<>>, p.token, o.id_claims)
           E == ExtractClaims(D, p.info, o.claims)
<1>1. DOMAIN D = o.id_claims \cap DOMAIN p.token /\ \A k \in DOMAIN D : D[k] = p.token[k]
  BY DEF ExtractClaims
<1> HIDE DEF D
<1>2. /\ DOMAIN E = DOMAIN D \union (o.claims \cap DOMAIN p.info)
      /\ \A k \in DOMAIN E : E[k] = IF k \in o.claims \cap DOMAIN p.info THEN p.info[k] ELSE D[k]
  BY DEF ExtractClaims
<1> HIDE DEF E
<1>3. ASSUME NEW k \in Mentioned(q)
      PROVE  /\ k \in DOMAIN p.token <=> k \in DOMAIN E
             /\ k \in DOMAIN p.token => p.token[k] = E[k]
  BY <1>1, <1>2 DEF Copied
<1>4. Alike(Session(u, p.token), Session(u, E), q)
  BY <1>3 DEF Alike, Session
<1> QED BY <1>4 DEF E, D

\* A person is judged alike behind a token and behind a session cookie, for every
\* file that does not ask for the method: the rules follow paths into the claims
\* (matchers.go:171), and the options copy, by its key, each claim that a path starts
\* from (cookie.go, extractClaims).  Whatever else the provider says.
THEOREM JudgedAlike == Spec => []SameVerdict
<1>1. IInv => SameVerdict
  <2> SUFFICES ASSUME IInv, MethodBlind, NEW name \in UsernameClaims, NEW p \in People,
                      NEW o \in CookieOptions, NEW q \in Requests, NEW rt \in Runtimes,
                      Copied(name, p, o, q), Plain(name, p)
               PROVE  {Allowed(q, s, "bearer", rt) : s \in Bearers(name, p)}
                        = {Allowed(q, s, "cookie", rt) : s \in Logins(name, p, o)}
    BY DEF SameVerdict
  <2> DEFINE Users == TokenUser(p.token, name)
             B(u) == Session(u, p.token)
             L(u) == Session(u, ExtractClaims(ExtractClaims(<<>>, p.token, o.id_claims), p.info, o.claims))
  <2>1. Bearers(name, p) = {B(u) : u \in Users}
    BY DEF Bearers, NewFromIDToken
  <2>2. Logins(name, p, o) = {L(u) : u \in Users}
    BY SameUser DEF Logins, SessionOfLogin
  <2>3. \A u \in Users : Alike(B(u), L(u), q)
    BY SameClaims
  <2> HIDE DEF B, L, Users
  <2>4. \A u \in Users : Allowed(q, B(u), "bearer", rt) = Allowed(q, L(u), "cookie", rt)
    BY <2>3, AllowedAlike
  <2>5. /\ {Allowed(q, s, "bearer", rt) : s \in Bearers(name, p)}
             = {Allowed(q, B(u), "bearer", rt) : u \in Users}
        /\ {Allowed(q, s, "cookie", rt) : s \in Logins(name, p, o)}
             = {Allowed(q, L(u), "cookie", rt) : u \in Users}
    BY <2>1, <2>2
  <2> QED BY <2>4, <2>5
<1> QED BY <1>1, Invariance, PTL

-----------------------------------------------------------------------------
(* Patterns: texts are sequences of characters, and the star is one of them *)

CONSTANT Letter  \* the character "*"

Stars == INSTANCE Wildcard WITH Star <- <<Letter>>

\* What SubSeq is, the empty sequence included.
LEMMA Piece ==
    ASSUME NEW Chars, NEW s \in Seq(Chars), NEW i \in 1 .. Len(s) + 1, NEW j \in i - 1 .. Len(s)
    PROVE  /\ SubSeq(s, i, j) \in Seq(Chars) /\ Len(SubSeq(s, i, j)) = j - i + 1
           /\ \A k \in 1 .. j - i + 1 : SubSeq(s, i, j)[k] = s[i + k - 1]
  BY SubSeqProperties

\* A sequence put together from three.
LEMMA InThree ==
    ASSUME NEW Chars, NEW x \in Seq(Chars), NEW c \in Seq(Chars), NEW y \in Seq(Chars)
    PROVE  /\ x \o c \o y \in Seq(Chars)
           /\ Len(x \o c \o y) = Len(x) + Len(c) + Len(y)
           /\ \A k \in 1 .. Len(x) : (x \o c \o y)[k] = x[k]
           /\ \A k \in 1 .. Len(c) : (x \o c \o y)[Len(x) + k] = c[k]
           /\ \A k \in 1 .. Len(y) : (x \o c \o y)[Len(x) + Len(c) + k] = y[k]
<1>1. PICK xc \in Seq(Chars) : xc = x \o c
  BY ConcatProperties
<1>2. /\ Len(xc) = Len(x) + Len(c)
      /\ \A k \in 1 .. Len(x) : xc[k] = x[k]
      /\ \A k \in 1 .. Len(c) : xc[Len(x) + k] = c[k]
  BY <1>1
<1>3. PICK all \in Seq(Chars) : all = xc \o y
  BY ConcatProperties
<1>4. /\ Len(all) = Len(xc) + Len(y)
      /\ \A k \in 1 .. Len(xc) : all[k] = xc[k]
      /\ \A k \in 1 .. Len(y) : all[Len(xc) + k] = y[k]
  BY <1>3
<1>5. \A k \in 1 .. Len(x) : k \in 1 .. Len(xc)
  BY <1>2
<1>6. \A k \in 1 .. Len(c) : Len(x) + k \in 1 .. Len(xc)
  BY <1>2
<1> QED
  BY <1>1, <1>2, <1>3, <1>4, <1>5, <1>6

\* A sequence taken apart again.
LEMMA CutInThree ==
    ASSUME NEW Chars, NEW s \in Seq(Chars), NEW i \in 1 .. Len(s) + 1, NEW j \in i - 1 .. Len(s)
    PROVE  s = SubSeq(s, 1, i - 1) \o SubSeq(s, i, j) \o SubSeq(s, j + 1, Len(s))
<1>1. PICK h \in 0 .. Len(s) : h = i - 1
  OBVIOUS
<1>2. 1 \in 1 .. Len(s) + 1 /\ h \in 1 - 1 .. Len(s) /\ j \in h .. Len(s) /\ h + 1 = i
  BY <1>1
<1>3. SubSeq(s, 1, h) \o SubSeq(s, h + 1, j) = SubSeq(s, 1, j)
  BY <1>2, ConcatAdjacentSubSeq
<1>4. j \in 1 - 1 .. Len(s) /\ Len(s) \in j .. Len(s)
  OBVIOUS
<1>5. SubSeq(s, 1, j) \o SubSeq(s, j + 1, Len(s)) = SubSeq(s, 1, Len(s))
  BY <1>2, <1>4, ConcatAdjacentSubSeq
<1> QED
  BY <1>1, <1>2, <1>3, <1>5, SubSeqFull

\* s is c, with a member of X in front and a member of Y behind it.
Around(s, X, c, Y) == \E x \in X, y \in Y : s = x \o c \o y

LEMMA IsText ==
    ASSUME NEW s, NEW i \in 1 .. Len(s) + 1, NEW j \in 0 .. Len(s)
    PROVE  SubSeq(s, i, j) \in Stars!Texts(s)
  BY DEF Stars!Texts

LEMMA EmptyPiece ==
    ASSUME NEW Chars, NEW s \in Seq(Chars), NEW i \in Int, NEW j \in Int, j < i
    PROVE  SubSeq(s, i, j) = <<>>
  BY SubSeqProperties

LEMMA TextsType ==
    ASSUME NEW Chars, NEW s \in Seq(Chars), NEW x \in Stars!Texts(s)
    PROVE  x \in Seq(Chars)
<1>1. PICK i \in 1 .. Len(s) + 1, j \in 0 .. Len(s) : x = SubSeq(s, i, j)
  BY DEF Stars!Texts
<1>2. CASE j < i
  BY <1>1, <1>2, EmptyPiece, EmptySeq
<1>3. CASE i <= j
  BY <1>1, <1>3, Piece
<1> QED
  BY <1>2, <1>3

\* A piece of s, with a text in front and another behind it.
LEMMA PieceMeans ==
    ASSUME NEW Chars, NEW s \in Seq(Chars), NEW c \in Seq(Chars),
           NEW i \in 1 .. Len(s) + 1, i + Len(c) - 1 <= Len(s), SubSeq(s, i, i + Len(c) - 1) = c
    PROVE  /\ s = SubSeq(s, 1, i - 1) \o c \o SubSeq(s, i + Len(c), Len(s))
           /\ SubSeq(s, 1, i - 1) \in Stars!Texts(s)
           /\ i + Len(c) <= Len(s) + 1 => SubSeq(s, i + Len(c), Len(s)) \in Stars!Texts(s)
<1>1. PICK j : j = i + Len(c) - 1
  OBVIOUS
<1>2. j \in i - 1 .. Len(s) /\ j + 1 = i + Len(c) /\ Len(s) \in Nat /\ i - 1 \in 0 .. Len(s)
      /\ 1 \in 1 .. Len(s) + 1 /\ Len(s) \in 0 .. Len(s)
  BY <1>1
<1>3. s = SubSeq(s, 1, i - 1) \o SubSeq(s, i, j) \o SubSeq(s, j + 1, Len(s))
  BY <1>2, CutInThree
<1>4. SubSeq(s, 1, i - 1) \in Stars!Texts(s)
  BY <1>2, IsText
<1>5. ASSUME i + Len(c) <= Len(s) + 1 PROVE SubSeq(s, i + Len(c), Len(s)) \in Stars!Texts(s)
  <2>1. i + Len(c) \in 1 .. Len(s) + 1
    BY <1>5
  <2> QED
    BY <1>2, <2>1, IsText
<1> QED
  BY <1>1, <1>2, <1>3, <1>4, <1>5

\* The other way round.
LEMMA MeansPiece ==
    ASSUME NEW Chars, NEW s \in Seq(Chars), NEW c \in Seq(Chars),
           NEW x \in Seq(Chars), NEW y \in Seq(Chars), s = x \o c \o y
    PROVE  /\ Len(x) + 1 \in 1 .. Len(s) + 1
           /\ Len(s) = Len(x) + Len(c) + Len(y)
           /\ SubSeq(s, Len(x) + 1, Len(x) + Len(c)) = c
<1>1. Len(s) = Len(x) + Len(c) + Len(y) /\ \A k \in 1 .. Len(c) : s[Len(x) + k] = c[k]
  BY InThree
<1>2. PICK i, j : i = Len(x) + 1 /\ j = Len(x) + Len(c)
  OBVIOUS
<1>3. i \in 1 .. Len(s) + 1 /\ j \in i - 1 .. Len(s) /\ j - i + 1 = Len(c)
  BY <1>1, <1>2
<1>4. PICK d \in Seq(Chars) : d = SubSeq(s, i, j)
  BY <1>3, Piece
<1>5. Len(d) = Len(c) /\ \A k \in 1 .. Len(c) : d[k] = s[i + k - 1]
  BY <1>3, <1>4, Piece
<1>6. \A k \in 1 .. Len(c) : i + k - 1 = Len(x) + k
  BY <1>2
<1>7. \A k \in 1 .. Len(c) : d[k] = c[k]
  BY <1>1, <1>5, <1>6
<1>8. d = c
  BY <1>5, <1>7, SeqEqual
<1> QED
  BY <1>1, <1>2, <1>3, <1>4, <1>8

\* strings.Contains: c with texts on both sides.
LEMMA InsideMeans ==
    ASSUME NEW Chars, NEW s \in Seq(Chars), NEW c \in Seq(Chars)
    PROVE  Stars!HasInside(s, c) <=> Around(s, Stars!Texts(s), c, Stars!Texts(s))
<1>1. ASSUME NEW i \in 1 .. Len(s) + 1
      PROVE  Stars!HasPrefix(SubSeq(s, i, Len(s)), c)
               <=> i + Len(c) - 1 <= Len(s) /\ SubSeq(s, i, i + Len(c) - 1) = c
  <2>0. Len(s) \in i - 1 .. Len(s)
    OBVIOUS
  <2>1. PICK t \in Seq(Chars) : t = SubSeq(s, i, Len(s))
    BY <2>0, Piece
  <2>2. Len(t) = Len(s) - i + 1 /\ \A k \in 1 .. Len(t) : t[k] = s[i + k - 1]
    BY <2>0, <2>1, Piece
  <2>3. Stars!HasPrefix(t, c) <=> Len(c) <= Len(t) /\ SubSeq(t, 1, Len(c)) = c
    BY DEF Stars!HasPrefix
  <2>4. ASSUME Len(c) <= Len(t) PROVE SubSeq(t, 1, Len(c)) = SubSeq(s, i, i + Len(c) - 1)
    <3>1. 1 \in 1 .. Len(t) + 1 /\ Len(c) \in 1 - 1 .. Len(t)
          /\ i + Len(c) - 1 \in i - 1 .. Len(s)
      BY <2>2, <2>4
    <3>2. PICK u \in Seq(Chars) : u = SubSeq(t, 1, Len(c))
      BY <3>1, Piece
    <3>3. PICK w \in Seq(Chars) : w = SubSeq(s, i, i + Len(c) - 1)
      BY <3>1, Piece
    <3>4. Len(u) = Len(c) /\ \A k \in 1 .. Len(c) : u[k] = t[k]
      BY <3>1, <3>2, Piece
    <3>5. Len(w) = Len(c) /\ \A k \in 1 .. Len(c) : w[k] = s[i + k - 1]
      BY <3>1, <3>3, Piece
    <3>6. \A k \in 1 .. Len(c) : u[k] = w[k]
      <4>1. \A k \in 1 .. Len(c) : k \in 1 .. Len(t)
        BY <2>2, <2>4
      <4> QED
        BY <4>1, <3>4, <3>5, <2>2
    <3>7. u = w
      BY <3>4, <3>5, <3>6, SeqEqual
    <3> QED
      BY <3>2, <3>3, <3>7
  <2> QED
    BY <2>1, <2>2, <2>3, <2>4
<1>2. ASSUME Stars!HasInside(s, c) PROVE Around(s, Stars!Texts(s), c, Stars!Texts(s))
  <2>1. PICK i \in 1 .. Len(s) + 1 : i + Len(c) - 1 <= Len(s) /\ SubSeq(s, i, i + Len(c) - 1) = c
    BY <1>1, <1>2 DEF Stars!HasInside
  <2>2. i + Len(c) <= Len(s) + 1
    BY <2>1
  <2>3. PICK x, y : x = SubSeq(s, 1, i - 1) /\ y = SubSeq(s, i + Len(c), Len(s))
    OBVIOUS
  <2>4. s = x \o c \o y /\ x \in Stars!Texts(s) /\ y \in Stars!Texts(s)
    BY <2>1, <2>2, <2>3, PieceMeans
  <2> QED
    BY <2>4 DEF Around
<1>3. ASSUME NEW x \in Stars!Texts(s), NEW y \in Stars!Texts(s), s = x \o c \o y
      PROVE  Stars!HasInside(s, c)
  <2>1. x \in Seq(Chars) /\ y \in Seq(Chars)
    BY TextsType
  <2>2. PICK i : i = Len(x) + 1
    OBVIOUS
  <2>3. i \in 1 .. Len(s) + 1 /\ Len(s) = Len(x) + Len(c) + Len(y)
        /\ SubSeq(s, i, Len(x) + Len(c)) = c
    BY <1>3, <2>1, <2>2, MeansPiece
  <2>4. Len(x) + Len(c) = i + Len(c) - 1 /\ i + Len(c) - 1 <= Len(s)
    BY <2>1, <2>2, <2>3
  <2> QED
    BY <1>1, <2>3, <2>4 DEF Stars!HasInside
<1> QED
  BY <1>2, <1>3 DEF Around

\* strings.HasSuffix: c with a text in front.
LEMMA SuffixMeans ==
    ASSUME NEW Chars, NEW s \in Seq(Chars), NEW c \in Seq(Chars)
    PROVE  Stars!HasSuffix(s, c) <=> Around(s, Stars!Texts(s), c, {<<>>})
<1>1. ASSUME Stars!HasSuffix(s, c) PROVE Around(s, Stars!Texts(s), c, {<<>>})
  <2>1. PICK i \in 1 .. Len(s) + 1 : i = Len(s) - Len(c) + 1
    <3>1. Len(c) \in Nat /\ Len(s) \in Nat /\ Len(c) <= Len(s)
      BY <1>1 DEF Stars!HasSuffix
    <3>2. Len(s) - Len(c) + 1 \in 1 .. Len(s) + 1
      BY <3>1
    <3> QED
      BY <3>2
  <2>2. i + Len(c) - 1 = Len(s) /\ i + Len(c) = Len(s) + 1
    BY <2>1
  <2>3. i + Len(c) - 1 <= Len(s) /\ SubSeq(s, i, i + Len(c) - 1) = c
    BY <1>1, <2>1, <2>2 DEF Stars!HasSuffix
  <2>4. /\ s = SubSeq(s, 1, i - 1) \o c \o SubSeq(s, i + Len(c), Len(s))
        /\ SubSeq(s, 1, i - 1) \in Stars!Texts(s)
    BY <2>3, PieceMeans
  <2>5. SubSeq(s, i + Len(c), Len(s)) = <<>>
    BY <2>2, EmptyPiece
  <2> QED
    BY <2>4, <2>5 DEF Around
<1>2. ASSUME NEW x \in Stars!Texts(s), s = x \o c \o <<>> PROVE Stars!HasSuffix(s, c)
  <2>1. x \in Seq(Chars) /\ <<>> \in Seq(Chars) /\ Len(<<>>) = 0
    BY TextsType, EmptySeq
  <2>2. Len(s) = Len(x) + Len(c) /\ SubSeq(s, Len(x) + 1, Len(x) + Len(c)) = c
    BY <1>2, <2>1, MeansPiece
  <2>3. Len(s) - Len(c) + 1 = Len(x) + 1 /\ Len(c) <= Len(s)
    BY <2>1, <2>2
  <2> QED
    BY <2>2, <2>3 DEF Stars!HasSuffix
<1> QED
  BY <1>1, <1>2 DEF Around

\* strings.HasPrefix: c with a text behind it.
LEMMA PrefixMeans ==
    ASSUME NEW Chars, NEW s \in Seq(Chars), NEW c \in Seq(Chars)
    PROVE  Stars!HasPrefix(s, c) <=> Around(s, {<<>>}, c, Stars!Texts(s))
<1>1. ASSUME Stars!HasPrefix(s, c) PROVE Around(s, {<<>>}, c, Stars!Texts(s))
  <2>1. 1 \in 1 .. Len(s) + 1 /\ 1 + Len(c) - 1 <= Len(s) /\ 1 + Len(c) <= Len(s) + 1
        /\ 1 + Len(c) - 1 = Len(c)
    BY <1>1 DEF Stars!HasPrefix
  <2>2. SubSeq(s, 1, 1 + Len(c) - 1) = c
    BY <1>1, <2>1 DEF Stars!HasPrefix
  <2>3. SubSeq(s, 1, 1 - 1) = <<>>
    BY EmptyPiece
  <2>4. PICK y : y = SubSeq(s, 1 + Len(c), Len(s))
    OBVIOUS
  <2>5. s = <<>> \o c \o y /\ y \in Stars!Texts(s)
    BY <2>1, <2>2, <2>3, <2>4, PieceMeans
  <2> QED
    BY <2>5 DEF Around
<1>2. ASSUME NEW y \in Stars!Texts(s), s = <<>> \o c \o y PROVE Stars!HasPrefix(s, c)
  <2>1. y \in Seq(Chars) /\ <<>> \in Seq(Chars) /\ Len(<<>>) = 0
    BY TextsType, EmptySeq
  <2>2. Len(s) = Len(<<>>) + Len(c) + Len(y) /\ SubSeq(s, Len(<<>>) + 1, Len(<<>>) + Len(c)) = c
    BY <1>2, <2>1, MeansPiece
  <2>3. Len(<<>>) + 1 = 1 /\ Len(<<>>) + Len(c) = Len(c) /\ Len(c) <= Len(s)
    BY <2>1, <2>2
  <2> QED
    BY <2>2, <2>3 DEF Stars!HasPrefix
<1> QED
  BY <1>1, <1>2 DEF Around

\* What a pattern stands for, by where its stars are.
LEMMA MeansByStars ==
    ASSUME NEW Chars, NEW value \in Seq(Chars), NEW pattern
    PROVE  Stars!StarMeans(pattern, value)
             <=> Around(value, IF Stars!Front(pattern) THEN Stars!Texts(value) ELSE {<<>>},
                        Stars!Core(pattern),
                        IF Stars!Ends(pattern) THEN Stars!Texts(value) ELSE {<<>>})
<1>1. Stars!Empty(value) = <<>>
  BY EmptyPiece DEF Stars!Empty
<1>2. Stars!StarMeans(pattern, value)
        <=> Around(value, IF Stars!Front(pattern) THEN Stars!Texts(value) ELSE {Stars!Empty(value)},
                   Stars!Core(pattern),
                   IF Stars!Ends(pattern) THEN Stars!Texts(value) ELSE {Stars!Empty(value)})
  BY Zenon DEF Stars!StarMeans, Around
<1> QED
  BY <1>1, <1>2, Zenon

\* MatchWildcard (matchers.go) accepts exactly the values that a pattern stands for, whatever
\* the pattern and the value are: also a pattern of stars only, and a value shorter than it.
THEOREM PatternsMean ==
    ASSUME NEW Chars, Letter \in Chars, NEW pattern \in Seq(Chars), NEW value \in Seq(Chars)
    PROVE  Stars!StarMatches(pattern, value) <=> Stars!StarMeans(pattern, value)
<1>1. PICK star : star = <<Letter>>
  OBVIOUS
<1>2. star \in Seq(Chars) /\ Len(star) = 1
  BY <1>1
<1>3. PICK front \in BOOLEAN, last \in BOOLEAN, back \in BOOLEAN :
        /\ front <=> Stars!Front(pattern)
        /\ last <=> Stars!HasSuffix(pattern, star)
        /\ back <=> Stars!Ends(pattern)
  BY Zenon
<1>4. /\ front <=> Stars!HasPrefix(pattern, star)
      /\ last <=> Stars!HasSuffix(pattern, star)
      /\ back <=> last /\ pattern # star
  BY <1>1, <1>3 DEF Stars!Front, Stars!Ends, Stars!Back
<1>5. PICK c : c = Stars!Core(pattern)
  OBVIOUS
<1>6. c = SubSeq(pattern, IF front THEN 2 ELSE 1, Len(pattern) - (IF back THEN 1 ELSE 0))
  BY <1>3, <1>5 DEF Stars!Core
<1>7. Stars!StarMeans(pattern, value)
        <=> Around(value, IF front THEN Stars!Texts(value) ELSE {<<>>}, c,
                   IF back THEN Stars!Texts(value) ELSE {<<>>})
  BY <1>3, <1>5, MeansByStars
<1>8. c \in Seq(Chars)
  <2>1. PICK i \in {1, 2}, j \in {0, 1} :
          i = (IF front THEN 2 ELSE 1) /\ j = (IF back THEN 1 ELSE 0)
    OBVIOUS
  <2>2. PICK n \in Int : n = Len(pattern) - j
    <3>1. Len(pattern) \in Nat /\ j \in Int
      BY <2>1
    <3>2. Len(pattern) - j \in Int
      BY <3>1
    <3> QED
      BY <3>2
  <2>3. CASE n < i
    BY <1>6, <2>1, <2>2, <2>3, EmptyPiece, EmptySeq
  <2>4. CASE i <= n
    <3>1. i \in 1 .. Len(pattern) + 1 /\ n \in i - 1 .. Len(pattern)
      BY <2>1, <2>2, <2>4
    <3> QED
      BY <1>6, <2>1, <2>2, <3>1, Piece
  <2> QED
    BY <2>1, <2>2, <2>3, <2>4
<1>9. CASE pattern = star
  <2>1. Stars!StarMatches(pattern, value)
    BY <1>1, <1>9 DEF Stars!StarMatches, Stars!Front, Stars!Back
  <2>2. front = TRUE /\ back = FALSE
    <3>1. SubSeq(star, 1, Len(star)) = star
      BY <1>2, SubSeqFull
    <3>2. Stars!HasPrefix(star, star)
      BY <1>2, <3>1 DEF Stars!HasPrefix
    <3> QED
      BY <1>4, <1>9, <3>2
  <2>3. c = <<>>
    <3>1. c = SubSeq(star, 2, 1)
      BY <1>2, <1>6, <1>9, <2>2
    <3> QED
      BY <1>2, <3>1, EmptyPiece
  <2>4. value \in Stars!Texts(value)
    <3>1. 1 \in 1 .. Len(value) + 1 /\ Len(value) \in 0 .. Len(value)
      OBVIOUS
    <3>2. SubSeq(value, 1, Len(value)) \in Stars!Texts(value)
      BY <3>1, IsText
    <3> QED
      BY <3>2, SubSeqFull
  <2>5. value \o c \o <<>> = value
    BY <2>3, ConcatEmptySeq
  <2> QED
    BY <1>7, <2>1, <2>2, <2>4, <2>5 DEF Around
<1>10. CASE pattern # star /\ front /\ last
  <2>1. Stars!StarMatches(pattern, value) <=> Stars!HasInside(value, c)
    BY <1>1, <1>4, <1>6, <1>10 DEF Stars!StarMatches, Stars!Front, Stars!Back
  <2>2. Stars!HasInside(value, c) <=> Around(value, Stars!Texts(value), c, Stars!Texts(value))
    BY <1>8, InsideMeans
  <2> QED
    BY <1>4, <1>7, <1>10, <2>1, <2>2
<1>11. CASE pattern # star /\ front /\ ~last
  <2>1. Len(pattern) - 0 = Len(pattern)
    OBVIOUS
  <2>2. Stars!StarMatches(pattern, value) <=> Stars!HasSuffix(value, c)
    BY <1>1, <1>4, <1>6, <1>11, <2>1 DEF Stars!StarMatches, Stars!Front, Stars!Back
  <2>3. Stars!HasSuffix(value, c) <=> Around(value, Stars!Texts(value), c, {<<>>})
    BY <1>8, SuffixMeans
  <2> QED
    BY <1>4, <1>7, <1>11, <2>2, <2>3
<1>12. CASE pattern # star /\ ~front /\ last
  <2>1. Stars!StarMatches(pattern, value) <=> Stars!HasPrefix(value, c)
    BY <1>1, <1>4, <1>6, <1>12 DEF Stars!StarMatches, Stars!Front, Stars!Back
  <2>2. Stars!HasPrefix(value, c) <=> Around(value, {<<>>}, c, Stars!Texts(value))
    BY <1>8, PrefixMeans
  <2> QED
    BY <1>4, <1>7, <1>12, <2>1, <2>2
<1>13. CASE pattern # star /\ ~front /\ ~last
  <2>1. c = pattern
    <3>1. Len(pattern) - 0 = Len(pattern)
      OBVIOUS
    <3> QED
      BY <1>4, <1>6, <1>13, <3>1, SubSeqFull
  <2>2. Stars!StarMatches(pattern, value) <=> pattern = value
    BY <1>1, <1>4, <1>13 DEF Stars!StarMatches, Stars!Front, Stars!Back
  <2>3. <<>> \o c \o <<>> = pattern
    <3>1. <<>> \o c = c /\ c \o <<>> = c
      BY <1>8, ConcatEmptySeq
    <3> QED
      BY <2>1, <3>1
  <2> QED
    BY <1>4, <1>7, <1>13, <2>2, <2>3 DEF Around
<1> QED
  BY <1>4, <1>9, <1>10, <1>11, <1>12, <1>13

\* The hypothesis of MeaningIsKept is met when MatchWildcard and what patterns mean are
\* those of Wildcard: for all patterns that placeholders are filled into, and all names
\* and claims, the rules that are loaded decide about everybody as the file says
\* (matchers.go, MatchWildcard with the MatchWithError of user and claim).
THEOREM MeaningIsKeptByStars ==
    ASSUME NEW Chars, Letter \in Chars,
           \A p \in Seq(Chars), v \in Seq(Chars) :
             /\ MatchWildcard(p, v) <=> Stars!StarMatches(p, v)
             /\ MeantBy(p, v) <=> Stars!StarMeans(p, v),
           \A q \in Requests, a \in STRING : Expand(q, a) \in Seq(Chars),
           \A c \in Callers : ValuesOf(c[2]) \subseteq Seq(Chars)
    PROVE  Spec => []MeaningKept
<1>1. \A p \in Seq(Chars), v \in Seq(Chars) : MatchWildcard(p, v) <=> MeantBy(p, v)
  BY PatternsMean
<1>2. IInv => StarsAsMeant
  <2> SUFFICES ASSUME IInv, NEW e \in ToSet(file), NEW l \in Lines(e), NEW q \in Requests,
                      NEW c \in Callers, NEW a \in ToSet(l.args), NEW v \in ValuesOf(c[2])
               PROVE  MatchWildcard(Expand(q, a), v) <=> MeantBy(Expand(q, a), v)
    BY DEF StarsAsMeant, Reads
  <2>1. e \in AllEntries
    BY DEF IInv, ToSet
  <2>2. l \in AllLines
    <3>1. e.lines \in Seq(AllLines)
      BY <2>1 DEF AllEntries
    <3> QED
      BY <3>1 DEF Lines, ToSet
  <2>3. a \in STRING
    <3>1. l.args \in Seq(STRING)
      BY <2>2 DEF AllLines
    <3> QED
      BY <3>1 DEF ToSet
  <2>4. Expand(q, a) \in Seq(Chars) /\ v \in Seq(Chars)
    BY <2>3
  <2> QED
    BY <1>1, <2>4
<1> QED
  BY <1>2, Invariance, MeaningIsKept, PTL

=============================================================================
