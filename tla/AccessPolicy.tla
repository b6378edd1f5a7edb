---------------------------- MODULE AccessPolicy ----------------------------
(***************************************************************************)
(* Rules and matchers (rules.go, matchers.go) as predicates of a request,  *)
(* a session, an authentication method and the app's runtime.              *)
(*                                                                         *)
(* A session is a record: anonymous, uid, claims (see Claims).  A matcher  *)
(* is a record with a kind and the field of that kind; a rule has an       *)
(* action and a sequence of matchers, in the order Provision happened to   *)
(* range over the map of them.                                             *)
(*                                                                         *)
(* A matcher has four ways to end: it passes, it misses, it fails with an  *)
(* error, or it does not end because it waits for the directory.           *)
(*                                                                         *)
(* External are two kinds of Caddy's own: "request", for those that look   *)
(* at the request alone and may fail, and "not", whose matchers are in     *)
(* turn simple ones, and end in all four ways.                             *)
(***************************************************************************)

EXTENDS Naturals, Sequences, Claims, Directory, Request

CONSTANTS
    MatchWildcard(_, _),  \* MatchWildcard(pattern, value)
    Expand(_, _),         \* Expand(request, text): the replacer's ReplaceAll
    Unset,                \* the runtime is not loaded yet
    Failed,               \* it could not be loaded
    NoDirectory           \* it is loaded, and postgres is not configured

\* The runtime has no directory to ask.
Missing == {Unset, Failed, NoDirectory}

-----------------------------------------------------------------------------
(* Matchers *)

UserPasses(m, q, s) ==
    /\ ~s.anonymous
    /\ m.users = {} \/ \E u \in m.users : MatchWildcard(Expand(q, u), s.uid)

\* One claim: it exists at its path, and one of its strings matches one of the
\* values.
ClaimMatches(c, q, s) ==
    \E found \in ClaimAt(s.claims, Expand(q, c.name)) :
        \/ c.values = {}
        \/ \E v \in c.values, x \in found.strings : MatchWildcard(Expand(q, v), x)

\* The role matcher gets as far as asking for the runtime.
NeedsDirectory(m, s) == m.kind = "role" /\ ~s.anonymous /\ m.roles # {}

\* The e-mail claim, when it is a string: the empty set or a singleton.
EmailOf(s) ==
    {e \in (IF "email" \in DOMAIN s.claims THEN s.claims["email"].strings ELSE {}) :
        ~s.claims["email"].isArray}

RolePasses(m, q, s, rt) ==
    /\ NeedsDirectory(m, s)
    /\ rt \notin Missing
    /\ \E e \in EmailOf(s), role \in m.roles : HasRole(rt, e, Expand(q, role))

\* The matcher reports a match.
SimplePasses(m, q, s, method, rt) ==
    \/ m.kind = "user" /\ UserPasses(m, q, s)
    \/ m.kind = "anonymous" /\ s.anonymous
    \/ m.kind = "claim" /\ \A c \in m.claims : ClaimMatches(c, q, s)
    \/ m.kind = "auth_method" /\ method \in m.methods
    \/ m.kind = "role" /\ RolePasses(m, q, s, rt)
    \/ m.kind = "request" /\ q.path \in m.paths \ m.failing

\* The matcher waits in runtime() for the load to end.
Waits(m, s, rt) == NeedsDirectory(m, s) /\ rt = Unset

\* The matcher reports an error.
SimpleFails(m, q, s, rt) ==
    \/ NeedsDirectory(m, s) /\ rt \in {Failed, NoDirectory}
    \/ m.kind = "request" /\ q.path \in m.failing

SimpleMisses(m, q, s, method, rt) ==
    /\ ~SimplePasses(m, q, s, method, rt)
    /\ ~Waits(m, s, rt) /\ ~SimpleFails(m, q, s, rt)

-----------------------------------------------------------------------------
(* Caddy's not: a list of sets of matchers, none of which may pass *)

SetPasses(ms, q, s, method, rt) == \A i \in 1 .. Len(ms) : SimplePasses(ms[i], q, s, method, rt)

\* The first matcher that does not pass ends the set.
SetMisses(ms, q, s, method, rt) ==
    \E i \in 1 .. Len(ms) :
        /\ \A j \in 1 .. (i - 1) : SimplePasses(ms[j], q, s, method, rt)
        /\ SimpleMisses(ms[i], q, s, method, rt)

SetFails(ms, q, s, method, rt) ==
    \E i \in 1 .. Len(ms) :
        /\ \A j \in 1 .. (i - 1) : SimplePasses(ms[j], q, s, method, rt)
        /\ SimpleFails(ms[i], q, s, rt)

\* The sets before the k-th have missed.
Comes(k, m, q, s, method, rt) ==
    \A l \in 1 .. (k - 1) : SetMisses(m.sets[l], q, s, method, rt)

NotPasses(m, q, s, method, rt) == Comes(Len(m.sets) + 1, m, q, s, method, rt)

NotMisses(m, q, s, method, rt) ==
    \E k \in 1 .. Len(m.sets) :
        Comes(k, m, q, s, method, rt) /\ SetPasses(m.sets[k], q, s, method, rt)

NotFails(m, q, s, method, rt) ==
    \E k \in 1 .. Len(m.sets) :
        Comes(k, m, q, s, method, rt) /\ SetFails(m.sets[k], q, s, method, rt)

-----------------------------------------------------------------------------
(* Rules *)

Passes(m, q, s, method, rt) ==
    \/ m.kind # "not" /\ SimplePasses(m, q, s, method, rt)
    \/ m.kind = "not" /\ NotPasses(m, q, s, method, rt)

Misses(m, q, s, method, rt) ==
    \/ m.kind # "not" /\ SimpleMisses(m, q, s, method, rt)
    \/ m.kind = "not" /\ NotMisses(m, q, s, method, rt)

Fails(m, q, s, method, rt) ==
    \/ m.kind # "not" /\ SimpleFails(m, q, s, rt)
    \/ m.kind = "not" /\ NotFails(m, q, s, method, rt)

\* The first matcher that does not pass ends the conjunction.
RulePasses(rule, q, s, method, rt) ==
    /\ rule.matchers # <<>>
    /\ \A i \in 1 .. Len(rule.matchers) : Passes(rule.matchers[i], q, s, method, rt)

\* The matchers before the i-th pass.
Reaches(i, rule, q, s, method, rt) ==
    \A j \in 1 .. (i - 1) : Passes(rule.matchers[j], q, s, method, rt)

\* A rule without matchers never matches.
RuleMisses(rule, q, s, method, rt) ==
    \/ rule.matchers = <<>>
    \/ \E i \in 1 .. Len(rule.matchers) :
         /\ Reaches(i, rule, q, s, method, rt)
         /\ Misses(rule.matchers[i], q, s, method, rt)

RuleFails(rule, q, s, method, rt) ==
    \E i \in 1 .. Len(rule.matchers) :
         /\ Reaches(i, rule, q, s, method, rt)
         /\ Fails(rule.matchers[i], q, s, method, rt)

=============================================================================
