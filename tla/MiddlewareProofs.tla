-------------------------- MODULE MiddlewareProofs --------------------------
(***************************************************************************)
(* The decisions of the middleware are those of its rules, for any         *)
(* configuration, requests, sessions and directories, and any number of    *)
(* concurrent requests.                                                    *)
(*                                                                         *)
(* The heart of it is AnswersLast: what a rule has answered before the     *)
(* directory was there it still answers afterwards.  With it the loop      *)
(* invariant Judgement survives the load, and at the end of the loop says  *)
(* what the whole list of rules says.                                      *)
(***************************************************************************)

EXTENDS Middleware, TLAPS

-----------------------------------------------------------------------------
(* Rules and the directory *)

\* A simple matcher that has passed or missed without the directory does so with it.
LEMMA SimpleAnswersLast ==
    ASSUME NEW m, NEW q, NEW s, NEW mt, NEW rt
    PROVE  /\ SimplePasses(m, q, s, mt, Unset) => SimplePasses(m, q, s, mt, rt)
           /\ SimpleMisses(m, q, s, mt, Unset) => SimpleMisses(m, q, s, mt, rt)
  BY DEF SimplePasses, SimpleMisses, Waits, SimpleFails, RolePasses, Missing, NeedsDirectory

\* Neither does a set of matchers.
LEMMA SetAnswersLast ==
    ASSUME NEW ms, NEW q, NEW s, NEW mt, NEW rt
    PROVE  /\ SetPasses(ms, q, s, mt, Unset) => SetPasses(ms, q, s, mt, rt)
           /\ SetMisses(ms, q, s, mt, Unset) => SetMisses(ms, q, s, mt, rt)
  BY SimpleAnswersLast DEF SetPasses, SetMisses

\* Neither does any matcher, Caddy's not around others included.
LEMMA MatcherAnswersLast ==
    ASSUME NEW m, NEW q, NEW s, NEW mt, NEW rt
    PROVE  /\ Passes(m, q, s, mt, Unset) => Passes(m, q, s, mt, rt)
           /\ Misses(m, q, s, mt, Unset) => Misses(m, q, s, mt, rt)
<1>1. /\ NotPasses(m, q, s, mt, Unset) => NotPasses(m, q, s, mt, rt)
      /\ NotMisses(m, q, s, mt, Unset) => NotMisses(m, q, s, mt, rt)
  BY SetAnswersLast DEF NotPasses, NotMisses, Comes
<1> QED BY <1>1, SimpleAnswersLast DEF Passes, Misses

\* Neither does a rule change its answer.
LEMMA AnswersLast ==
    ASSUME NEW rule, NEW q, NEW s, NEW mt, NEW rt
    PROVE  /\ RulePasses(rule, q, s, mt, Unset) => RulePasses(rule, q, s, mt, rt)
           /\ RuleMisses(rule, q, s, mt, Unset) => RuleMisses(rule, q, s, mt, rt)
  BY MatcherAnswersLast DEF RulePasses, RuleMisses, Reaches

-----------------------------------------------------------------------------
(* The inductive invariant *)

\* Credentials before the next authenticator did not end the loop, and nothing
\* has been stripped or decided yet.
Authenticating(h) ==
    pc[h] = "authenticate" =>
        /\ verdict[h] = "implicit_deny" /\ ruleID[h] = 0
        /\ next[h] <= Len(cfg.authenticators) + 1
        /\ carried[h] = {m \in Methods : request[h].creds[m].status # "absent"}
        /\ \A j \in 1 .. (next[h] - 1) : Ignored(h, j)

\* The request has a session: its rules are being, or have been, evaluated.
Judged(h) ==
    \/ pc[h] \in {"evaluate", "login", "challenge"}
    \/ response[h] \in {"upstream", "login", "challenge", "403"}

\* Whose session it is, as FirstCredentialWins has it.
Identified(h) ==
    \/ \E i \in 1 .. Len(cfg.authenticators) :
         /\ method[h] = cfg.authenticators[i]
         /\ request[h].creds[method[h]] = [status |-> "good", session |-> session[h]]
         /\ \A j \in 1 .. (i - 1) : Ignored(h, j)
    \/ /\ method[h] = "none" /\ session[h] = Anonymous /\ ~cfg.required
       /\ \A j \in 1 .. Len(cfg.authenticators) : Ignored(h, j)

\* What the request still carries, as CredentialsForwarded has it.
StrippedClean(h) ==
    carried[h] = {m \in Methods : /\ request[h].creds[m].status # "absent"
                                  /\ cfg.preserve \/ m \notin Configured}

\* The loop over the rules: the verdict has a rule to show for it, and the rules
\* behind us that could have changed it were missed.
Judgement(h) ==
    /\ verdict[h] = "implicit_deny" =>
         /\ ruleID[h] = 0
         /\ \A i \in 1 .. Len(cfg.rules) : i < next[h] => RuleIsMissed(h, i)
    /\ verdict[h] = "allow" => ruleID[h] \in AllowRules /\ RuleMatches(h, ruleID[h])
    /\ verdict[h] = "explicit_deny" => ruleID[h] \in DenyRules /\ RuleMatches(h, ruleID[h])
    /\ verdict[h] # "explicit_deny" =>
         \A i \in DenyRules : i < next[h] => RuleIsMissed(h, i)

\* The answer is the one the verdict calls for, given at the end of the loop.
Answer(h) ==
    /\ response[h] # "none" => pc[h] = "done"
    /\ response[h] = "upstream" => verdict[h] = "allow" /\ next[h] > Len(cfg.rules)
    /\ response[h] = "403" =>
         \/ verdict[h] = "explicit_deny"
         \/ /\ verdict[h] = "implicit_deny" /\ ~session[h].anonymous
            /\ next[h] > Len(cfg.rules)
    /\ pc[h] \in {"login", "challenge"} \/ response[h] \in {"login", "challenge"} =>
         /\ verdict[h] = "implicit_deny" /\ session[h].anonymous
         /\ next[h] > Len(cfg.rules)

HInv(h) ==
    /\ Authenticating(h)
    /\ Judged(h) => Identified(h) /\ StrippedClean(h) /\ Judgement(h)
    /\ Answer(h)

IInv == TypeOK /\ \A h \in Handlers : HInv(h)

-----------------------------------------------------------------------------

\* A handler that stands still keeps its part of the invariant, whatever the
\* others do, and if the directory appears meanwhile.
LEMMA StandingStill ==
    ASSUME NEW h \in Handlers, HInv(h),
           cfg' = cfg, runtime' = runtime \/ runtime = Unset,
           pc'[h] = pc[h], request'[h] = request[h], next'[h] = next[h],
           session'[h] = session[h], method'[h] = method[h],
           carried'[h] = carried[h], verdict'[h] = verdict[h],
           ruleID'[h] = ruleID[h], response'[h] = response[h]
    PROVE  HInv(h)'
<1>1. \A i : RuleMatches(h, i) => RuleMatches(h, i)'
  BY AnswersLast DEF RuleMatches
<1>2. \A i : RuleIsMissed(h, i) => RuleIsMissed(h, i)'
  BY AnswersLast DEF RuleIsMissed
<1>3. AllowRules' = AllowRules /\ DenyRules' = DenyRules /\ Configured' = Configured
  BY DEF AllowRules, DenyRules, Configured
<1>4. \A j : Ignored(h, j)' = Ignored(h, j)
  BY DEF Ignored
<1>5. Authenticating(h)'
  BY <1>4 DEF HInv, Authenticating
<1>6. Judged(h)' => Identified(h)'
  BY <1>4 DEF HInv, Judged, Identified
<1>7. Judged(h)' => StrippedClean(h)'
  BY <1>3 DEF HInv, Judged, StrippedClean
<1>8. Judged(h)' => Judgement(h)'
  BY <1>1, <1>2, <1>3 DEF HInv, Judged, Judgement
<1>9. Answer(h)'
  BY DEF HInv, Answer
<1> QED
  BY <1>5, <1>6, <1>7, <1>8, <1>9 DEF HInv

\* A step of one handler is one of its own moves, or leaves the others alone.
LEMMA OnlyMe ==
    ASSUME TypeOK, NEW h \in Handlers, NEW g \in Handlers, g # h,
           Arrive(h) \/ Cancel(h) \/ Serve(h)
    PROVE  /\ cfg' = cfg /\ runtime' = runtime
           /\ pc'[g] = pc[g] /\ request'[g] = request[g] /\ next'[g] = next[g]
           /\ session'[g] = session[g] /\ method'[g] = method[g]
           /\ carried'[g] = carried[g] /\ verdict'[g] = verdict[g]
           /\ ruleID'[g] = ruleID[g] /\ response'[g] = response[g]
<1> USE DEF TypeOK, global, auth, eval, Respond, Proceed
<1>1. CASE Arrive(h)
  BY <1>1 DEF Arrive
<1>2. CASE Cancel(h)
  BY <1>2 DEF Cancel
<1>3. CASE HandleCallback(h) \/ ServeMetadata(h)
  BY <1>3 DEF HandleCallback, ServeMetadata
<1>4. CASE TryNext(h) \/ Authenticated(h)
  BY <1>4 DEF TryNext, Authenticated
<1>5. CASE Rejected(h) \/ Unauthenticated(h)
  BY <1>5 DEF Rejected, Unauthenticated
<1>6. CASE Pass(h) \/ Match(h) \/ EvaluationFails(h)
  BY <1>6 DEF Pass, Match, EvaluationFails
<1>7. CASE Decide(h)
  BY <1>7 DEF Decide, Invite
<1>8. CASE StartLogin(h) \/ Challenge(h)
  BY <1>8 DEF StartLogin, Challenge
<1> QED
  BY <1>1, <1>2, <1>3, <1>4, <1>5, <1>6, <1>7, <1>8 DEF Serve

-----------------------------------------------------------------------------
(* Type correctness *)

LEMMA Facts ==
    ASSUME TypeOK
    PROVE  /\ cfg.authenticators \in Seq(Methods)
           /\ DOMAIN cfg.rules = 1 .. Len(cfg.rules) /\ Len(cfg.rules) \in Nat
           /\ \A i \in 1 .. Len(cfg.rules) : cfg.rules[i].action \in Actions
           /\ \A h \in Handlers : request[h].creds \in [Methods -> Credentials]
           /\ \A s \in Sessions : ~s.anonymous
           /\ "none" \notin Methods
  BY MiddlewareAssumption DEF TypeOK, MiddlewareAssumption

LEMMA CurrentIsCredential ==
    ASSUME TypeOK, NEW h \in Handlers, InAuthentication(h)
    PROVE  /\ next[h] \in 1 .. Len(cfg.authenticators)
           /\ Current(h) \in Methods
           /\ Credential(h) \in Credentials
  BY Facts DEF TypeOK, InAuthentication, Current, Credential

LEMMA InitType == Init => TypeOK
<1> SUFFICES ASSUME Init PROVE TypeOK
  OBVIOUS
<1>1. (CHOOSE q \in Inputs : TRUE) \in Inputs
  BY MiddlewareAssumption DEF MiddlewareAssumption
<1>2. request \in [Handlers -> Inputs]
  BY <1>1 DEF Init
<1>3. runtime \in Missing \union Directories
  BY DEF Init, Missing
<1> QED
  BY <1>2, <1>3 DEF Init, TypeOK, PCs, Verdicts, Responses

LEMMA StepType == TypeOK /\ [Next]_vars => TypeOK'
<1> SUFFICES ASSUME TypeOK, [Next]_vars PROVE TypeOK'
  OBVIOUS
<1> USE DEF global, auth, eval, Respond
<1>1. CASE SettleDiscovery
  BY <1>1 DEF SettleDiscovery, TypeOK
<1>2. CASE SettleRuntime
  BY <1>2 DEF SettleRuntime, TypeOK, Missing
<1>3. ASSUME NEW h \in Handlers, Arrive(h) PROVE TypeOK'
  <2>1. PICK q \in Inputs :
          /\ request' = [request EXCEPT ![h] = q]
          /\ pc' = [pc EXCEPT ![h] = Route(q)]
          /\ carried' = [carried EXCEPT ![h] = {m \in Methods : q.creds[m].status # "absent"}]
    BY <1>3 DEF Arrive
  <2>2. Route(q) \in PCs
    BY DEF Route, PCs
  <2>3. /\ pc' \in [Handlers -> PCs] /\ request' \in [Handlers -> Inputs]
        /\ carried' \in [Handlers -> SUBSET Methods]
    BY <2>1, <2>2 DEF TypeOK
  <2>4. /\ next' \in [Handlers -> Nat \ {0}] /\ ruleID' \in [Handlers -> Nat]
        /\ cancelled' \in [Handlers -> BOOLEAN]
    BY <1>3 DEF Arrive, TypeOK
  <2>5. /\ session' \in [Handlers -> Sessions \union {Anonymous}]
        /\ method' \in [Handlers -> Methods \union {"none"}]
    BY <1>3 DEF Arrive, TypeOK
  <2>6. /\ verdict' \in [Handlers -> Verdicts] /\ response' \in [Handlers -> Responses]
    BY <1>3 DEF Arrive, TypeOK, Verdicts, Responses
  <2> QED
    BY <1>3, <2>3, <2>4, <2>5, <2>6 DEF Arrive, TypeOK
<1>4. ASSUME NEW h \in Handlers, Cancel(h) PROVE TypeOK'
  BY <1>4 DEF Cancel, TypeOK
<1>5. ASSUME NEW h \in Handlers, HandleCallback(h) \/ ServeMetadata(h) PROVE TypeOK'
  BY <1>5 DEF HandleCallback, ServeMetadata, TypeOK, PCs, Responses
<1>6. ASSUME NEW h \in Handlers, TryNext(h) PROVE TypeOK'
  BY <1>6 DEF TryNext, TypeOK
<1>7. ASSUME NEW h \in Handlers, NEW s \in Sessions \union {Anonymous},
             NEW m \in Methods \union {"none"}, Proceed(h, s, m)
      PROVE  TypeOK'
  <2>1. Stripped(h) \in SUBSET Methods
    BY DEF Stripped, TypeOK
  <2> QED
    BY <1>7, <2>1 DEF Proceed, TypeOK, PCs
<1>8. ASSUME NEW h \in Handlers, Authenticated(h) PROVE TypeOK'
  BY <1>7, <1>8, CurrentIsCredential DEF Authenticated, Credentials
<1>9. ASSUME NEW h \in Handlers, Rejected(h) PROVE TypeOK'
  BY <1>9 DEF Rejected, TypeOK, PCs, Responses
<1>10. ASSUME NEW h \in Handlers, Unauthenticated(h) PROVE TypeOK'
  <2>1. CASE Proceed(h, Anonymous, "none")
    BY <1>7, <2>1
  <2>2. CASE ~Proceed(h, Anonymous, "none")
    BY <1>10, <2>2 DEF Unauthenticated, TypeOK, PCs, Responses
  <2> QED
    BY <2>1, <2>2
<1>11. ASSUME NEW h \in Handlers, Pass(h) \/ Match(h) \/ EvaluationFails(h) PROVE TypeOK'
  <2>1. CASE Pass(h)
    BY <2>1 DEF Pass, TypeOK
  <2>2. CASE Match(h)
    <3>1. (IF Rule(h).action = "allow" THEN "allow" ELSE "explicit_deny") \in Verdicts
      BY DEF Verdicts
    <3>2. verdict' \in [Handlers -> Verdicts]
      BY <2>2, <3>1 DEF Match, TypeOK
    <3>3. ruleID' \in [Handlers -> Nat] /\ next' \in [Handlers -> Nat \ {0}]
      BY <2>2 DEF Match, TypeOK
    <3> QED
      BY <2>2, <3>2, <3>3 DEF Match, TypeOK
  <2>3. CASE EvaluationFails(h)
    BY <2>3 DEF EvaluationFails, TypeOK, PCs, Responses
  <2> QED
    BY <1>11, <2>1, <2>2, <2>3
<1>12. ASSUME NEW h \in Handlers, Decide(h) PROVE TypeOK'
  BY <1>12 DEF Decide, Invite, TypeOK, PCs, Responses
<1>13. ASSUME NEW h \in Handlers, StartLogin(h) \/ Challenge(h) PROVE TypeOK'
  BY <1>13 DEF StartLogin, Challenge, TypeOK, PCs, Responses
<1>14. CASE UNCHANGED vars
  BY <1>14 DEF vars, TypeOK
<1> QED
  BY <1>1, <1>2, <1>3, <1>4, <1>5, <1>6, <1>8, <1>9, <1>10, <1>11, <1>12, <1>13, <1>14
  DEF Next, Serve

\* Every variable of the request path keeps its type.
THEOREM TypeCorrect == Spec => []TypeOK
  BY InitType, StepType, PTL DEF Spec

-----------------------------------------------------------------------------
(* The invariant is inductive *)

LEMMA InitInv == Init => IInv
<1> SUFFICES ASSUME Init, NEW h \in Handlers PROVE HInv(h)
  BY InitType DEF IInv
<1> QED
  BY DEF Init, HInv, Authenticating, Judged, Answer

\* The request begins.
LEMMA ArriveInv ==
    ASSUME TypeOK, NEW h \in Handlers, Arrive(h)
    PROVE  HInv(h)'
<1>1. PICK q \in Inputs :
        /\ request' = [request EXCEPT ![h] = q]
        /\ pc' = [pc EXCEPT ![h] = Route(q)]
        /\ carried' = [carried EXCEPT ![h] = {m \in Methods : q.creds[m].status # "absent"}]
  BY DEF Arrive
<1>2. pc'[h] \in {"callback", "metadata", "authenticate"} /\ response'[h] = "none"
  BY <1>1 DEF Arrive, Route, TypeOK
<1>3. Authenticating(h)'
  <2>1. next'[h] = 1 /\ verdict'[h] = "implicit_deny" /\ ruleID'[h] = 0 /\ cfg' = cfg
    BY DEF Arrive, TypeOK, global
  <2>2. carried'[h] = {m \in Methods : request'[h].creds[m].status # "absent"}
    BY <1>1 DEF TypeOK
  <2>3. Len(cfg.authenticators) \in Nat
    BY Facts
  <2>4. \A j \in 1 .. (next'[h] - 1) : FALSE
    BY <2>1
  <2> QED
    BY <2>1, <2>2, <2>3, <2>4 DEF Authenticating
<1> QED
  BY <1>2, <1>3 DEF HInv, Judged, Answer

\* The request leaves the middleware without a session.
LEMMA RespondInv ==
    ASSUME TypeOK, NEW h \in Handlers, NEW a, Respond(h, a),
           a \notin {"upstream", "login", "challenge", "403"}
    PROVE  HInv(h)'
  BY DEF Respond, TypeOK, HInv, Authenticating, Judged, Answer

\* A credential is ignored.
LEMMA TryNextInv ==
    ASSUME TypeOK, NEW h \in Handlers, HInv(h), TryNext(h)
    PROVE  HInv(h)'
<1>1. next'[h] = next[h] + 1 /\ next[h] \in 1 .. Len(cfg.authenticators)
  BY CurrentIsCredential DEF TryNext, TypeOK
<1>2. Ignored(h, next[h])
  BY DEF TryNext, Ignored, Credential, Current
<1>3. \A j \in 1 .. next[h] : Ignored(h, j)
  <2>1. \A j \in 1 .. (next[h] - 1) : Ignored(h, j)
    BY DEF HInv, Authenticating, TryNext, InAuthentication
  <2>2. \A j \in 1 .. next[h] : j = next[h] \/ j \in 1 .. (next[h] - 1)
    BY <1>1
  <2> QED
    BY <1>2, <2>1, <2>2
<1>4. UNCHANGED <<cfg, pc, request, auth, eval, response>>
  BY DEF TryNext, global
<1>5. Authenticating(h)'
  <2>1. next'[h] <= Len(cfg.authenticators) + 1 /\ 1 .. (next'[h] - 1) = 1 .. next[h]
    BY <1>1, Facts
  <2>2. \A j : Ignored(h, j)' = Ignored(h, j)
    BY <1>4 DEF Ignored
  <2> QED
    BY <1>3, <1>4, <2>1, <2>2 DEF HInv, Authenticating, TryNext, InAuthentication, eval, auth
<1>6. ~Judged(h)'
  BY <1>4 DEF Judged, HInv, Answer, TryNext, InAuthentication
<1>7. Answer(h)'
  BY <1>4 DEF HInv, Answer, TryNext, InAuthentication
<1> QED
  BY <1>5, <1>6, <1>7 DEF HInv

\* The request gets its session, and its rules are about to be evaluated.
LEMMA ProceedInv ==
    ASSUME TypeOK, NEW h \in Handlers, HInv(h), pc[h] = "authenticate",
           NEW s, NEW m, Proceed(h, s, m),
           \/ /\ InAuthentication(h) /\ m = Current(h)
              /\ Credential(h) = [status |-> "good", session |-> s]
           \/ /\ next[h] > Len(cfg.authenticators) /\ ~cfg.required
              /\ s = Anonymous /\ m = "none"
    PROVE  HInv(h)'
<1>1. /\ pc'[h] = "evaluate" /\ next'[h] = 1 /\ session'[h] = s /\ method'[h] = m
      /\ carried'[h] = Stripped(h) /\ cfg' = cfg /\ request' = request
      /\ verdict'[h] = "implicit_deny" /\ ruleID'[h] = 0 /\ response'[h] = "none"
  BY DEF Proceed, TypeOK, global, eval, HInv, Authenticating, Answer
<1>2. \A j : Ignored(h, j)' = Ignored(h, j)
  BY <1>1 DEF Ignored
<1>3. \A j \in 1 .. (next[h] - 1) : Ignored(h, j)
  BY DEF HInv, Authenticating
<1>4. Identified(h)'
  <2>1. CASE InAuthentication(h) /\ m = Current(h)
             /\ Credential(h) = [status |-> "good", session |-> s]
    <3>1. next[h] \in 1 .. Len(cfg.authenticators)
      BY <2>1, CurrentIsCredential
    <3>2. m = cfg.authenticators[next[h]]
          /\ request[h].creds[m] = [status |-> "good", session |-> s]
      BY <2>1 DEF Current, Credential
    <3> QED
      BY <1>1, <1>2, <1>3, <3>1, <3>2 DEF Identified
  <2>2. CASE next[h] > Len(cfg.authenticators) /\ ~cfg.required
             /\ s = Anonymous /\ m = "none"
    <3>1. \A j \in 1 .. Len(cfg.authenticators) : j \in 1 .. (next[h] - 1)
      BY <2>2, Facts DEF TypeOK
    <3> QED
      BY <1>1, <1>2, <1>3, <2>2, <3>1 DEF Identified
  <2> QED
    BY <2>1, <2>2
<1>5. StrippedClean(h)'
  <2>1. Configured' = Configured
    BY <1>1 DEF Configured
  <2>2. carried[h] = {x \in Methods : request[h].creds[x].status # "absent"}
    BY DEF HInv, Authenticating
  <2> QED
    BY <1>1, <2>1, <2>2 DEF StrippedClean, Stripped
<1>6. Judgement(h)'
  <2>1. \A i \in 1 .. Len(cfg.rules) : ~(i < next'[h])
    BY <1>1, Facts
  <2>2. \A i \in DenyRules' : ~(i < next'[h])
    BY <1>1, <2>1 DEF DenyRules
  <2> QED
    BY <1>1, <2>1, <2>2 DEF Judgement
<1> QED
  BY <1>1, <1>4, <1>5, <1>6 DEF HInv, Authenticating, Answer

\* A rule is passed over: it was missed, or is one more allow rule.
LEMMA PassInv ==
    ASSUME TypeOK, NEW h \in Handlers, HInv(h), Pass(h)
    PROVE  HInv(h)'
<1>1. /\ pc[h] = "evaluate" /\ verdict[h] # "explicit_deny"
      /\ next[h] \in 1 .. Len(cfg.rules)
      /\ Skipped(h) \/ RuleIsMissed(h, next[h])
  BY Facts DEF Pass, InEvaluation, Evaluated, TypeOK
<1>2. next'[h] = next[h] + 1
  BY DEF Pass, TypeOK
<1>3. UNCHANGED <<cfg, runtime, pc, request, session, method, carried, verdict, ruleID, response>>
  BY DEF Pass, global, auth, eval
<1>4. Identified(h) /\ StrippedClean(h) /\ Judgement(h) /\ Answer(h)
  BY <1>1 DEF HInv, Judged
<1>5. Identified(h)' /\ StrippedClean(h)'
  BY <1>3, <1>4 DEF Identified, Ignored, StrippedClean, Configured
<1>6. Judgement(h)'
  <2>1. \A i : RuleIsMissed(h, i)' = RuleIsMissed(h, i) /\ RuleMatches(h, i)' = RuleMatches(h, i)
    BY <1>3 DEF RuleIsMissed, RuleMatches
  <2>2. AllowRules' = AllowRules /\ DenyRules' = DenyRules
    BY <1>3 DEF AllowRules, DenyRules
  <2>3. \A i \in 1 .. Len(cfg.rules) : i < next'[h] => i < next[h] \/ i = next[h]
    BY <1>1, <1>2, Facts
  <2>4. \A i \in DenyRules : i < next'[h] => RuleIsMissed(h, i)
    <3>1. SUFFICES ASSUME NEW i \in DenyRules, i < next'[h] PROVE RuleIsMissed(h, i)
      OBVIOUS
    <3>2. i \in 1 .. Len(cfg.rules) /\ cfg.rules[i].action = "deny"
      BY DEF DenyRules
    <3>3. CASE i < next[h]
      BY <1>1, <1>4, <3>3 DEF Judgement
    <3>4. CASE i = next[h]
      BY <1>1, <3>2, <3>4 DEF Skipped, Rule
    <3> QED
      BY <2>3, <3>1, <3>2, <3>3, <3>4
  <2>5. verdict[h] = "implicit_deny" =>
          \A i \in 1 .. Len(cfg.rules) : i < next'[h] => RuleIsMissed(h, i)
    BY <1>1, <1>4, <2>3 DEF Judgement, Skipped
  <2> QED
    BY <1>3, <1>4, <2>1, <2>2, <2>4, <2>5 DEF Judgement
<1>7. Answer(h)'
  BY <1>1, <1>3, <1>4 DEF Answer
<1> QED
  BY <1>1, <1>3, <1>5, <1>6, <1>7 DEF HInv, Authenticating

\* A rule matches and is recorded.
LEMMA MatchInv ==
    ASSUME TypeOK, NEW h \in Handlers, HInv(h), Match(h)
    PROVE  HInv(h)'
<1>1. /\ pc[h] = "evaluate" /\ verdict[h] # "explicit_deny"
      /\ next[h] \in 1 .. Len(cfg.rules)
      /\ ~Skipped(h) /\ RuleMatches(h, next[h])
  BY Facts DEF Match, InEvaluation, Evaluated, TypeOK
<1>2. /\ next'[h] = next[h] + 1 /\ ruleID'[h] = next[h]
      /\ verdict'[h] = IF Rule(h).action = "allow" THEN "allow" ELSE "explicit_deny"
  BY DEF Match, TypeOK
<1>3. UNCHANGED <<cfg, runtime, pc, request, session, method, carried, response>>
  BY DEF Match, global, auth
<1>4. Identified(h) /\ StrippedClean(h) /\ Judgement(h) /\ Answer(h)
  BY <1>1 DEF HInv, Judged
<1>5. Identified(h)' /\ StrippedClean(h)'
  BY <1>3, <1>4 DEF Identified, Ignored, StrippedClean, Configured
<1>6. Judgement(h)'
  <2>1. \A i : RuleIsMissed(h, i)' = RuleIsMissed(h, i) /\ RuleMatches(h, i)' = RuleMatches(h, i)
    BY <1>3 DEF RuleIsMissed, RuleMatches
  <2>2. AllowRules' = AllowRules /\ DenyRules' = DenyRules
    BY <1>3 DEF AllowRules, DenyRules
  <2>3. CASE Rule(h).action = "allow"
    <3>1. next[h] \in AllowRules
      BY <1>1, <2>3 DEF AllowRules, Rule
    <3>2. \A i \in DenyRules : i # next[h] /\ i \in 1 .. Len(cfg.rules)
      BY <2>3 DEF DenyRules, Rule
    <3>3. \A i \in DenyRules : i < next'[h] => i < next[h]
      BY <1>1, <1>2, <3>2, Facts
    <3>4. \A i \in DenyRules : i < next'[h] => RuleIsMissed(h, i)
      BY <1>1, <1>4, <3>3 DEF Judgement
    <3>5. verdict'[h] = "allow"
      BY <1>2, <2>3
    <3> QED
      BY <1>1, <1>2, <2>1, <2>2, <3>1, <3>4, <3>5 DEF Judgement
  <2>4. CASE Rule(h).action # "allow"
    <3>1. next[h] \in DenyRules
      BY <1>1, <2>4, Facts DEF DenyRules, Rule, Actions
    <3>2. verdict'[h] = "explicit_deny"
      BY <1>2, <2>4
    <3> QED
      BY <1>1, <1>2, <2>1, <2>2, <3>1, <3>2 DEF Judgement
  <2> QED
    BY <2>3, <2>4
<1>7. Answer(h)'
  BY <1>1, <1>3, <1>4 DEF Answer
<1> QED
  BY <1>1, <1>3, <1>5, <1>6, <1>7 DEF HInv, Authenticating

\* The loop is over and the verdict is carried out.
LEMMA DecideInv ==
    ASSUME TypeOK, NEW h \in Handlers, HInv(h), Decide(h)
    PROVE  HInv(h)'
<1>1. pc[h] = "evaluate" /\ response[h] = "none"
  BY DEF Decide, Evaluated, HInv, Answer
<1>2. UNCHANGED <<cfg, runtime, request, next, session, method, carried, verdict, ruleID>>
  BY DEF Decide, global, auth, eval
<1>3. Identified(h) /\ StrippedClean(h) /\ Judgement(h)
  BY <1>1 DEF HInv, Judged
<1>4. Identified(h)' /\ StrippedClean(h)'
  BY <1>2, <1>3 DEF Identified, Ignored, StrippedClean, Configured
<1>5. Judgement(h)'
  BY <1>2, <1>3 DEF Judgement, RuleIsMissed, RuleMatches, AllowRules, DenyRules
<1>6. \/ pc'[h] = "done" /\ response'[h] \in {"upstream", "403"}
      \/ pc'[h] \in {"login", "challenge"} /\ response'[h] = "none"
  BY <1>1 DEF Decide, Respond, Invite, TypeOK
<1>7. Answer(h)'
  <2>1. verdict[h] # "explicit_deny" => next[h] > Len(cfg.rules)
    BY DEF Decide, Evaluated
  <2>2. CASE verdict[h] = "allow" /\ Respond(h, "upstream")
    BY <1>2, <2>1, <2>2 DEF Answer, Respond, TypeOK
  <2>3. CASE verdict[h] = "explicit_deny" /\ Respond(h, "403")
    BY <1>2, <2>3 DEF Answer, Respond, TypeOK
  <2>4. CASE verdict[h] = "implicit_deny" /\ ~session[h].anonymous /\ Respond(h, "403")
    BY <1>2, <2>1, <2>4 DEF Answer, Respond, TypeOK
  <2>5. CASE verdict[h] = "implicit_deny" /\ session[h].anonymous /\ Invite(h)
    BY <1>1, <1>2, <2>1, <2>5 DEF Answer, Invite, TypeOK
  <2> QED
    BY <2>2, <2>3, <2>4, <2>5 DEF Decide
<1> QED
  BY <1>4, <1>5, <1>6, <1>7 DEF HInv, Authenticating

\* A browser is sent to log in, or the others are told how to authenticate.
LEMMA InvitationInv ==
    ASSUME TypeOK, NEW h \in Handlers, HInv(h), StartLogin(h) \/ Challenge(h)
    PROVE  HInv(h)'
<1>1. pc[h] \in {"login", "challenge"} /\ response[h] = "none"
  BY DEF StartLogin, Challenge, HInv, Answer
<1>2. UNCHANGED <<cfg, runtime, request, next, session, method, carried, verdict, ruleID>>
  BY DEF StartLogin, Challenge, global, auth, eval
<1>3. Identified(h) /\ StrippedClean(h) /\ Judgement(h)
  BY <1>1 DEF HInv, Judged
<1>4. Identified(h)' /\ StrippedClean(h)'
  BY <1>2, <1>3 DEF Identified, Ignored, StrippedClean, Configured
<1>5. Judgement(h)'
  BY <1>2, <1>3 DEF Judgement, RuleIsMissed, RuleMatches, AllowRules, DenyRules
<1>6. pc'[h] = "done" /\ response'[h] \in {"login", "challenge", "401", "500"}
  BY DEF StartLogin, Challenge, Respond, TypeOK
<1>7. Answer(h)'
  BY <1>1, <1>2, <1>6 DEF HInv, Answer
<1> QED
  BY <1>4, <1>5, <1>6, <1>7 DEF HInv, Authenticating

\* Each move of a handler keeps its own part.
LEMMA MyMove ==
    ASSUME TypeOK, NEW h \in Handlers, HInv(h), Arrive(h) \/ Cancel(h) \/ Serve(h)
    PROVE  HInv(h)'
<1>1. CASE Arrive(h)
  BY <1>1, ArriveInv
<1>2. CASE Cancel(h)
  BY <1>2, StandingStill DEF Cancel, global, auth, eval
<1>3. CASE HandleCallback(h)
  BY <1>3, RespondInv DEF HandleCallback
<1>4. CASE ServeMetadata(h)
  BY <1>4, RespondInv DEF ServeMetadata
<1>5. CASE TryNext(h)
  BY <1>5, TryNextInv
<1>6. CASE Authenticated(h)
  <2>1. Credential(h) = [status |-> "good", session |-> Credential(h).session]
    BY <1>6, CurrentIsCredential DEF Authenticated, Credentials
  <2>2. pc[h] = "authenticate"
    BY <1>6 DEF Authenticated, InAuthentication
  <2> QED
    BY <1>6, <2>1, <2>2, ProceedInv DEF Authenticated
<1>7. CASE Rejected(h)
  BY <1>7, RespondInv DEF Rejected
<1>8. CASE Unauthenticated(h)
  BY <1>8, ProceedInv, RespondInv DEF Unauthenticated
<1>9. CASE Pass(h)
  BY <1>9, PassInv
<1>10. CASE Match(h)
  BY <1>10, MatchInv
<1>11. CASE EvaluationFails(h)
  BY <1>11, RespondInv DEF EvaluationFails
<1>12. CASE Decide(h)
  BY <1>12, DecideInv
<1>13. CASE StartLogin(h) \/ Challenge(h)
  BY <1>13, InvitationInv
<1> QED
  BY <1>1, <1>2, <1>3, <1>4, <1>5, <1>6, <1>7, <1>8, <1>9, <1>10, <1>11, <1>12, <1>13
  DEF Serve

LEMMA StepInv == IInv /\ [Next]_vars => IInv'
<1> SUFFICES ASSUME IInv, [Next]_vars, NEW g \in Handlers PROVE HInv(g)'
  BY StepType DEF IInv
<1>1. TypeOK /\ HInv(g)
  BY DEF IInv
<1>2. CASE SettleDiscovery \/ SettleRuntime \/ UNCHANGED vars
  BY <1>1, <1>2, StandingStill
  DEF SettleDiscovery, SettleRuntime, vars, global, auth, eval
<1>3. ASSUME NEW h \in Handlers, Arrive(h) \/ Cancel(h) \/ Serve(h) PROVE HInv(g)'
  <2>1. CASE g = h
    BY <1>1, <1>3, <2>1, MyMove
  <2>2. CASE g # h
    BY <1>1, <1>3, <2>2, OnlyMe, StandingStill
  <2> QED
    BY <2>1, <2>2
<1> QED
  BY <1>2, <1>3 DEF Next

THEOREM Invariance == Spec => []IInv
  BY InitInv, StepInv, PTL DEF Spec

-----------------------------------------------------------------------------
(* The theorems *)

\* Whatever the order of the rules, whenever the directory appears: what the
\* handler passes to the upstream is allowed by a rule and denied by none.
THEOREM Authorised == Spec => []UpstreamAuthorised
<1>1. IInv => UpstreamAuthorised
  <2> SUFFICES ASSUME IInv, NEW h \in Handlers, response[h] = "upstream"
               PROVE  /\ \E i \in AllowRules : RuleMatches(h, i)
                      /\ \A i \in DenyRules : RuleIsMissed(h, i)
    BY DEF UpstreamAuthorised
  <2>1. Judgement(h) /\ verdict[h] = "allow" /\ next[h] > Len(cfg.rules)
    BY DEF IInv, HInv, Judged, Answer
  <2>2. \A i \in DenyRules : i < next[h]
    BY <2>1, Facts DEF IInv, TypeOK, DenyRules
  <2> QED
    BY <2>1, <2>2 DEF Judgement
<1> QED
  BY <1>1, Invariance, PTL

\* A 403 is owed to a deny rule, or to no rule knowing a known caller.
THEOREM Justified == Spec => []RefusalJustified
<1>1. IInv => RefusalJustified
  <2> SUFFICES ASSUME IInv, NEW h \in Handlers, response[h] = "403"
               PROVE  \/ \E i \in DenyRules : RuleMatches(h, i)
                      \/ /\ ~session[h].anonymous
                         /\ \A i \in 1 .. Len(cfg.rules) : RuleIsMissed(h, i)
    BY DEF RefusalJustified
  <2>1. Judgement(h)
    BY DEF IInv, HInv, Judged
  <2>2. \/ verdict[h] = "explicit_deny"
        \/ /\ verdict[h] = "implicit_deny" /\ ~session[h].anonymous
           /\ next[h] > Len(cfg.rules)
    BY DEF IInv, HInv, Answer
  <2>3. next[h] > Len(cfg.rules) => \A i \in 1 .. Len(cfg.rules) : i < next[h]
    BY Facts DEF IInv, TypeOK
  <2> QED
    BY <2>1, <2>2, <2>3 DEF Judgement
<1> QED
  BY <1>1, Invariance, PTL

\* A login or a challenge answers an anonymous request that no rule matches.
THEOREM Invited == Spec => []InvitationJustified
<1>1. IInv => InvitationJustified
  <2> SUFFICES ASSUME IInv, NEW h \in Handlers,
                      pc[h] \in {"login", "challenge"} \/ response[h] \in {"login", "challenge"}
               PROVE  /\ session[h] = Anonymous /\ ~cfg.required
                      /\ \A i \in 1 .. Len(cfg.rules) : RuleIsMissed(h, i)
    BY DEF InvitationJustified
  <2>1. Judgement(h) /\ Identified(h)
    BY DEF IInv, HInv, Judged
  <2>2. verdict[h] = "implicit_deny" /\ session[h].anonymous /\ next[h] > Len(cfg.rules)
    BY DEF IInv, HInv, Answer
  <2>3. \A i \in 1 .. Len(cfg.rules) : i < next[h]
    BY <2>2, Facts DEF IInv, TypeOK
  <2>4. session[h] \notin Sessions
    BY <2>2, Facts DEF IInv
  <2>5. session[h] = Anonymous
    BY <2>4 DEF IInv, TypeOK
  <2>6. ~cfg.required
    <3>1. CASE \E i \in 1 .. Len(cfg.authenticators) :
                 /\ method[h] = cfg.authenticators[i]
                 /\ request[h].creds[method[h]] = [status |-> "good", session |-> session[h]]
      <4>1. method[h] \in Methods
        BY <3>1, Facts DEF IInv
      <4>2. request[h].creds[method[h]] \in Credentials
        BY <4>1, Facts DEF IInv
      <4>3. [status |-> "good", session |-> session[h]].session \in Sessions
        BY <3>1, <4>2 DEF Credentials
      <4> QED
        BY <2>4, <4>3
    <3> QED
      BY <2>1, <3>1 DEF Identified
  <2> QED
    BY <2>1, <2>2, <2>3, <2>5, <2>6 DEF Judgement
<1> QED
  BY <1>1, Invariance, PTL

\* The rule of the evaluation's RuleID matches and has the verdict's action.
THEOREM Named == Spec => []RuleNamed
<1>1. IInv => RuleNamed
  <2> SUFFICES ASSUME IInv, NEW h \in Handlers, pc[h] \in {"evaluate", "login", "challenge"}
               PROVE  CASE verdict[h] = "implicit_deny" -> ruleID[h] = 0
                        [] verdict[h] = "allow" ->
                             ruleID[h] \in AllowRules /\ RuleMatches(h, ruleID[h])
                        [] verdict[h] = "explicit_deny" ->
                             ruleID[h] \in DenyRules /\ RuleMatches(h, ruleID[h])
    BY DEF RuleNamed
  <2>1. Judgement(h) /\ verdict[h] \in Verdicts
    BY DEF IInv, HInv, Judged, TypeOK
  <2> QED
    BY <2>1 DEF Judgement, Verdicts
<1> QED
  BY <1>1, Invariance, PTL

\* The session the rules judge is that of the first authenticator whose
\* credential is neither missing nor expired.
THEOREM FirstWins == Spec => []FirstCredentialWins
<1>1. IInv => FirstCredentialWins
  BY DEF IInv, HInv, Judged, Identified, FirstCredentialWins
<1> QED
  BY <1>1, Invariance, PTL

\* What goes upstream carries no credential of a configured authenticator,
\* unless preserve_request says so.
THEOREM Forwarded == Spec => []CredentialsForwarded
<1>1. IInv => CredentialsForwarded
  BY DEF IInv, HInv, Judged, StrippedClean, CredentialsForwarded
<1> QED
  BY <1>1, Invariance, PTL

\* During an evaluation an allow is only ever replaced by a deny, and a deny by
\* nothing.
THEOREM Hardens == Spec => VerdictHardens
<1>1. TypeOK /\ [Next]_vars =>
        [\A h \in Handlers : pc[h] = "evaluate" =>
           /\ verdict[h] = "explicit_deny" => verdict'[h] = "explicit_deny"
           /\ verdict[h] = "allow" => verdict'[h] # "implicit_deny"]_vars
  <2> SUFFICES ASSUME TypeOK, Next, NEW g \in Handlers, pc[g] = "evaluate"
               PROVE  /\ verdict[g] = "explicit_deny" => verdict'[g] = "explicit_deny"
                      /\ verdict[g] = "allow" => verdict'[g] # "implicit_deny"
    OBVIOUS
  <2>1. CASE SettleDiscovery \/ SettleRuntime
    BY <2>1 DEF SettleDiscovery, SettleRuntime, eval
  <2>2. ASSUME NEW h \in Handlers, h # g, Arrive(h) \/ Cancel(h) \/ Serve(h)
        PROVE  verdict'[g] = verdict[g]
    BY <2>2, OnlyMe
  <2>3. CASE Match(g)
    BY <2>3 DEF Match, InEvaluation, Evaluated, TypeOK
  <2>4. CASE (Arrive(g) \/ Cancel(g) \/ Serve(g)) /\ ~Match(g)
    BY <2>4 DEF Arrive, Cancel, Serve, HandleCallback, ServeMetadata, TryNext,
                Authenticated, Rejected, Unauthenticated, Proceed, Pass,
                EvaluationFails, Decide, StartLogin, Challenge, InAuthentication, eval
  <2> QED
    BY <2>1, <2>2, <2>3, <2>4 DEF Next, Serve
<1> QED
  BY <1>1, TypeCorrect, PTL DEF Spec, VerdictHardens

=============================================================================
