----------------------------- MODULE Middleware -----------------------------
(***************************************************************************)
(* The request path of the oidc handler: OIDCMiddleware.interceptRequest   *)
(* and ServeHTTP, Set.AuthenticateRequest with the four authenticators,    *)
(* Set.StripRequest and Ruleset.Evaluate.                                  *)
(*                                                                         *)
(* Every request runs in a goroutine of its own.  They share two values    *)
(* that are computed once, in the background: the discovery document of    *)
(* the provider (see Deferred) and the runtime of the app, which holds the *)
(* role directory (see AppRuntime).  A request reads each of them where    *)
(* the code does, so a request may authenticate before the directory is    *)
(* there, and its rules may straddle the moment it appears.                *)
(*                                                                         *)
(* The configuration is provisioned before the first request and immutable *)
(* afterwards: Init picks one.                                             *)
(***************************************************************************)

EXTENDS AccessPolicy

CONSTANTS
    Handlers,    \* goroutines that serve requests, one at a time each
    Inputs,      \* the requests that may arrive (see Request)
    Configs,     \* the configurations of the handler and its provider
    Sessions,    \* the sessions a credential can prove
    Methods,     \* the authentication methods configured or not
    Directories  \* the directories the database may hold

\* The session of a request nobody vouches for.
Anonymous == [anonymous |-> TRUE, uid |-> "", claims |-> [n \in {} |-> {}]]

\* What an authenticator finds in a request:
\*   absent    nothing
\*   foreign   an Authorization header of another scheme
\*   good      a credential that verifies
\*   expired   one whose only fault is its age
\*   nouid     a token that verifies but lacks the username claim
\*   invalid   a token that does not verify, a cookie that does not decode
Statuses == {"absent", "foreign", "good", "expired", "nouid", "invalid"}

Credentials == [status : Statuses, session : Sessions]

Responses == {"none", "upstream", "login", "challenge", "returned", "metadata",
              "400", "401", "403", "404", "500"}

Actions == {"allow", "deny"}

Verdicts == {"implicit_deny", "explicit_deny", "allow"}

ASSUME MiddlewareAssumption ==
    /\ Inputs # {}
    /\ "cookie" \in Methods /\ "none" \notin Methods
    /\ \A s \in Sessions : s.anonymous = FALSE
    /\ \A q \in Inputs : q.creds \in [Methods -> Credentials]
    /\ \A c \in Configs :
         /\ c.authenticators \in Seq(Methods)
         /\ c.required \in BOOLEAN /\ c.preserve \in BOOLEAN
         /\ c.metadata \in BOOLEAN /\ c.postgres \in BOOLEAN
         /\ DOMAIN c.rules = 1 .. Len(c.rules) /\ Len(c.rules) \in Nat
         /\ \A i \in 1 .. Len(c.rules) : c.rules[i].action \in Actions
    /\ Unset \notin Directories /\ Failed # Unset /\ NoDirectory # Unset

VARIABLES
    cfg,         \* the configuration
    discovery,   \* "pending", "ready" or "failed"
    runtime,     \* Unset, then Failed, NoDirectory or a directory
    pc,          \* pc[h]: where the handler is
    request,     \* the request it serves
    cancelled,   \* its context is done: the client is gone
    next,        \* the authenticator, then the rule, that is next in the loop
    session, method,
    carried,     \* the methods whose credentials the request still carries
    verdict, ruleID,
    response

global  == <<cfg, discovery, runtime>>
auth    == <<session, method, carried>>
eval    == <<verdict, ruleID>>
vars    == <<global, pc, request, cancelled, next, auth, eval, response>>

PCs == {"idle", "callback", "metadata", "authenticate", "evaluate", "login",
        "challenge", "done"}

TypeOK ==
    /\ cfg \in Configs
    /\ discovery \in {"pending", "ready", "failed"}
    /\ runtime \in Missing \union Directories
    /\ pc \in [Handlers -> PCs]
    /\ request \in [Handlers -> Inputs]
    /\ cancelled \in [Handlers -> BOOLEAN]
    /\ next \in [Handlers -> Nat \ {0}]
    /\ session \in [Handlers -> Sessions \union {Anonymous}]
    /\ method \in [Handlers -> Methods \union {"none"}]
    /\ carried \in [Handlers -> SUBSET Methods]
    /\ verdict \in [Handlers -> Verdicts]
    /\ ruleID \in [Handlers -> Nat]
    /\ response \in [Handlers -> Responses]

\* A handler that has served nothing yet holds an arbitrary request.
Init ==
    /\ cfg \in Configs
    /\ discovery = "pending"
    /\ runtime = Unset
    /\ pc = [h \in Handlers |-> "idle"]
    /\ request \in [Handlers -> {CHOOSE q \in Inputs : TRUE}]
    /\ cancelled = [h \in Handlers |-> FALSE]
    /\ next = [h \in Handlers |-> 1]
    /\ session = [h \in Handlers |-> Anonymous]
    /\ method = [h \in Handlers |-> "none"]
    /\ carried = [h \in Handlers |-> {}]
    /\ verdict = [h \in Handlers |-> "implicit_deny"]
    /\ ruleID = [h \in Handlers |-> 0]
    /\ response = [h \in Handlers |-> "none"]

-----------------------------------------------------------------------------
(* Configuration *)

Configured == {cfg.authenticators[i] : i \in 1 .. Len(cfg.authenticators)}

\* GetAuthenticator finds a session cookie authenticator.
HasCookie == "cookie" \in Configured

-----------------------------------------------------------------------------
(* The environment *)

SettleDiscovery ==
    /\ discovery = "pending"
    /\ discovery' \in {"ready", "failed"}
    /\ UNCHANGED <<cfg, runtime, pc, request, cancelled, next, auth, eval, response>>

\* initializeRuntime returns.
SettleRuntime ==
    /\ runtime = Unset
    /\ runtime' \in IF cfg.postgres THEN Directories \union {Failed} ELSE {NoDirectory}
    /\ UNCHANGED <<cfg, discovery, pc, request, cancelled, next, auth, eval, response>>

\* The client closes its connection.
Cancel(h) ==
    /\ pc[h] \notin {"idle", "done"}
    /\ ~cancelled[h]
    /\ cancelled' = [cancelled EXCEPT ![h] = TRUE]
    /\ UNCHANGED <<global, pc, request, next, auth, eval, response>>

\* Mutants of NoDiscovery: the context is ignored; the cached error is.
NoDiscoveryIgnoringContext(h) == discovery = "failed"

NoDiscoveryIgnoringError(h) == cancelled[h]

\* Discovery.Get(ctx) returns a document, or an error; both may be possible.
DiscoveryReady  == discovery = "ready"
NoDiscovery(h)  == discovery = "failed" \/ cancelled[h]

-----------------------------------------------------------------------------
(* Routes *)

\* The handler answers, and is free for another request.
Respond(h, answer) ==
    /\ pc' = [pc EXCEPT ![h] = "done"]
    /\ response' = [response EXCEPT ![h] = answer]

\* The first two branches of interceptRequest, in their order.
Route(q) ==
    IF q.method = "GET" /\ HasCookie /\ q.path = "callback" THEN "callback"
    ELSE IF q.method = "GET" /\ q.path = "wellknown" THEN "metadata"
    ELSE "authenticate"

Arrive(h) ==
    /\ pc[h] \in {"idle", "done"}
    /\ \E q \in Inputs :
         /\ request' = [request EXCEPT ![h] = q]
         /\ pc' = [pc EXCEPT ![h] = Route(q)]
         /\ carried' = [carried EXCEPT ![h] = {m \in Methods : q.creds[m].status # "absent"}]
    /\ cancelled' = [cancelled EXCEPT ![h] = FALSE]
    /\ next' = [next EXCEPT ![h] = 1]
    /\ session' = [session EXCEPT ![h] = Anonymous]
    /\ method' = [method EXCEPT ![h] = "none"]
    /\ verdict' = [verdict EXCEPT ![h] = "implicit_deny"]
    /\ ruleID' = [ruleID EXCEPT ![h] = 0]
    /\ response' = [response EXCEPT ![h] = "none"]
    /\ UNCHANGED global

\* HandleCallback, for what this module tells apart (LoginFlow has the whole):
\* a bad callback is refused at once, a good one goes on to the token exchange,
\* which waits for discovery; then the exchange fails, the session cannot be
\* encoded, or the browser is sent back to where it came from.
HandleCallback(h) ==
    /\ pc[h] = "callback"
    /\ \/ (~request[h].csrf \/ NoDiscovery(h)) /\ Respond(h, "400")
       \/ /\ request[h].csrf /\ DiscoveryReady
          /\ \E answer \in {"returned", "400", "500"} : Respond(h, answer)
    /\ UNCHANGED <<global, request, cancelled, next, auth, eval>>

\* ServeHTTPOAuthProtectedResource.
ServeMetadata(h) ==
    /\ pc[h] = "metadata"
    /\ \/ cfg.metadata /\ DiscoveryReady /\ Respond(h, "metadata")
       \/ (~cfg.metadata \/ NoDiscovery(h)) /\ Respond(h, "404")
    /\ UNCHANGED <<global, request, cancelled, next, auth, eval>>

-----------------------------------------------------------------------------
(* Authentication: one turn of the loop of Set.AuthenticateRequest a step *)

Current(h)    == cfg.authenticators[next[h]]
Credential(h) == request[h].creds[Current(h)]

InAuthentication(h) ==
    pc[h] = "authenticate" /\ next[h] <= Len(cfg.authenticators)

\* Mutant of Looked: the cookie authenticator asks for the verifier too.
LookedWithVerifier(h) == DiscoveryReady

\* An authenticator has looked at its credential: the cookie on the spot, a
\* token once GetVerifier has the discovery document.
Looked(h) == Current(h) = "cookie" \/ DiscoveryReady

\* Mutant of TryNext: a credential that does not verify is ignored as well.
TryNextOnAnyError(h) ==
    /\ InAuthentication(h)
    /\ \/ Credential(h).status \in {"absent", "foreign"}
       \/ Credential(h).status \in {"expired", "invalid"} /\ Looked(h)
    /\ next' = [next EXCEPT ![h] = @ + 1]
    /\ UNCHANGED <<global, pc, request, cancelled, auth, eval, response>>

\* ErrNoAuthentication and TokenExpiredError do not end the loop.
TryNext(h) ==
    /\ InAuthentication(h)
    /\ \/ Credential(h).status \in {"absent", "foreign"}
       \/ Credential(h).status = "expired" /\ Looked(h)
    /\ next' = [next EXCEPT ![h] = @ + 1]
    /\ UNCHANGED <<global, pc, request, cancelled, auth, eval, response>>

\* Mutant of Stripped: only the first authenticator strips.
StrippedByFirst(h) ==
    IF cfg.preserve THEN carried[h] ELSE carried[h] \ {cfg.authenticators[1]}

\* StripRequest: every configured authenticator removes what it would look at.
Stripped(h) == IF cfg.preserve THEN carried[h] ELSE carried[h] \ Configured

\* The request goes on to the rules as session s, proved by method m.
Proceed(h, s, m) ==
    /\ session' = [session EXCEPT ![h] = s]
    /\ method' = [method EXCEPT ![h] = m]
    /\ carried' = [carried EXCEPT ![h] = Stripped(h)]
    /\ pc' = [pc EXCEPT ![h] = "evaluate"]
    /\ next' = [next EXCEPT ![h] = 1]
    /\ UNCHANGED <<global, request, cancelled, eval, response>>

Authenticated(h) ==
    /\ InAuthentication(h)
    /\ Credential(h).status = "good" /\ Looked(h)
    /\ Proceed(h, Credential(h).session, Current(h))

\* Any other error ends the request.  A good token is refused as well when the
\* provider's keys cannot be fetched.
Rejected(h) ==
    /\ InAuthentication(h)
    /\ \/ /\ Current(h) = "cookie" /\ Credential(h).status = "invalid"
          /\ Respond(h, "400")
       \/ /\ Current(h) # "cookie" /\ Credential(h).status \notin {"absent", "foreign"}
          /\ \/ NoDiscovery(h) /\ Respond(h, "500")
             \/ /\ DiscoveryReady /\ Credential(h).status \in {"invalid", "nouid", "good"}
                /\ Respond(h, "401")
    /\ UNCHANGED <<global, request, cancelled, next, auth, eval>>

\* Mutant of Unauthenticated: no session instead of an anonymous one.
UnauthenticatedNil(h) ==
    /\ pc[h] = "authenticate" /\ next[h] > Len(cfg.authenticators)
    /\ Proceed(h, Unset, "none")

\* No authenticator succeeded.
Unauthenticated(h) ==
    /\ pc[h] = "authenticate" /\ next[h] > Len(cfg.authenticators)
    /\ \/ ~cfg.required /\ Proceed(h, Anonymous, "none")
       \/ /\ cfg.required /\ Respond(h, "401")
          /\ UNCHANGED <<global, request, cancelled, next, auth, eval>>

-----------------------------------------------------------------------------
(* Authorization: one turn of the loop of Ruleset.Evaluate a step *)

Rule(h) == cfg.rules[next[h]]

\* Mutant of Evaluated: a deny does not end the loop.
EvaluatedAtEnd(h) == pc[h] = "evaluate" /\ next[h] > Len(cfg.rules)

\* The loop is over.
Evaluated(h) ==
    pc[h] = "evaluate" /\ (verdict[h] = "explicit_deny" \/ next[h] > Len(cfg.rules))

InEvaluation(h) == pc[h] = "evaluate" /\ ~Evaluated(h)

\* An allow rule is not looked at once an allow rule has matched.
Skipped(h) == Rule(h).action = "allow" /\ verdict[h] = "allow"

RuleMatches(h, i) == RulePasses(cfg.rules[i], request[h], session[h], method[h], runtime)
RuleIsMissed(h, i) == RuleMisses(cfg.rules[i], request[h], session[h], method[h], runtime)
RuleErrs(h, i) == RuleFails(cfg.rules[i], request[h], session[h], method[h], runtime)

\* Mutant of Pass: a rule that is passed over is recorded.
PassRecording(h) ==
    /\ InEvaluation(h)
    /\ Skipped(h) \/ RuleIsMissed(h, next[h])
    /\ ruleID' = [ruleID EXCEPT ![h] = next[h]]
    /\ next' = [next EXCEPT ![h] = @ + 1]
    /\ UNCHANGED <<global, pc, request, cancelled, auth, verdict, response>>

Pass(h) ==
    /\ InEvaluation(h)
    /\ Skipped(h) \/ RuleIsMissed(h, next[h])
    /\ next' = [next EXCEPT ![h] = @ + 1]
    /\ UNCHANGED <<global, pc, request, cancelled, auth, eval, response>>

Match(h) ==
    /\ InEvaluation(h)
    /\ ~Skipped(h) /\ RuleMatches(h, next[h])
    /\ ruleID' = [ruleID EXCEPT ![h] = next[h]]
    /\ verdict' = [verdict EXCEPT ![h] =
                     IF Rule(h).action = "allow" THEN "allow" ELSE "explicit_deny"]
    /\ next' = [next EXCEPT ![h] = @ + 1]
    /\ UNCHANGED <<global, pc, request, cancelled, auth, response>>

\* An error of a matcher ends the request: ServeHTTP makes it a 500.
EvaluationFails(h) ==
    /\ InEvaluation(h)
    /\ ~Skipped(h) /\ RuleErrs(h, next[h])
    /\ Respond(h, "500")
    /\ UNCHANGED <<global, request, cancelled, next, auth, eval>>

-----------------------------------------------------------------------------
(* The answer *)

\* A browser that could log in is asked to, anyone else gets a challenge.
Invite(h) ==
    /\ pc' = [pc EXCEPT ![h] =
         IF request[h].method = "GET" /\ IsBrowserInteractive(request[h]) /\ HasCookie
           THEN "login" ELSE "challenge"]
    /\ UNCHANGED response

\* Mutants of Decide: the anonymous are refused like anyone; a deny is treated
\* like no match.
DecideForbidding(h) ==
    /\ Evaluated(h)
    /\ \/ verdict[h] = "allow" /\ Respond(h, "upstream")
       \/ verdict[h] # "allow" /\ Respond(h, "403")
    /\ UNCHANGED <<global, request, cancelled, next, auth, eval>>

DecideInviting(h) ==
    /\ Evaluated(h)
    /\ \/ verdict[h] = "allow" /\ Respond(h, "upstream")
       \/ verdict[h] # "allow" /\ ~session[h].anonymous /\ Respond(h, "403")
       \/ verdict[h] # "allow" /\ session[h].anonymous /\ Invite(h)
    /\ UNCHANGED <<global, request, cancelled, next, auth, eval>>

Decide(h) ==
    /\ Evaluated(h)
    /\ \/ verdict[h] = "allow" /\ Respond(h, "upstream")
       \/ verdict[h] = "explicit_deny" /\ Respond(h, "403")
       \/ verdict[h] = "implicit_deny" /\ ~session[h].anonymous /\ Respond(h, "403")
       \/ verdict[h] = "implicit_deny" /\ session[h].anonymous /\ Invite(h)
    /\ UNCHANGED <<global, request, cancelled, next, auth, eval>>

\* StartLogin encodes the login's cookie, with the URL of the request in it, and
\* needs the authorization endpoint of the discovery document.
StartLogin(h) ==
    /\ pc[h] = "login"
    /\ \/ ~request[h].long /\ DiscoveryReady /\ Respond(h, "login")
       \/ (request[h].long \/ NoDiscovery(h)) /\ Respond(h, "500")
    /\ UNCHANGED <<global, request, cancelled, next, auth, eval>>

\* 401, with a WWW-Authenticate header when ProtectedResourceMetadata has one.
Challenge(h) ==
    /\ pc[h] = "challenge"
    /\ \/ cfg.metadata /\ DiscoveryReady /\ Respond(h, "challenge")
       \/ (~cfg.metadata \/ NoDiscovery(h)) /\ Respond(h, "401")
    /\ UNCHANGED <<global, request, cancelled, next, auth, eval>>

-----------------------------------------------------------------------------

\* What the goroutine of h does.
Serve(h) ==
    \/ HandleCallback(h) \/ ServeMetadata(h)
    \/ TryNext(h) \/ Authenticated(h) \/ Rejected(h) \/ Unauthenticated(h)
    \/ Pass(h) \/ Match(h) \/ EvaluationFails(h)
    \/ Decide(h) \/ StartLogin(h) \/ Challenge(h)

Next ==
    \/ SettleDiscovery \/ SettleRuntime
    \/ \E h \in Handlers : Arrive(h) \/ Cancel(h) \/ Serve(h)

Spec == Init /\ [][Next]_vars

\* The provider is, or may be, asked for more than the discovery document: for
\* its keys, to verify a token; for a token and the user info, after a callback.
AtProvider(h) ==
    /\ DiscoveryReady
    /\ \/ pc[h] = "callback" /\ request[h].csrf
       \/ /\ InAuthentication(h) /\ Current(h) # "cookie"
          /\ Credential(h).status \notin {"absent", "foreign"}

\* What the goroutine does without an answer of the provider.  A call to it ends
\* with the context of the request.
ServeAlone(h) == (AtProvider(h) => cancelled[h]) /\ Serve(h)

\* Goroutines are scheduled, and the load of the directory ends within
\* directoryLoadTimeout.  The HTTP client has no timeout, so discovery may be
\* pending for ever, and so may each call after it.
FairSpec == Spec /\ WF_vars(SettleRuntime) /\ \A h \in Handlers : WF_vars(ServeAlone(h))

-----------------------------------------------------------------------------
(* Safety *)

AllowRules == {i \in 1 .. Len(cfg.rules) : cfg.rules[i].action = "allow"}
DenyRules  == {i \in 1 .. Len(cfg.rules) : cfg.rules[i].action = "deny"}

\* A request reaches the upstream only if an allow rule matches it and no deny
\* rule does, wherever the rules stand in the list, however the evaluation was
\* cut short, and whichever of them were evaluated before the directory was
\* there (README: "any deny rule ... even if another allow rule matches").
UpstreamAuthorised ==
    \A h \in Handlers : response[h] = "upstream" =>
        /\ \E i \in AllowRules : RuleMatches(h, i)
        /\ \A i \in DenyRules : RuleIsMissed(h, i)

\* A 403 has a cause: a deny rule matches, or the caller is known and no rule
\* matches at all.
RefusalJustified ==
    \A h \in Handlers : response[h] = "403" =>
        \/ \E i \in DenyRules : RuleMatches(h, i)
        \/ /\ ~session[h].anonymous
           /\ \A i \in 1 .. Len(cfg.rules) : RuleIsMissed(h, i)

\* Only someone unknown, whom no rule allows or denies, is asked to log in or
\* challenged.
InvitationJustified ==
    \A h \in Handlers : pc[h] \in {"login", "challenge"} \/ response[h] \in {"login", "challenge"} =>
        /\ session[h] = Anonymous /\ ~cfg.required
        /\ \A i \in 1 .. Len(cfg.rules) : RuleIsMissed(h, i)

\* The rule an access log names is one that matches, and of the kind the result
\* says; no rule is named when none decided.
RuleNamed ==
    \A h \in Handlers : pc[h] \in {"evaluate", "login", "challenge"} =>
        CASE verdict[h] = "implicit_deny" -> ruleID[h] = 0
          [] verdict[h] = "allow" -> ruleID[h] \in AllowRules /\ RuleMatches(h, ruleID[h])
          [] verdict[h] = "explicit_deny" -> ruleID[h] \in DenyRules /\ RuleMatches(h, ruleID[h])

\* An authenticator's credential did not end the loop.
Ignored(h, i) ==
    request[h].creds[cfg.authenticators[i]].status \in {"absent", "foreign", "expired"}

\* The identity the rules see is that of the first authenticator, in the
\* configured order, with a credential that is neither missing nor expired, and
\* that credential was good.  A later credential never stands in for a refused
\* one, and nobody is anonymous while an authenticator could tell who it is.
FirstCredentialWins ==
    \A h \in Handlers : pc[h] \in {"evaluate", "login", "challenge"} \/ response[h] \in {"upstream", "403"} =>
        \/ \E i \in 1 .. Len(cfg.authenticators) :
             /\ method[h] = cfg.authenticators[i]
             /\ request[h].creds[method[h]] = [status |-> "good", session |-> session[h]]
             /\ \A j \in 1 .. (i - 1) : Ignored(h, j)
        \/ /\ method[h] = "none" /\ session[h] = Anonymous /\ ~cfg.required
           /\ \A j \in 1 .. Len(cfg.authenticators) : Ignored(h, j)

\* No credential of a configured authenticator goes upstream, the ones that did
\* not decide the identity included; all of them do with preserve_request.
CredentialsForwarded ==
    \A h \in Handlers : response[h] = "upstream" =>
        carried[h] = {m \in Methods : /\ request[h].creds[m].status # "absent"
                                      /\ cfg.preserve \/ m \notin Configured}

-----------------------------------------------------------------------------
(* Action properties *)

\* While one request is evaluated its verdict only hardens: an allow is never
\* taken back except by a deny, and a deny is final.
VerdictHardens ==
    [][\A h \in Handlers : pc[h] = "evaluate" =>
         /\ verdict[h] = "explicit_deny" => verdict'[h] = "explicit_deny"
         /\ verdict[h] = "allow" => verdict'[h] # "implicit_deny"]_vars

-----------------------------------------------------------------------------
(* Liveness *)

InFlight(h) == pc[h] \notin {"idle", "done"}

\* A request whose client has gone is answered even if discovery never ends.
GoneClientsAreAnswered ==
    \A h \in Handlers : (InFlight(h) /\ cancelled[h]) ~> ~InFlight(h)

\* Once discovery has ended, every request is answered, or comes to a call that
\* the provider may leave unanswered, with the client still there.  After a
\* discovery that failed there is no such call.
SettledProviderAnswers ==
    \A h \in Handlers : (InFlight(h) /\ discovery # "pending") ~>
        (~InFlight(h) \/ (AtProvider(h) /\ ~cancelled[h]))

\* A request that presents no token is decided without waiting for discovery:
\* only a login or a challenge needs the provider.
TokenlessAreDecided ==
    \A h \in Handlers :
        (pc[h] = "authenticate" /\ \A m \in Methods \ {"cookie"} :
                                      request[h].creds[m].status = "absent")
          ~> pc[h] \in {"login", "challenge", "done"}

=============================================================================
