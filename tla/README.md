# A TLA+ model of caddy-oidc

`caddy-oidc` is a Caddy plugin: an app (`oidc`) that holds the configuration of OpenID Connect
providers and a directory of roles, and a handler (`oidc`) that authenticates and authorizes every
request of a route. This directory models its behaviour in TLA+, checks the models with TLC and
proves the main results with TLAPS. All source paths are relative to `src/`.

## Inventory

| Component | State it keeps | Operations | What makes it correct |
|---|---|---|---|
| deferred results, `internal/deferred` | two fields and a channel | `Defer`, `Get` | nobody reads a half-written pair; a cancelled caller comes back |
| oidc app, `app.go` | the one-time runtime (`sync.OnceValues`), the providers | `Start`, `runtime`, `GetInheritedProvider` | one load, the same answer for everyone, a failed reload changes nothing |
| role directory, `internal/directory` | an immutable index | `Load`, `User`, `HasRole` | whole or not at all |
| request middleware, `middleware.go` | none between requests | `interceptRequest`, `ServeHTTP` | who reaches the upstream; who gets 401, 403 or a login |
| access rules, `rules.go` | the list of rules | `Evaluate`, `MatchWithError`, `Validate` | deny beats allow in any order; the logged rule decided |
| matchers, `matchers.go` | their arguments | `MatchWithError` of user, anonymous, claim, auth_method, role | each matches what it says, and waits or fails only for the directory |
| authenticator set, `authenticator/authenticators.go` | the configured list | `AuthenticateRequest`, `StripRequest`, `GetAuthenticator` | the first credential decides; none leaks upstream |
| token authenticators, `bearer.go`, `header.go`, `query.go` | none | `AuthenticateRequest`, `StripRequest` | a missing or expired token is passed over, any other fault ends the request |
| session cookie authenticator, `cookie.go` | none on the server; two kinds of signed cookies | `StartLogin`, `HandleCallback`, `AuthenticateRequest` | a login gives its own browser its own session and page |
| sessions, `session/` | - | `Anonymous`, `NewFromIDToken`, `ValidateClock` | the lifetime is kept |
| provider, `provider.go`, `resource.go` | the deferred discovery document | `GetVerifier`, `AuthCodeURL`, `Exchange`, `UserInfo`, metadata | requests survive a discovery that is slow, failed or never ends |
| provider configuration, `provider_module.go` | options | `Provision`, `Validate`, `Create` | defaults and inheritance |
| baseline merge, `internal/baseline` | - | `Apply` | a named provider never modifies the default one |
| request helpers, `request/` | - | `URL`, `IsBrowserInteractive` | who counts as a browser |

They interact as follows. Caddy provisions a configuration: the app is decoded, each handler asks it
for its provider (`GetInheritedProvider`), provisions that and calls `Create`, which starts discovery in
a goroutine (`Defer`). Caddy then starts the apps, in no particular order; `App.Start` loads the
directory, and if it fails Caddy drops the configuration and keeps the old one. From the moment the
listeners are open each request runs in a goroutine of its own through `interceptRequest`: callback and
metadata routes, then the authenticators in order, then the rules. A token is verified with the
discovery document (`Get` blocks), a role matcher asks for the runtime (`runtime` blocks), and a login or
challenge at the end needs discovery once more. A login leaves the server, with its state in a cookie,
and comes back as another request.

What is hard here is what these shared waits and round trips do in combination: discovery and the
directory may be pending, failed or ready at each step of a request; clients leave while their request
waits; early requests race `Start`; the database breaks in the middle of a result; rules, credentials and
matchers come in any order; several tabs of a browser log in at once, with answers lost, reordered or
repeated, cookies running out and the secret changing. `PROJECT.json` lists these hazards one by one, each
at its line and with the properties that cover it.

## Modules

| Module | Models | Role |
|---|---|---|
| `SingleAssignment` | - | abstract: a value computed once and told to many |
| `Deferred` | `internal/deferred/defer.go` | field by field; implements `SingleAssignment` |
| `DeferredProofs` | - | theorems about `Deferred` |
| `Directory` | `internal/directory/directory.go` | operators |
| `AppRuntime`, `AppRuntimeMC` | `app.go`: the one-time load, `Start`, reloads | implements one `SingleAssignment` per configuration |
| `AppRuntimeProofs` | - | theorems about `AppRuntime` |
| `Request` | `request/request.go`: `IsBrowserInteractive` | operators |
| `AccessPolicy` | `matchers.go`, rules one at a time | operators on a request, a session and the runtime |
| `Middleware`, `MiddlewareMC` | `middleware.go`, `rules.go`, `authenticator/`, `provider.go` | the request path, several requests at once |
| `MiddlewareProofs` | - | theorems about `Middleware` |
| `Wildcard` | `matchers.go`: `MatchWildcard` | on strings, with a reference definition |
| `Claims` | `session/session.go`, `cookie.go`: claims to sessions | operators |
| `Ruleset`, `RulesetMC` | rules and matchers from a Caddyfile to the loaded rules | composes `AccessPolicy`, `Claims`, `Wildcard` |
| `RulesetProofs` | - | theorems about `Ruleset` |
| `LoginFlow`, `LoginFlowMC` | `authenticator/cookie.go`: logins, browsers and the provider | one site, an unreliable world |
| `LoginFlowProofs` | - | theorems about `LoginFlow` |
| `Callback`, `CallbackMC` | `cookie.go`, `request/request.go`: redirect URIs and cookie attributes | several hosts, a reliable world |
| `CallbackProofs` | - | theorems about `Callback` |
| `Caddyfile` | the provider's options: `app.go`, `provider_module.go`, `authenticators.go` | operators on lines |
| `Inheritance`, `InheritanceMC` | `app.go`: `GetInheritedProvider`; `internal/baseline`; `provider_module.go`; `Set.Provision` | from the blocks of a file to a provisioned handler |
| `InheritanceProofs` | - | theorems about `Inheritance`: ownership |
| `ConfigurationProofs` | - | theorems about `Inheritance`: what lines come to |

**Deferred.** `StoreValue`, `StoreErr`, `Close` are the three effects of the goroutine (defer.go:22-25);
`GetDone` and `GetReturn` are the two field reads after the select, `GetCancelled` its other case. When a
context is done and the channel is closed, either action may be taken, as in Go's select. `Return` is the
function itself: it may never return.

**AppRuntime.** A configuration's `load` goes through connect, query and scan; a row is a step, and
`LoadFails` may strike at each of them, also as `rows.Err` after the last row. `connections` is a history
variable. Caddy is external: `Reload` provisions a candidate, `Listen` opens its listeners before the oidc
app has started, which lets requests reach the candidate early, and `Concluded` is what Caddy does with the
result of `Start`. The 10 seconds of `directoryLoadTimeout` have no clock: the timeout is one of the reasons
of `LoadFails`, and it is why the load is fair.

**Middleware.** `pc[h]` is the place of handler h in `interceptRequest`. A turn of the loop of
`Set.AuthenticateRequest` is one of `TryNext`, `Authenticated`, `Rejected`; a turn of `Ruleset.Evaluate` one
of `Pass`, `Match`, `EvaluationFails`; `Decide` is the switch after it. `discovery` and `runtime` abstract
`Deferred` and `AppRuntime` to the outcome callers see, which is what their refinement of `SingleAssignment`
says. A credential is a status and the session it proves; a status stands for all ways the authenticator can
see it (`absent`, `foreign`, `good`, `expired`, `nouid`, `invalid`). A rule's matchers are a sequence in the
order in which `Rule.Provision` found them in a Go map: both orders are configurations. Rules are identified
by their index; the order of deny and allow rules is that of the file. `MatchWildcard`, the replacer, gjson's
paths (`Path`) and `NormalizeEmail` are constant operators, so the proofs hold for all of them; `Wildcard` has
the first. Caddy's own matchers are external: those that look at the request alone, and `not`, which the README
wraps around `claim` and which passes, misses, fails or waits with the matchers in it (`NotPasses` and its
kin). `long` says of a request that the cookie of a login with its URL would be too long, `StartLogin`'s 500.
`AtProvider` says when a request is at a call that comes after discovery: the keys, the exchange, the user info.

**Ruleset.** A file is its allow and deny entries with their lines. `ParseEntry` is what the one-line
directive, the shorthand of roles and the block of matchers make of an entry: `Taken` is the loop over
`d.Next` and `d.Args`, which takes every other argument of a line, and `MatcherSet` the merge of all lines of
a matcher into one. `ProvisionRule` turns the map of matchers into a sequence in any order, and `Validate`
wants an allow rule. The verdict comes from `AccessPolicy`, about the sessions that `Claims` makes of what a
provider says: `NewFromIDToken` of a bearer token, `SessionOfLogin` of the token and the user info of a login.
A claim's name is a path for a rule and for the username in a token (`ClaimAt`, gjson's `Get`), which a dot leads
into an object; it is a key for what the options copy into a cookie and for the username in the user info. So
values have an inside, and `SameVerdict` asks that the whole claim a path starts from is copied.
`MeaningKept` compares the verdict with what the lines say one by one, placeholders filled in for the request and patterns
read with `StarMeans`.

**LoginFlow.** A request carries the cookies of the moment it is sent; an answer changes them when it is
delivered. `StartLogin`, `CallbackRefused`, `CallbackUnexpected`, `ParseCsrf`, `Exchange` and `ExchangeFails`
are the code; the call of the token endpoint lies between `ParseCsrf` and the two exchanges. A cookie may be
too long to encode: then `StartLogin` and `ExchangeFails` answer 500. A flow is its `state` parameter, a
number; flow n's verifier and challenge are n. Time counts in parts of a second (`Second` of them make one),
as a cookie's Max-Age is cut to whole seconds and a session's expiry is not. Browsers, tabs, the network and
the provider are external and as bad as they may be: callbacks opened in another tab or browser, answers lost,
users refusing, exchanges failing before or after the code is spent. Only bounds differ from run to run.

**Callback.** What `LoginFlow` leaves out: `URL` puts a request's URL together from TLS, Host and the
`X-Forwarded-*` headers; `GetAbsRedirectURI` resolves `redirect_url` against it; `IsCallbackURL` compares the
two; `NewCookie` has the domain, and `GoesTo` the path, SameSite and Secure by which a browser, here external,
decides where a cookie goes. A request and its answer are one step. `Fit` says, in terms of the options and
the page alone, when a login works; the properties say that it does exactly then, and where else it ends.

**Caddyfile, Inheritance.** `LineAccepted` and `WithLine` are the `UnmarshalCaddyfile`s of provider, set and
metadata, a line at a time. `ParseBlock` adds a global block to what earlier blocks made of the same module,
which the code reads back from JSON (app.go:34); `ParseDirective` is a handler's. A provider module is a
struct with values and with references to objects on a heap, whose addresses say where an object was made:
`Applied` and `Cloned` are what `baseline.Apply` does to the struct and to the heap. `*copied = *mod`
(app.go:247) copies addresses, so the copy shares the objects of the named provider until the second `Apply`
clones them; that is the step to get right. `InheritDefault`, `InheritNamed` and `InheritMissing` are
`GetInheritedProvider` with the `Apply` of `OIDCMiddleware.Provision`; `ProvisionModule`, `Create` and
`Validate` follow for each handler. Caddy provisions handlers one after the other, in an order of its own
(`Turn`), and stops at the first error. `LoadModule` empties the raw list it has loaded, which is why a shared
set would break its second user. `client_id` and `client_secret` are treated by the code as `issuer` is and
left out. `EffectiveConfiguration` compares what a handler runs with with the lines that were written,
`NearestAncestor` with the modules that were parsed; the second is the part that does not depend on the parser.

## Runs

| Run | Question | Bounds | Distinct states |
|---|---|---|---|
| `deferred` | Is `Defer` a single assignment, and who comes back? | 2 callers, 2 values, 1 error | 493 |
| `requests` | Who passes the rules, in every order, as the directory comes or fails? Whose identity counts, what is forwarded? | all lists of two of 14 rules and of three of 4, 3 people, 2 directories; 5 authenticator lists, all options, 120 mixes of credentials | 244,200 |
| `serving` | Is everyone answered who can be? | 2 requests at once, discovery and the calls after it may never end | 67,800 |
| `runtime` | Is the directory loaded once, whole and safely? | 2 configurations, 2 requests, 2 database states with one address in two spellings | 24,310 |
| `login_tabs` | Does a login give its browser its own session and page? | 2 browsers, 3 tabs, 2 users, 2 flows, 1 repeated callback, the clock runs out the CSRF cookie | 1,762,368 |
| `login_clock` | Is a session served in its lifetime only? | 1 browser, 2 tabs, 2 flows, 2 secrets, clock to 4 half seconds, max_age of one | 1,049,326 |
| `callback` | Where does a login end, for which options? | 2 tabs on 2 hosts, 8 redirect URLs, 3 domains, 3 paths, SameSite, Secure, 5 sites, 2 logins in a row | 71,864 |
| `ruleset` | Do the loaded rules decide as the file reads? | blocks of 2 lines out of 23 and of 3 out of 8, up to 2 entries; 6 people, 5 options, claims with dots and with claims inside | 42,708 |
| `inheritance` | Does a handler run with what the files say, whatever came before it? | 2 handlers, 1 named provider, up to 2 global blocks, 17 kinds of lines | 712,638 |
| `readme_max_age`, `readme_roles`, `readme_claims` | does the code do what the README says? | - | violated |

The bounds are enough for what the properties tell apart. `Get` callers do not interact, so two show every
interleaving with the goroutine that matters. Rules interact through the verdict and an early return, for
which three rules suffice; two directories tell a role held from one not held, and the pool contains every
kind of matcher, alone or with another in both orders. In the configurations of `requests` that are about
credentials every method has a person of its own behind it, so that a wrong identity shows; `OwnInputs` keeps
each configuration to the inputs made for it, as rules and credentials meet only in the session. Handlers
share nothing but `discovery` and `runtime`, so safety is checked with one and liveness with two. Two
configurations show a reload over a serving one, with an early request to the candidate; two requests and
`Start` make three racing callers. Two flows in two tabs of one browser and a third tab in another are the
smallest world in which logins can be mixed up. Times are small numbers that keep the order of the real ones.
In `callback` the hosts are inside and outside of each cookie domain, the paths inside and outside of each
cookie path, and a second login in a row is enough to tell a loop. A block of a rule has its lines merged by
matcher, and three lines are two of one matcher around one of another. Two handlers with the same parents,
provisioned in both orders, show whatever one could do to another; two global blocks are one module spread
over two, or a child before or after its parent; the values of a field name the block that sets it, so that a
value from the wrong one shows.

`CHECK_DEADLOCK FALSE` is given where a bounded world really ends: `deferred` (everybody is back), `runtime` (no
reload is left), the logins (no flow is left), `callback` (every tab is somewhere), `ruleset` and `inheritance`
(all is provisioned or refused). The middleware serves for ever and is checked for deadlock.

**Fairness.** Goroutines that can run do run: weak fairness of the goroutine's stores and of `Get` (`Deferred`), of
each handler where it needs no answer of the provider (`Middleware`), of each caller and load (`AppRuntime`). A load
ends because of `directoryLoadTimeout`; the model counts on `conn.Close`, which is not under that timeout, to return.
Nothing obliges discovery to end, a client to leave, anyone to reload or to send a request. The HTTP client has no
timeout (provider_module.go:208), and it serves the calls after discovery too: a request that verifies a token or
exchanges a code may wait for ever, and only the end of its context, which these calls take, brings it back.
`ServeAlone` is fair, and `Serve` is not: it leaves out what a handler does `AtProvider` while its client is there.
That is why `SettledProviderAnswers` says: answered, or at such a call. One that hangs holds up no request that needs
no such call. `callback` assumes in addition that a user who is asked to log in does (`Authorize`); that is no promise
of the code, and `VisitsAreServed` is about what the code does with such a user. `LoginFlow`, where answers are lost
and users refuse, has no liveness: a login need not end there. `CallersReturn` is both halves of it: every caller is
answered, and every reload ends.

### Where the README and the code differ

- `readme_max_age`: README:357 makes `max_age` the lifetime of a session. securecookie's default age limit of
  30 days (cookie.go:297) is left in force, so an older cookie is refused with 400 (cookie.go:344), and the
  browser is not sent to log in.
- `readme_roles`: README:625 and its example of line 639 put several roles on one line of a `role` matcher.
  The parser (matchers.go:358) takes the second for the name of a line and wants an argument after it.
- `readme_claims`: README:552 and matchers.go:167 have a claim matcher without values check that the claim exists.
  matchers.go:171 hands its name to gjson as a path, so a claim with a dot in its name (`https://app.example/roles`)
  is not found unless the file writes `\.`: an allow rule on it lets nobody in, and a deny rule keeps nobody out.
  `MeaningKept` and the theorems about it read a line as the code does, by path; this run is about the difference.

Four more are plain to see in the code and need no run. README:356 completes a relative `redirect_url` with host
and protocol of the request; cookie.go:387 resolves one without a leading slash against the path of the request as
well, and `OutcomeFits` says where such a login ends. README:401 promises a 401 with `WWW-Authenticate` to
an unauthenticated request that passes an allow rule; middleware.go:279-304 forwards it, and challenges those
that match no rule. README:366 lists the conditions of the redirect to the login; middleware.go:289 has one
more, the method GET. README:69 lets a provider be defined entirely in a handler; that needs some global `oidc`
block all the same, as middleware.go:152 wants the app.

## Theorems

All are proved for every value of the constants that satisfies the named assumptions (`DeferredAssumption`,
`MiddlewareAssumption`, `RuntimeAssumption`, `RulesetAssumption`, `LoginAssumption`, `CallbackAssumption`,
`CaddyfileAssumption`, `InheritanceAssumption`:
distinct null values and names, well-formed configurations, requests, options and URLs, positive bounds; TLC
evaluates each on every run of its module). So they hold for any number of callers, configurations, tabs,
browsers, flows, rules, providers and handlers, and for all options, where the runs have the few of their bounds.
Each proof module names its inductive invariant `IInv`, shows that `Init` implies it and that every action
keeps it, one lemma or step per action, and derives the theorems from `THEOREM Invariance == Spec => []IInv`.

- **DeferredProofs**: `TypeCorrect`, `NoTorn`, `Frozen`, `Implements`. The invariant says, for each
  place of the goroutine, which of the two fields already hold the result, and that a caller past the select
  has seen the final value; it is needed because `NoTornResult` says nothing of a caller between its two reads.
  `Implements` maps the cell to the fields once the channel is closed: `Close` is the assignment, `GetReturn`
  the answer, all else stutters.
- **AppRuntimeProofs**: `TypeCorrect`, `Whole`, `LoadsOnce`, `ToldTheSame`, `TakesOver`, `Implements`. A
  directory that is being read is the one that its first `position` rows describe (`Loading`); `ScannedOneMore`
  is the lemma that one more row, through `AddRow`, describes one row more, also when the address was there
  before in another spelling. `Outcome` ties the result to the end of the load, `Answered` the callers to the
  result. `Implements` shows every step to be an assignment, an answer or a stutter of the `SingleAssignment` of
  each configuration.
- **MiddlewareProofs**: `TypeCorrect`, `Authorised`, `Justified`, `Invited`, `Named`, `FirstWins`, `Forwarded`,
  `Hardens`. The inductive invariant says of each handler what it has established so far: while it
  authenticates, that the credentials before `next` were passed over; while it evaluates, that every rule before
  `next` was missed, or skipped because of an allow, and that the verdict and the rule's name agree. The key
  lemma is `AnswersLast`: a rule that has answered with a match or a miss gives the same answer under any later
  runtime, because a matcher that could change its mind would have waited; `not` inherits that from the matchers in it. With it, what was true of a rule when
  it was evaluated is true when the request is answered, although the directory may have appeared in between.
- **RulesetProofs**: `TypeCorrect`, `MeaningIsKept`, `PatternsMean`, `MeaningIsKeptByStars`, `JudgedAlike`. The invariant says, for each phase, how many
  rules there are, that each is what `RuleOf` makes of its entry, whose lines were all accepted, and that each
  loaded rule is an arrangement of its matchers. `Arranged` shows such an arrangement to have every matcher, and
  `AnyOrder` that its order does not decide. `MergedLines` goes through the six matchers: the one that several
  lines are merged into passes where one of the lines holds, a claim where all do; `EntryMeans` is the same of a
  whole block. `MeaningIsKept` is `Spec => [](StarsAsMeant => MeaningKept)`, with the hypothesis that the patterns
  of the file match what they are said to match. `MeaningIsKeptByStars` takes `MatchWildcard` from `Wildcard`
  and discharges it, for texts over any alphabet: `PatternsMean` shows that `StarMatches` accepts exactly the values
  of `StarMeans`, by cutting a value in three (`PieceMeans`) and putting it together again (`MeansPiece`).
  In both, a claim line means the value at its path, for any `Path`: that the author of the file may have meant a
  key is outside of them (`readme_claims`). For `JudgedAlike`, `LooksAt` shows that no matcher looks at or into a claim
  whose key is not `Mentioned`, `SameClaims` that the two sessions agree on those, and `SameUser` that they agree on
  the name where it is a path of one key.
- **LoginFlowProofs**: `TypeCorrect`, `SessionsEarned`, `BackToOrigin`, `LoginsSurvive`,
  `ServedWithinLifetime`. The properties speak of the browsers' jars and of answers that arrive. Between them a
  cookie is in a request, at the server, or in an answer that may be lost, so the invariant says of every cookie
  wherever it is that it is `Genuine` (made for this flow, in this browser, for this page) or `Earned` (a session
  of a code that was spent, by the user who got it); `Challenged`, that a flow's code was asked for with its own
  challenge, which is why an exchange with another flow's cookie fails. `Elsewhere` shows that a step of one tab
  leaves what is known of the others, however their logins are interleaved.
- **CallbackProofs**: `TypeCorrect`, `SameURIs`, `LoginsEnd`. First what becomes of a URL on its way: through
  the browser (`VisitedURL`), the proxy and the server (`SeenURL`), resolved against it (`RedirectURI`). The
  invariant says where a tab is and what each cookie in the jar was made for. `SameAgain` is the heart of
  `SameURIs`: a request that the server takes for a callback gets the same redirect URI again, though a relative
  `redirect_url` was resolved against another page. For `LoginsEnd` a second invariant has two cases: where the
  server recognises its callback (`Recognised`), each tab makes `Progress`, and `LoginArrives` and
  `SessionArrives` say by the options alone which of its cookies get there; where it does not, no session ever
  exists. `LoginsEnd` is `Spec => [](PagesApart => OutcomeFits)`: `PagesApart` says that no page is
  itself taken for the callback, which a relative `redirect_url` can bring about. It depends on options and site
  only, and it holds in every state of the run.
- **InheritanceProofs**: `NoneShared`, `NearestAncestors`, `GlobalsStay`. The invariant is one of ownership: every
  struct refers to objects at its own addresses only (`Owns`), all of which exist (`Backed`), except for a copy
  between `*copied = *mod` and the `Apply` that clones; `Progress` says what each struct holds at each
  place of its handler. From ownership follow both that nothing is shared and that writing to one module does
  not change what was written of another.
- **ConfigurationProofs**: `TypeCorrect`, `ConfiguredAsSaid`. `EffectiveConfiguration` compares what a handler runs
  with to what `Said` reads off all lines about a module at once, while the parser goes line by line and block by
  block. `SaidOneMore` shows that one more line does to `Said` what `WithLine` does to the module, option by
  option; `SaidMore` is the induction over the lines of a block. `ReadInv` carries this through the
  parser: after `next - 1` blocks, each module says what the lines about it in those blocks say. `LeadInv` is what
  `TypeOK` needs on top of ownership: no reference is without its object, and the copy for a handler does not
  exist before it inherits. `SaysNearest` ties the modules that `Says` searches to the nearest one, which is
  what the handler runs with by `Progress`.

`Hardens` is about single steps and is proved only; no run checks it.

Only model-checked is liveness (`CancelledCallerReturns`, `EveryCallerReturns`, `GoneClientsAreAnswered`,
`SettledProviderAnswers`, `TokenlessAreDecided`, `CallersReturn`, `VisitsAreServed`): it needs fairness and
ENABLED, which are beyond the prover.

Induction over data is done in `ConfigurationProofs` without the library's induction theorems, whose parameter
is an operator: a lemma about a set closed under the constructors says the same and can be instantiated.

## Not modelled

`setReplacerVars` (it only writes placeholders for logs), the Caddyfile syntax and the placeholders of the
cookie authenticator, the template of the token request, the content of the metadata document, parsing of JSON
and of URLs, TLS and HTTP, cryptography of tokens and cookies, the retries inside the HTTP client, the wording
of errors, the generated enums beyond their values, and the tests' fixtures (`internal/pkgtest`).

Of gjson's paths the keys and the backslash are modelled, and not the wildcards (`*`, `?`), `#`, `|` and the
modifiers (`@`), which lead to values the token does not have as such. `Ruleset` has no `not` in its blocks, and
`AccessPolicy` none inside another. Caddy's `expression` and `vars` matchers, which can see the placeholders of the
session, are not modelled.

Four hazards have no property, as nothing in the repository says which behaviour is meant: a username that is
null in the user info or has a dot in it (cookie.go:114; `SameVerdict` excludes it), a handler without any
global block (middleware.go:152), a session cookie of an older secret, which is answered with 400 (cookie.go:342;
`LoginFlow` takes the step, and no property says whether it should), and a zero value that is taken for an option
that is not given (baseline.go:33; `EffectiveConfiguration` reads a file the same way).

## Plan

Done: the modules above, and for each component the proofs of the safety properties and of the refinements that
its runs check; each invariant and each action property of a passing run has its theorem. Left to the model
checker is liveness.
