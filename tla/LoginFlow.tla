------------------------------ MODULE LoginFlow ------------------------------
(***************************************************************************)
(* The interactive login of the session cookie authenticator (StartLogin,  *)
(* HandleCallback and AuthenticateRequest of authenticator/cookie.go) with *)
(* the browsers and the identity provider it plays against.                *)
(*                                                                         *)
(* The server keeps nothing between two requests: what a login needs on    *)
(* its way back, the PKCE verifier and the page to return to, travels in a *)
(* signed CSRF cookie that has the state of the flow in its name; what is  *)
(* left of a login is a signed session cookie.  So everything hangs on     *)
(* which cookies a request carried when it was sent, and on which answers  *)
(* were delivered meanwhile to other tabs.                                 *)
(*                                                                         *)
(* A request carries the cookies of the moment it is sent; an answer has   *)
(* its effect on them when it is delivered, and it may be lost.  External: *)
(* the browser (cookies by name, dropped at the end of their Max-Age), the *)
(* identity provider (a code is good for one exchange, with the verifier   *)
(* of its challenge), securecookie (a cookie decodes under the key it was  *)
(* encoded with, for CodecLifetime, thirty days).                          *)
(***************************************************************************)

EXTENDS Integers, FiniteSets

CONSTANTS
    Tabs,           \* the tabs of all browsers
    PageOf,         \* the page a tab is opened on
    Browsers,
    BrowserOf,      \* the browser of a tab
    Users,          \* who may sit in front of them
    MaxFlows,       \* bound: logins started
    MaxTime,        \* bound: the clock
    MaxKeys,        \* bound: secrets in the life of the service
    MaxCopies,      \* bound: callback URLs opened a second time
    Unruly,         \* answers get lost, users refuse, exchanges fail
    Second,         \* the clock's units in a second; all times are in units
    CsrfLifetime,   \* the 900 seconds of the CSRF cookie
    MaxAge,         \* the max_age option, 0 when it is not set
    TokenLifetime,  \* the time to the expiry of a new ID token
    Leeway,         \* session.Leeway
    CodecLifetime,  \* securecookie's default maximal age
    NoCookie        \* no session cookie

ASSUME LoginAssumption ==
    /\ BrowserOf \in [Tabs -> Browsers] /\ Tabs # {}
    /\ {MaxFlows, MaxTime, MaxCopies, CsrfLifetime, MaxAge, TokenLifetime, Leeway,
        CodecLifetime} \subseteq Nat
    /\ Unruly \in BOOLEAN /\ {Second, MaxKeys} \subseteq Nat \ {0}

Flows == 1 .. MaxFlows
Pages == {PageOf[t] : t \in Tabs}

VARIABLES
    clock,
    key,            \* the secret the server has now
    started,        \* the flows started so far
    origin,         \* origin[n]: the tab, page and time flow n was started for
    code,           \* code[n]: the provider's view of flow n
    copies,         \* callback URLs opened a second time so far
    csrf,           \* csrf[b]: the CSRF cookies of browser b
    session,        \* session[b]: its session cookie
    at,             \* at[t]: where tab t is
    page,           \* page[t]: the page it wants to show
    flow,           \* flow[t]: the state parameter of the URL it is at
    refused,        \* refused[t]: that URL has an error parameter
    sent,           \* sent[t]: the cookies its last request carried
    holding,        \* holding[t]: the CSRF token the server has parsed for it
    reply           \* reply[t]: the answer on its way

world   == <<clock, key, copies>>
flows   == <<started, origin>>
cookies == <<csrf, session>>
tab     == <<at, page, flow, refused, sent, holding, reply>>
vars    == <<world, flows, code, cookies, tab>>

\* The CSRF cookie of a flow: its name holds the state, its value the verifier
\* and the URL of the page.
CsrfCookies == [name : 0 .. MaxFlows, verifier : Flows, url : Pages,
                key : 1 .. MaxKeys, made : 0 .. MaxTime]

\* Of the session: user and expiry; the flow it comes from is not in the code.
SessionCookies == [user : Users, expires : Nat, flow : Flows,
                   key : 1 .. MaxKeys, made : 0 .. MaxTime]

Jars == [csrf : SUBSET CsrfCookies, session : SessionCookies \union {NoCookie}]

\* The answers of the server.
Kinds == {"none", "page", "login", "welcome", "bad_session", "bad_callback", "500"}

Replies == [kind : Kinds,
            user : Users \union {NoCookie},        \* whom a page was served to
            set : SUBSET CsrfCookies,              \* Set-Cookie, CSRF
            delete : SUBSET (0 .. MaxFlows),       \* CSRF cookies to delete
            session : SessionCookies \union {NoCookie},  \* Set-Cookie, session
            url : Pages]                            \* Location, the page's

Codes == [status : {"none", "issued", "used"}, user : Users \union {NoCookie},
          challenge : 0 .. MaxFlows]

TypeOK ==
    /\ clock \in 0 .. MaxTime /\ key \in 1 .. MaxKeys
    /\ copies \in 0 .. MaxCopies
    /\ started \in 0 .. MaxFlows
    /\ origin \in [Flows -> [tab : Tabs, page : Pages, made : 0 .. MaxTime]]
    /\ code \in [Flows -> Codes]
    /\ csrf \in [Browsers -> SUBSET CsrfCookies]
    /\ session \in [Browsers -> SessionCookies \union {NoCookie}]
    /\ at \in [Tabs -> {"idle", "sent", "authorize", "callback", "exchange", "reply"}]
    /\ page \in [Tabs -> Pages]
    /\ flow \in [Tabs -> 0 .. MaxFlows]
    /\ refused \in [Tabs -> BOOLEAN]
    /\ sent \in [Tabs -> Jars]
    /\ holding \in [Tabs -> SUBSET CsrfCookies]
    /\ reply \in [Tabs -> Replies]

Silence(t) == [kind |-> "none", user |-> NoCookie, set |-> {}, delete |-> {},
               session |-> NoCookie, url |-> PageOf[t]]

NoJar == [csrf |-> {}, session |-> NoCookie]

Init ==
    /\ clock = 0 /\ key = 1 /\ copies = 0 /\ started = 0
    /\ origin = [n \in Flows |-> LET t == CHOOSE t \in Tabs : TRUE
                                  IN  [tab |-> t, page |-> PageOf[t], made |-> 0]]
    /\ code = [n \in Flows |-> [status |-> "none", user |-> NoCookie, challenge |-> 0]]
    /\ csrf = [b \in Browsers |-> {}]
    /\ session = [b \in Browsers |-> NoCookie]
    /\ at = [t \in Tabs |-> "idle"]
    /\ page = [t \in Tabs |-> PageOf[t]]
    /\ flow = [t \in Tabs |-> 0]
    /\ refused = [t \in Tabs |-> FALSE]
    /\ sent = [t \in Tabs |-> NoJar]
    /\ holding = [t \in Tabs |-> {}]
    /\ reply = [t \in Tabs |-> Silence(t)]

-----------------------------------------------------------------------------
(* Cookies *)

\* The cookies browser b would send.
Jar(b) == [csrf |-> csrf[b], session |-> session[b]]

\* securecookie's Decode.
Decodes(c) == c.key = key /\ clock <= c.made + CodecLifetime

\* Mutant of CsrfName: one CSRF cookie for all flows.
CsrfNameShared(n) == 0

\* The state is part of the name of the CSRF cookie.
CsrfName(n) == n

\* ValidateClock.
Expired(s) == s.expires + Leeway < clock

\* Cookies and sessions count in whole seconds.
WholeSeconds(time) == (time \div Second) * Second

\* The browser keeps a cookie for its Max-Age; a session cookie without one, which
\* is what a max_age below a second makes of it, stays as long as the browser does.
KeptCsrf(c, now)    == now < c.made + CsrfLifetime
KeptSession(s, now) ==
    s = NoCookie \/ WholeSeconds(MaxAge) = 0 \/ now < s.made + WholeSeconds(MaxAge)

-----------------------------------------------------------------------------
(* The environment *)

\* Time passes; the browsers drop what is past its Max-Age.
Tick ==
    /\ clock < MaxTime
    /\ clock' = clock + 1
    /\ csrf' = [b \in Browsers |-> {c \in csrf[b] : KeptCsrf(c, clock')}]
    /\ session' = [b \in Browsers |->
                     IF KeptSession(session[b], clock') THEN session[b] ELSE NoCookie]
    /\ UNCHANGED <<key, copies, flows, code, tab>>

\* The service restarts with another secret.
ChangeSecret ==
    /\ key < MaxKeys
    /\ key' = key + 1
    /\ UNCHANGED <<clock, copies, flows, code, cookies, tab>>

\* Tab t sends the request it is at, with the cookies of now.
Send(t, place) ==
    /\ at' = [at EXCEPT ![t] = place]
    /\ sent' = [sent EXCEPT ![t] = Jar(BrowserOf[t])]

\* The user opens the page of the tab, or opens it again.
Visit(t) ==
    /\ at[t] = "idle"
    /\ Send(t, "sent")
    /\ page' = [page EXCEPT ![t] = PageOf[t]]
    /\ reply' = [reply EXCEPT ![t] = Silence(t)]
    /\ UNCHANGED <<world, flows, code, cookies, flow, refused, holding>>

-----------------------------------------------------------------------------
(* The server, asked for a page *)

\* The server is done with the request of t.
Answer(t, r) ==
    /\ reply' = [reply EXCEPT ![t] = r]
    /\ at' = [at EXCEPT ![t] = "reply"]
    /\ sent' = [sent EXCEPT ![t] = NoJar]

\* A session that decodes and has not expired is served.
ServePage(t) ==
    /\ at[t] = "sent"
    /\ LET s == sent[t].session
       IN  /\ s # NoCookie
           /\ Decodes(s) /\ ~Expired(s)
           /\ Answer(t, [Silence(t) EXCEPT !.kind = "page", !.user = s.user])
    /\ UNCHANGED <<world, flows, code, cookies, page, flow, refused, holding>>

\* A session cookie that does not decode is a bad request.
RefuseSession(t) ==
    /\ at[t] = "sent"
    /\ sent[t].session # NoCookie
    /\ ~Decodes(sent[t].session)
    /\ Answer(t, [Silence(t) EXCEPT !.kind = "bad_session"])
    /\ UNCHANGED <<world, flows, code, cookies, page, flow, refused, holding>>

\* Without a session, or with an expired one, a login is started: a new state, a
\* new verifier, and a cookie that holds both.  The cookie is set even when the
\* authorization endpoint turns out to be unknown; it is not when securecookie
\* finds it too long, as it may be with the URL of the page in it.
StartLogin(t) ==
    /\ at[t] = "sent"
    /\ started < MaxFlows
    /\ LET s == sent[t].session
       IN  s # NoCookie => Decodes(s) /\ Expired(s)
    /\ LET n == started + 1
           c == [name |-> CsrfName(n), verifier |-> n, url |-> page[t], key |-> key, made |-> clock]
       IN  /\ started' = n
           /\ origin' = [origin EXCEPT ![n] = [tab |-> t, page |-> page[t], made |-> clock]]
           /\ code' = [code EXCEPT ![n].challenge = n]
           /\ \/ Answer(t, [Silence(t) EXCEPT !.kind = "login", !.set = {c}])
              \/ Unruly /\ \E set \in {{c}, {}} :
                              Answer(t, [Silence(t) EXCEPT !.kind = "500", !.set = set])
           /\ flow' = [flow EXCEPT ![t] = n]
    /\ UNCHANGED <<world, cookies, page, refused, holding>>

-----------------------------------------------------------------------------
(* The identity provider *)

\* Somebody logs in, and the browser is sent to the callback with a code ...
Authorize(t) ==
    /\ at[t] = "authorize"
    /\ code[flow[t]].status = "none"
    /\ \E u \in Users : code' = [code EXCEPT ![flow[t]] = [@ EXCEPT !.status = "issued", !.user = u]]
    /\ refused' = [refused EXCEPT ![t] = FALSE]
    /\ Send(t, "callback")
    /\ UNCHANGED <<world, flows, cookies, page, flow, holding, reply>>

\* ... or with an error parameter.
Deny(t) ==
    /\ Unruly
    /\ at[t] = "authorize"
    /\ refused' = [refused EXCEPT ![t] = TRUE]
    /\ Send(t, "callback")
    /\ UNCHANGED <<world, flows, code, cookies, page, flow, holding, reply>>

\* A callback URL is opened in another tab or browser, or again in its own.
OpenCallback(t) ==
    /\ copies < MaxCopies
    /\ at[t] = "idle"
    /\ \E n \in Flows : code[n].status # "none" /\ flow' = [flow EXCEPT ![t] = n]
    /\ copies' = copies + 1
    /\ refused' = [refused EXCEPT ![t] = FALSE]
    /\ Send(t, "callback")
    /\ UNCHANGED <<clock, key, flows, code, cookies, page, holding, reply>>

-----------------------------------------------------------------------------
(* The server, called back *)

\* The CSRF cookie for the state parameter, if the request carries it.
Named(t) == {c \in sent[t].csrf : c.name = CsrfName(flow[t])}

\* An error parameter ends the callback before the cookie is looked at.
CallbackRefused(t) ==
    /\ at[t] = "callback" /\ refused[t]
    /\ Answer(t, [Silence(t) EXCEPT !.kind = "bad_callback"])
    /\ UNCHANGED <<world, flows, code, cookies, page, flow, refused, holding>>

\* handleCallbackParseCSRFCookie: there is no such cookie; or there is, and it
\* is deleted, but it does not decode.
CallbackUnexpected(t) ==
    /\ at[t] = "callback" /\ ~refused[t]
    /\ \/ /\ Named(t) = {}
          /\ Answer(t, [Silence(t) EXCEPT !.kind = "bad_callback"])
       \/ /\ \E c \in Named(t) : ~Decodes(c)
          /\ Answer(t, [Silence(t) EXCEPT !.kind = "bad_callback", !.delete = {CsrfName(flow[t])}])
    /\ UNCHANGED <<world, flows, code, cookies, page, flow, refused, holding>>

\* Mutant of ParseCsrf: the verifier is looked up by the state of the URL, not in
\* the cookies of the request.
ParseCsrfByState(t) ==
    /\ at[t] = "callback" /\ ~refused[t]
    /\ holding' = [holding EXCEPT ![t] =
                     {[name |-> CsrfName(flow[t]), verifier |-> flow[t],
                       url |-> origin[flow[t]].page, key |-> key, made |-> clock]}]
    /\ at' = [at EXCEPT ![t] = "exchange"]
    /\ sent' = [sent EXCEPT ![t] = NoJar]
    /\ UNCHANGED <<world, flows, code, cookies, page, flow, refused, reply>>

\* The cookie decodes: the code can be exchanged with its verifier.
ParseCsrf(t) ==
    /\ at[t] = "callback" /\ ~refused[t]
    /\ \E c \in Named(t) : Decodes(c)
    /\ holding' = [holding EXCEPT ![t] = Named(t)]
    /\ at' = [at EXCEPT ![t] = "exchange"]
    /\ sent' = [sent EXCEPT ![t] = NoJar]
    /\ UNCHANGED <<world, flows, code, cookies, page, flow, refused, reply>>

\* The token endpoint takes a code once, with the verifier of its challenge.
Redeemable(t, c) == code[flow[t]].status = "issued" /\ code[flow[t]].challenge = c.verifier

\* Mutant of ExpiryOfSession: max_age counts from the expiry of the token.
ExpiryOfSessionTwice == WholeSeconds(clock + TokenLifetime + MaxAge)

\* Mutant of ExpiryOfSession: the expiry of the token is not taken over, and the
\* zero time is encoded.
ExpiryOfSessionZero == IF MaxAge > 0 THEN clock + MaxAge ELSE -1

\* The expiry of a session made now, as a Unix time.
ExpiryOfSession == WholeSeconds(clock + (IF MaxAge > 0 THEN MaxAge ELSE TokenLifetime))

\* Mutant of Exchange: back to the page of the tab that brought the code.
ExchangeToCaller(t) ==
    /\ at[t] = "exchange"
    /\ \E c \in holding[t] :
         /\ Redeemable(t, c)
         /\ code' = [code EXCEPT ![flow[t]].status = "used"]
         /\ Answer(t, [Silence(t) EXCEPT !.kind = "welcome", !.delete = {c.name}, !.url = page[t],
                         !.session = [user |-> code[flow[t]].user, expires |-> ExpiryOfSession,
                                      flow |-> flow[t], key |-> key, made |-> clock]])
    /\ holding' = [holding EXCEPT ![t] = {}]
    /\ UNCHANGED <<world, flows, cookies, page, flow, refused>>

\* handleCodeExchange succeeds: the browser is given a session and sent back to
\* the page the flow was started for.
Exchange(t) ==
    /\ at[t] = "exchange"
    /\ \E c \in holding[t] :
         /\ Redeemable(t, c)
         /\ code' = [code EXCEPT ![flow[t]].status = "used"]
         /\ Answer(t, [Silence(t) EXCEPT !.kind = "welcome", !.delete = {c.name}, !.url = c.url,
                         !.session = [user |-> code[flow[t]].user, expires |-> ExpiryOfSession,
                                      flow |-> flow[t], key |-> key, made |-> clock]])
    /\ holding' = [holding EXCEPT ![t] = {}]
    /\ UNCHANGED <<world, flows, cookies, page, flow, refused>>

\* It fails: the provider does not take the code; or, the code spent or not, the
\* provider cannot be reached or the user info lacks the username; or there is a
\* session, and its claims are too long for a cookie (500).
ExchangeFails(t) ==
    /\ at[t] = "exchange"
    /\ \E c \in holding[t] :
         /\ \/ ~Redeemable(t, c) /\ UNCHANGED code
            \/ Unruly /\ UNCHANGED code
            \/ Unruly /\ Redeemable(t, c) /\ code' = [code EXCEPT ![flow[t]].status = "used"]
         /\ \E kind \in {"bad_callback"} \union (IF code' = code THEN {} ELSE {"500"}) :
              Answer(t, [Silence(t) EXCEPT !.kind = kind, !.delete = {c.name}])
    /\ holding' = [holding EXCEPT ![t] = {}]
    /\ UNCHANGED <<world, flows, cookies, page, flow, refused>>

-----------------------------------------------------------------------------
(* The answer *)

\* The cookies of a browser after an answer.
After(b, r) ==
    [csrf |-> {c \in csrf[b] : c.name \notin r.delete /\ \A d \in r.set : c.name # d.name}
                \union {c \in r.set : KeptCsrf(c, clock)},
     session |-> IF r.session # NoCookie /\ KeptSession(r.session, clock)
                   THEN r.session ELSE session[b]]

\* It arrives: first its cookies, then its redirection.
Deliver(t) ==
    /\ at[t] = "reply"
    /\ LET b == BrowserOf[t]
           r == reply[t]
           jar == After(b, r)
       IN  /\ csrf' = [csrf EXCEPT ![b] = jar.csrf]
           /\ session' = [session EXCEPT ![b] = jar.session]
           /\ at' = [at EXCEPT ![t] = CASE r.kind = "login" -> "authorize"
                                        [] r.kind = "welcome" -> "sent"
                                        [] OTHER -> "idle"]
           /\ sent' = [sent EXCEPT ![t] = IF r.kind = "welcome" THEN jar ELSE @]
           /\ page' = [page EXCEPT ![t] = IF r.kind = "welcome" THEN r.url ELSE @]
           /\ reply' = [reply EXCEPT ![t] =
                          IF r.kind \in {"login", "welcome"} THEN Silence(t) ELSE @]
    /\ UNCHANGED <<world, flows, code, flow, refused, holding>>

\* It is lost, cookies and all; the user may ask again (Visit, OpenCallback).
Lose(t) ==
    /\ Unruly
    /\ at[t] = "reply"
    /\ at' = [at EXCEPT ![t] = "idle"]
    /\ reply' = [reply EXCEPT ![t] = Silence(t)]
    /\ UNCHANGED <<world, flows, code, cookies, page, flow, refused, sent, holding>>

-----------------------------------------------------------------------------

Server(t) ==
    \/ ServePage(t) \/ RefuseSession(t) \/ StartLogin(t)
    \/ CallbackRefused(t) \/ CallbackUnexpected(t) \/ ParseCsrf(t)
    \/ Exchange(t) \/ ExchangeFails(t)

Next ==
    \/ Tick \/ ChangeSecret
    \/ \E t \in Tabs :
         \/ Visit(t) \/ Server(t) \/ Authorize(t) \/ Deny(t) \/ OpenCallback(t)
         \/ Deliver(t) \/ Lose(t)

Spec == Init /\ [][Next]_vars

-----------------------------------------------------------------------------
(* Safety *)

\* A browser has a session only of a flow that was started in that browser, for
\* the user who logged in at the end of it, whichever tabs and browsers the
\* callback URL was opened in, and in whatever order the answers arrived.
SessionEarned ==
    \A b \in Browsers : session[b] # NoCookie =>
        LET n == session[b].flow
        IN  /\ BrowserOf[origin[n].tab] = b
            /\ code[n].status = "used" /\ code[n].user = session[b].user

\* After the login the browser is sent to the page whose request started that
\* very login, even if other tabs started theirs in between.
ReturnsToOrigin ==
    \A t \in Tabs : (at[t] = "reply" /\ reply[t].kind = "welcome") =>
        reply[t].url = origin[reply[t].session.flow].page

\* While a user is at the provider, what the browser holds is enough to finish
\* the login: nothing that happens in other tabs takes the flow's verifier and
\* page away, until the 15 minutes are over.
LoginSurvives ==
    \A t \in Tabs : at[t] = "authorize" =>
        \/ clock >= origin[flow[t]].made + CsrfLifetime
        \/ \E c \in csrf[BrowserOf[t]] :
             /\ c.name = CsrfName(flow[t]) /\ c.verifier = flow[t]
             /\ c.url = origin[flow[t]].page

-----------------------------------------------------------------------------
(* Action properties *)

\* A page is served on a session only within the lifetime counted from the
\* login that made it: max_age if it is set, else that of the ID token.
ServedInTime ==
    [][\A t \in Tabs : (at[t] = "sent" /\ reply'[t].kind = "page") =>
         clock <= sent[t].session.made + Leeway
                    + (IF MaxAge > 0 THEN MaxAge ELSE TokenLifetime)]_vars

-----------------------------------------------------------------------------
(* What the README says *)

\* README:357: with max_age "session expiry is now+max_age"; a session younger
\* than that, and of the current secret, is not refused as a bad request.
ReadmeMaxAge ==
    \A t \in Tabs :
        LET s == session[BrowserOf[t]]
        IN  (at[t] = "reply" /\ reply[t].kind = "bad_session" /\ s # NoCookie /\ s.key = key)
              => clock >= s.made + MaxAge

=============================================================================
