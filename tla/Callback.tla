------------------------------ MODULE Callback ------------------------------
(***************************************************************************)
(* Where a login goes and which cookies go with it: the redirect URI that  *)
(* the session cookie authenticator makes of redirect_url and a request,   *)
(* the requests it takes for callbacks, and the attributes of its cookies, *)
(* against a browser that keeps to them and a proxy that hides its URL.    *)
(*                                                                         *)
(* LoginFlow has one site whose cookies go everywhere, and lets answers be *)
(* late or lost; here a request and its answer are one step, and what may  *)
(* go wrong is the configuration.                                          *)
(*                                                                         *)
(* A URL is a scheme, a host and a path, the path a sequence of segments:  *)
(* /a/b is <<"a", "b">>, / is <<"">>.  A configured redirect_url is a URL  *)
(* whose scheme and host may be empty, and that is rooted when its path    *)
(* begins with a slash.  A request is what the server sees of one: whether *)
(* it came over TLS, its Host, and the X-Forwarded-* headers.              *)
(***************************************************************************)

EXTENDS Naturals, SequencesExt

CONSTANTS
    Tabs,           \* the tabs of one browser
    Starts,         \* Starts[t]: host and path of the page tab t is to open
    HostsUnder(_),  \* the hosts a cookie domain covers
    Canonical(_),   \* how a browser writes a host: lower case, no default port
    Inner,          \* the host a forwarding proxy asks for
    Options,        \* the options of the cookie authenticator
    Sites,          \* scheme and proxy
    MaxLogins,      \* bound: logins in a row before the user gives up
    NoURL

Schemes == {"http", "https"}
Paths   == Seq(STRING) \ {<<>>}

\* What redirect_url may be.
Refs == [scheme : Schemes \union {""}, host : STRING, rooted : BOOLEAN, path : Paths]

\* The hosts of pages and redirect URLs, as written and as browsers write them.
Hosts == {Starts[t].host : t \in Tabs}
           \union {o.redirect_url.host : o \in {o \in Options : o.redirect_url # NoURL}}

KnownHosts == (Hosts \union {Canonical(h) : h \in Hosts}) \ {""}

URLs == [scheme : Schemes, host : KnownHosts, path : Paths]

ASSUME CallbackAssumption ==
    /\ MaxLogins \in Nat \ {0}
    /\ Sites \subseteq [scheme : Schemes, proxy : {"none", "forwarding", "offloading"}]
    /\ Options \subseteq [redirect_url : Refs \union {NoURL}, domain : STRING, path : Seq(STRING),
                          same_site : {"lax", "strict", "none"}, insecure : BOOLEAN]
    /\ \A o \in Options : (o.redirect_url # NoURL /\ o.redirect_url.scheme # "")
                             => o.redirect_url.host # ""
    /\ \A t \in Tabs : Starts[t].host # "" /\ Starts[t].path \in Paths
    /\ Canonical("") = ""
    /\ \A h \in Hosts : Canonical(Canonical(h)) = Canonical(h) /\ (Canonical(h) = "" => h = "")
    /\ NoURL \notin URLs \union Refs
    /\ {"", "oauth2", "callback"} \subseteq STRING     \* which no prover knows by itself

VARIABLES
    option,         \* the options, after Provision
    site,           \* the scheme of the pages, and the proxy before the server
    jar,            \* the cookies of the browser
    at,             \* at[t]: where tab t is
    url,            \* url[t]: the URL it asks for
    logins,         \* logins[t]: the logins it has started
    asked           \* asked[t]: the redirect URI of the last of them

vars == <<option, site, jar, at, url, logins, asked>>

Page(t) == [scheme |-> site.scheme, host |-> Starts[t].host, path |-> Starts[t].path]

-----------------------------------------------------------------------------
(* URLs *)

\* Mutant of URL: the X-Forwarded-Host is not looked at.
URLOfHost(r) ==
    [scheme |-> IF r.tls \/ r.forwardedProto = "https" THEN "https" ELSE "http",
     host   |-> r.host,
     path   |-> r.path]

\* request.URL: the URL the client asked for, as far as the server can tell.
URL(r) ==
    [scheme |-> IF r.tls \/ r.forwardedProto = "https" THEN "https" ELSE "http",
     host   |-> IF r.forwardedHost # "" THEN r.forwardedHost ELSE r.host,
     path   |-> r.path]

\* net/url's ResolveReference: a path that is not rooted replaces the last
\* segment of the base.
Resolve(base, ref) ==
    [scheme |-> base.scheme,
     host   |-> IF ref.host # "" THEN ref.host ELSE base.host,
     path   |-> IF ref.rooted THEN ref.path ELSE Front(base.path) \o ref.path]

IsAbs(ref) == ref.scheme # ""

\* GetAbsRedirectURI: relative to the URL of the request, path included.
GetAbsRedirectURI(r) ==
    LET ref == option.redirect_url
    IN  IF IsAbs(ref) THEN [scheme |-> ref.scheme, host |-> ref.host, path |-> ref.path]
        ELSE Resolve(URL(r), ref)

\* Mutant of IsCallbackURL: the directory of the path is not compared.
IsCallbackURLByName(r) ==
    LET u == GetAbsRedirectURI(r)
    IN  URL(r).scheme = u.scheme /\ URL(r).host = u.host /\ Last(URL(r).path) = Last(u.path)

IsCallbackURL(r) == URL(r) = GetAbsRedirectURI(r)

-----------------------------------------------------------------------------
(* Cookies *)

Secure == ~option.insecure

\* The browser takes a cookie of NewCookie from an answer of URL u: its domain
\* covers the host, and one that is secure needs https, one for all sites secure.
Accepted(u) ==
    /\ option.domain = "" \/ u.host \in HostsUnder(option.domain)
    /\ Secure => u.scheme = "https"
    /\ option.same_site = "none" => Secure

\* Mutant of CsrfName: one name for all logins.
CsrfNameShared(t, n) == <<"csrf">>

\* The n-th login of tab t has a state of its own, and its cookie a name with it.
CsrfName(t, n) == <<t, n>>

\* A cookie of the session (name <<>>) or of a login, which holds the login's
\* verifier and the URL to return to.  Without a domain it belongs to the host
\* that set it; path, SameSite and Secure are those of the options.
NewCookie(u, name, flow, return) ==
    [host |-> IF option.domain = "" THEN u.host ELSE "", name |-> name, flow |-> flow,
     return |-> return]

SessionCookie(u) == NewCookie(u, <<>>, <<>>, NoURL)

\* The browser adds cookie c to a request for URL u; strict ones not to one that
\* another site has caused.
GoesTo(c, u, crossSite) ==
    /\ IF c.host = "" THEN u.host \in HostsUnder(option.domain) ELSE u.host = c.host
    /\ IsPrefix(option.path, u.path)
    /\ Secure => u.scheme = "https"
    /\ option.same_site = "strict" => ~crossSite

\* The jar after a cookie of an answer: it replaces the one of the same name.
Stored(u, c) ==
    IF Accepted(u) THEN {d \in jar : d.name # c.name \/ d.host # c.host} \union {c} ELSE jar

-----------------------------------------------------------------------------
(* Configuration *)

\* Mutant of Provisioned: redirect_url has no default.
ProvisionedAsIs(o) == o

\* Provision's default for an empty redirect_url; an empty path becomes /, here <<>>.
Provisioned(o) ==
    [o EXCEPT !.redirect_url =
                IF @ = NoURL THEN [scheme |-> "", host |-> "", rooted |-> TRUE,
                                   path |-> <<"oauth2", "callback">>] ELSE @]

Init ==
    /\ \E o \in Options : option = Provisioned(o)
    /\ site \in Sites
    /\ jar = {}
    /\ at = [t \in Tabs |-> "idle"]
    /\ url = [t \in Tabs |-> Page(t)]
    /\ logins = [t \in Tabs |-> 0]
    /\ asked = [t \in Tabs |-> NoURL]

Places  == {"idle", "asking", "provider", "returning", "served", "failed", "looping"}

\* Whatever is configured, a cookie is in the jar once, and the places of a tab
\* and the logins it has started agree.
TypeOK ==
    /\ site \in Sites /\ option.redirect_url # NoURL
    /\ at \in [Tabs -> Places]
    /\ logins \in [Tabs -> 0 .. MaxLogins]
    /\ \A t \in Tabs :
         /\ url[t].scheme \in Schemes /\ url[t].path # <<>>
         /\ at[t] # "idle" => url[t].host = Canonical(url[t].host)
         /\ (asked[t] = NoURL) = (logins[t] = 0)
         /\ at[t] = "provider" => asked[t] # NoURL
    /\ \A c \in jar : c.host \in {"", Canonical(c.host)} /\ (c.name = <<>>) = (c.return = NoURL)
    /\ \A c, d \in jar : (c.name = d.name /\ c.host = d.host) => c = d

-----------------------------------------------------------------------------
(* The browser and the proxy *)

\* The URL a browser asks for when it is sent to u.  A proxy that ends TLS sends
\* plain requests on to https.
Visited(u) ==
    [scheme |-> IF site.proxy = "offloading" THEN "https" ELSE u.scheme,
     host   |-> Canonical(u.host),
     path   |-> u.path]

\* What the server sees of that.  An offloading proxy passes the Host on and
\* nothing else, a forwarding one says what it was asked.
Received(u) ==
    CASE site.proxy = "none" ->
           [tls |-> u.scheme = "https", host |-> u.host, path |-> u.path,
            forwardedProto |-> "", forwardedHost |-> ""]
      [] site.proxy = "offloading" ->
           [tls |-> FALSE, host |-> u.host, path |-> u.path,
            forwardedProto |-> "", forwardedHost |-> ""]
      [] site.proxy = "forwarding" ->
           [tls |-> FALSE, host |-> Inner, path |-> u.path,
            forwardedProto |-> u.scheme, forwardedHost |-> u.host]

\* Tab t's request is with the server.
Asking(t) == at[t] \in {"asking", "returning"}

\* The request of t as the server sees it, and the cookies it has.
Request(t) == Received(url[t])
Cookies(t) == {c \in jar : GoesTo(c, url[t], at[t] = "returning")}

SessionCookies(t) == {c \in Cookies(t) : c.name = <<>>}
CsrfCookies(t)    == {c \in Cookies(t) : c.name = CsrfName(t, logins[t])}

Visit(t) ==
    /\ at[t] = "idle"
    /\ at' = [at EXCEPT ![t] = "asking"]
    /\ url' = [url EXCEPT ![t] = Visited(Page(t))]
    /\ UNCHANGED <<option, site, jar, logins, asked>>

\* Somebody logs in, on a page of the provider.
Authorize(t) ==
    /\ at[t] = "provider"
    /\ at' = [at EXCEPT ![t] = "returning"]
    /\ url' = [url EXCEPT ![t] = Visited(asked[t])]
    /\ UNCHANGED <<option, site, jar, logins, asked>>

\* Nobody logs in for ever.
GiveUp(t) ==
    /\ Asking(t) /\ ~IsCallbackURL(Request(t)) /\ SessionCookies(t) = {}
    /\ logins[t] = MaxLogins
    /\ at' = [at EXCEPT ![t] = "looping"]
    /\ UNCHANGED <<option, site, jar, url, logins, asked>>

-----------------------------------------------------------------------------
(* The server *)

ServePage(t) ==
    /\ Asking(t) /\ ~IsCallbackURL(Request(t))
    /\ SessionCookies(t) # {}
    /\ at' = [at EXCEPT ![t] = "served"]
    /\ UNCHANGED <<option, site, jar, url, logins, asked>>

\* The provider is told where to send the browser back to, the browser is given
\* the page to return to.
StartLogin(t) ==
    /\ Asking(t) /\ ~IsCallbackURL(Request(t))
    /\ SessionCookies(t) = {}
    /\ logins[t] < MaxLogins
    /\ logins' = [logins EXCEPT ![t] = @ + 1]
    /\ jar' = Stored(url[t], NewCookie(url[t], CsrfName(t, logins'[t]), <<t, logins'[t]>>,
                                       URL(Request(t))))
    /\ asked' = [asked EXCEPT ![t] = GetAbsRedirectURI(Request(t))]
    /\ at' = [at EXCEPT ![t] = "provider"]
    /\ UNCHANGED <<option, site, url>>

SameURI(t) == GetAbsRedirectURI(Request(t)) = asked[t]

\* The provider gives a token only for the redirect URI it was asked with, and to
\* the verifier of that login.
Exchanges(t, c) == SameURI(t) /\ c.flow = <<t, logins[t]>>

\* HandleCallback: the login's cookie is there and is deleted, the code is
\* exchanged, the browser is given a session and sent to its page.
HandleCallback(t) ==
    /\ Asking(t) /\ IsCallbackURL(Request(t))
    /\ \E c \in CsrfCookies(t) :
         /\ Exchanges(t, c)
         /\ jar' = Stored(url[t], SessionCookie(url[t]))
                     \ (IF Accepted(url[t]) THEN {c} ELSE {})
         /\ url' = [url EXCEPT ![t] = Visited(c.return)]
    /\ at' = [at EXCEPT ![t] = "returning"]
    /\ UNCHANGED <<option, site, logins, asked>>

\* There is no such cookie, or the provider does not take the code.
CallbackFails(t) ==
    /\ Asking(t) /\ IsCallbackURL(Request(t))
    /\ \A c \in CsrfCookies(t) : ~Exchanges(t, c)
    /\ jar' = jar \ (IF Accepted(url[t]) THEN CsrfCookies(t) ELSE {})
    /\ at' = [at EXCEPT ![t] = "failed"]
    /\ UNCHANGED <<option, site, url, logins, asked>>

Server(t) == ServePage(t) \/ StartLogin(t) \/ HandleCallback(t) \/ CallbackFails(t)

Next == \E t \in Tabs : Visit(t) \/ Authorize(t) \/ GiveUp(t) \/ Server(t)

Spec == Init /\ [][Next]_vars

\* Requests are served, and users log in when asked.
FairSpec == Spec /\ \A t \in Tabs : WF_vars(Server(t)) /\ WF_vars(Authorize(t))

-----------------------------------------------------------------------------
(* What the options are good for *)

\* The callback as the browser sees it, for a login started on the page of t.
CallbackOf(t) ==
    LET ref  == option.redirect_url
        page == Visited(Page(t))
    IN  Visited(IF IsAbs(ref) THEN [scheme |-> ref.scheme, host |-> ref.host, path |-> ref.path]
                ELSE Resolve(page, ref))

\* The server takes it for a callback: its host is written as browsers write it;
\* if it is absolute, its scheme is the one the server sees; if not, it is rooted
\* or a single segment.
Recognised(t) ==
    LET ref == option.redirect_url
    IN  /\ ref.host = Canonical(ref.host)
        /\ IF IsAbs(ref) THEN site.proxy = "offloading" => ref.scheme = "http"
           ELSE ref.rooted \/ Len(ref.path) = 1

\* A host, a path and a scheme within the scope of the cookies.
InScope(u) ==
    /\ option.domain = "" \/ u.host \in HostsUnder(option.domain)
    /\ IsPrefix(option.path, u.path)
    /\ option.insecure \/ u.scheme = "https"

\* The cookie of a login on the page of t gets to its callback.
LoginReturns(t) ==
    LET page == Visited(Page(t))
    IN  /\ option.same_site = "none" => ~option.insecure
        /\ option.same_site # "strict"
        /\ InScope([page EXCEPT !.path = option.path]) /\ InScope(CallbackOf(t))
        /\ option.domain = "" => page.host = CallbackOf(t).host

\* The options fit the page of t.
Fit(t) == Recognised(t) /\ LoginReturns(t) /\ InScope(Visited(Page(t)))

\* Logins end as the options say, for every redirect URL, domain, path, SameSite,
\* scheme and proxy, and whatever another tab does meanwhile: where they fit,
\* never in a refusal or in one login after the other; where the cookie does not
\* get to the callback, in a refusal; the user is in a loop only where the server
\* does not know its callback or the page is beyond the session's scope.
OutcomeFits ==
    \A t \in Tabs :
        /\ at[t] = "served" => url[t] = Visited(Page(t)) /\ InScope(url[t])
        /\ at[t] = "failed" => Recognised(t) /\ ~LoginReturns(t)
        /\ at[t] = "looping" =>
             ~Recognised(t) \/ (LoginReturns(t) /\ ~InScope(Visited(Page(t))))

\* The redirect URI of the exchange is that of the authorization request, though
\* they are computed from two requests, at different paths and through a proxy.
SameRedirectURI ==
    \A t \in Tabs :
        (at[t] = "returning" /\ url[t] = Visited(asked[t]) /\ IsCallbackURL(Request(t)))
          => SameURI(t)

\* Where the options fit, whoever opens a page gets to see it.
VisitsAreServed ==
    \A t \in Tabs : (at[t] = "asking" /\ Fit(t)) ~> at[t] = "served"

=============================================================================
