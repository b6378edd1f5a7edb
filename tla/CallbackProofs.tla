---------------------------- MODULE CallbackProofs ----------------------------
(***************************************************************************)
(* Where logins end, for all hosts, paths, options and proxies, and any    *)
(* number of tabs: the two redirect URIs of a login agree, and a login     *)
(* ends in the page, in a refusal or in a loop as the options say.         *)
(*                                                                         *)
(* First what a URL becomes on its way through the browser, the proxy and  *)
(* the server; then two invariants, one for all options, and one for those *)
(* under which the server knows its own callback.                          *)
(***************************************************************************)

EXTENDS Callback, SequenceTheorems, TLAPS

\* The options and the site are what the assumptions say, for ever.
Configured ==
    /\ option \in [redirect_url : Refs, domain : STRING, path : Seq(STRING),
                   same_site : {"lax", "strict", "none"}, insecure : BOOLEAN]
    /\ option.redirect_url.host \in KnownHosts \union {""}
    /\ option.redirect_url.scheme # "" => option.redirect_url.host # ""
    /\ site \in Sites

-----------------------------------------------------------------------------
(* URLs *)

\* A host is not empty, nor is what browsers make of it; and they make it once.
LEMMA HostsAreKnown ==
    ASSUME NEW h \in KnownHosts
    PROVE  h # "" /\ Canonical(h) \in KnownHosts /\ Canonical(Canonical(h)) = Canonical(h)
<1>1. CASE h \in Hosts
  BY <1>1, CallbackAssumption DEF CallbackAssumption, KnownHosts
<1>2. CASE \E g \in Hosts : h = Canonical(g)
  BY <1>2, CallbackAssumption DEF CallbackAssumption, KnownHosts
<1> QED
  BY <1>1, <1>2 DEF KnownHosts

\* Sequences without their last elements.
LEMMA Fronts ==
    ASSUME NEW S, NEW s \in Seq(S), Len(s) \in Nat \ {0}
    PROVE  /\ Front(s) \in Seq(S) /\ Len(Front(s)) = Len(s) - 1
           /\ \A i \in 1 .. Len(s) - 1 : Front(s)[i] = s[i]
<1>1. 1 \in Int /\ Len(s) - 1 \in Int /\ \A i \in 1 .. Len(s) - 1 : s[i] \in S
  BY ElementOfSeq
<1>2. /\ Len(s) - 1 = IF 1 <= Len(s) - 1 THEN Len(s) - 1 - 1 + 1 ELSE 0
      /\ Len(s) - 1 - 1 + 1 = Len(s) - 1 /\ \A i \in 1 .. Len(s) - 1 : 1 + i - 1 = i
  <2>1. PICK n \in Nat \ {0} : n = Len(s)
    OBVIOUS
  <2>2. n - 1 - 1 + 1 = n - 1 /\ \A i \in 1 .. n - 1 : 1 + i - 1 = i
    OBVIOUS
  <2>3. n - 1 = IF 1 <= n - 1 THEN n - 1 - 1 + 1 ELSE 0
    <3>1. CASE n = 1
      BY <3>1
    <3>2. CASE n > 1
      BY <3>2
    <3> QED
      BY <3>1, <3>2
  <2> QED
    BY <2>1, <2>2, <2>3
<1>3. /\ SubSeq(s, 1, Len(s) - 1) \in Seq(S)
      /\ Len(SubSeq(s, 1, Len(s) - 1)) = Len(s) - 1
      /\ \A i \in 1 .. Len(s) - 1 - 1 + 1 : SubSeq(s, 1, Len(s) - 1)[i] = s[1 + i - 1]
  BY <1>1, <1>2, SubSeqProperties
<1> QED
  BY <1>2, <1>3 DEF Front

LEMMA JoinedSequences ==
    ASSUME NEW S, NEW p \in Seq(S), NEW q \in Seq(S), p # <<>>, q # <<>>
    PROVE  /\ Front(p) \o q \in Seq(S) \ {<<>>} /\ Len(Front(p) \o q) = Len(p) - 1 + Len(q)
           /\ Len(q) = 1 => Front(Front(p) \o q) = Front(p)
<1>1. Len(p) \in Nat \ {0} /\ Len(q) \in Nat \ {0}
  BY EmptySeq
<1>2. PICK f : f = Front(p)
  OBVIOUS
<1>3. f \in Seq(S) /\ Len(f) = Len(p) - 1
  BY <1>1, <1>2, Fronts
<1>4. PICK j : j = f \o q
  OBVIOUS
<1>5. /\ j \in Seq(S) /\ Len(j) = Len(p) - 1 + Len(q)
      /\ \A i \in 1 .. Len(j) : j[i] = IF i <= Len(f) THEN f[i] ELSE q[i - Len(f)]
  BY <1>1, <1>3, <1>4, ConcatProperties
<1>6. j # <<>>
  BY <1>1, <1>5
<1>7. ASSUME Len(q) = 1 PROVE Front(j) = f
  <2>1. Len(j) \in Nat \ {0} /\ Len(j) - 1 = Len(f)
    BY <1>1, <1>3, <1>5, <1>7
  <2>2. PICK g : g = Front(j)
    OBVIOUS
  <2>3. g \in Seq(S) /\ Len(g) = Len(f) /\ \A i \in 1 .. Len(f) : g[i] = j[i]
    BY <1>5, <2>1, <2>2, Fronts
  <2>4. ASSUME NEW i \in 1 .. Len(f) PROVE g[i] = f[i]
    <3>1. i \in 1 .. Len(j) /\ i <= Len(f)
      BY <1>1, <1>3, <1>5, <1>7
    <3> QED
      BY <1>5, <2>3, <3>1
  <2> QED
    BY <1>3, <2>2, <2>3, <2>4, SeqEqual
<1> QED
  BY <1>2, <1>4, <1>5, <1>6, <1>7

\* A path that is not rooted takes the place of the last segment.
LEMMA Joined ==
    ASSUME NEW p \in Paths, NEW q \in Paths
    PROVE  /\ Front(p) \o q \in Paths /\ Len(Front(p) \o q) = Len(p) - 1 + Len(q)
           /\ Len(q) = 1 => Front(Front(p) \o q) = Front(p)
BY JoinedSequences DEF Paths

\* What the browser asks for when it is sent to u.
LEMMA VisitedURL ==
    ASSUME Configured, NEW u \in URLs
    PROVE  /\ Visited(u) \in URLs /\ Visited(u).host = Canonical(u.host) /\ Visited(u).path = u.path
           /\ Visited(u).scheme = IF site.proxy = "offloading" THEN "https" ELSE u.scheme
           /\ Visited(Visited(u)) = Visited(u)
<1>1. PICK a \in Schemes, h \in KnownHosts, p \in Paths : u = [scheme |-> a, host |-> h, path |-> p]
  BY DEF URLs
<1>2. PICK s, c : /\ s = IF site.proxy = "offloading" THEN "https" ELSE a
                  /\ c = Canonical(h)
  OBVIOUS
<1>3. Visited(u) = [scheme |-> s, host |-> c, path |-> p]
  BY <1>1, <1>2 DEF Visited
<1>4. s \in Schemes /\ c \in KnownHosts /\ Canonical(c) = c
  BY <1>2, HostsAreKnown DEF Schemes
<1>5. Visited(Visited(u)) = Visited(u)
  BY <1>2, <1>3, <1>4 DEF Visited
<1> QED
  BY <1>1, <1>2, <1>3, <1>4, <1>5 DEF URLs

\* What the server makes of that: the scheme is lost behind an offloading proxy.
LEMMA SeenURL ==
    ASSUME Configured, NEW u \in URLs
    PROVE  /\ URL(Received(u)) \in URLs
           /\ URL(Received(u)) = [scheme |-> IF site.proxy = "offloading" THEN "http" ELSE u.scheme,
                                  host |-> u.host, path |-> u.path]
<1>1. u.host # "" /\ u.host \in KnownHosts /\ u.scheme \in {"http", "https"} /\ u.path \in Paths
  BY HostsAreKnown DEF URLs, Schemes
<1>2. site.proxy \in {"none", "forwarding", "offloading"}
  BY CallbackAssumption DEF Configured, CallbackAssumption
<1>3. URL(Received(u)) = [scheme |-> IF site.proxy = "offloading" THEN "http" ELSE u.scheme,
                          host |-> u.host, path |-> u.path]
  <2>1. CASE site.proxy = "none"
    BY <1>1, <2>1 DEF URL, Received
  <2>2. CASE site.proxy = "offloading"
    BY <1>1, <2>2 DEF URL, Received
  <2>3. CASE site.proxy = "forwarding"
    BY <1>1, <2>3 DEF URL, Received
  <2> QED
    BY <1>2, <2>1, <2>2, <2>3
<1>4. (IF site.proxy = "offloading" THEN "http" ELSE u.scheme) \in Schemes
  BY <1>1 DEF Schemes
<1>5. PICK a, h, p : /\ a = IF site.proxy = "offloading" THEN "http" ELSE u.scheme
                     /\ h = u.host /\ p = u.path
  OBVIOUS
<1>6. [scheme |-> a, host |-> h, path |-> p] \in URLs
  BY <1>1, <1>4, <1>5 DEF URLs
<1> QED
  BY <1>3, <1>5, <1>6

\* The redirect URI that the server makes of a request for u.
LEMMA RedirectURI ==
    ASSUME Configured, NEW u \in URLs
    PROVE  /\ GetAbsRedirectURI(Received(u)) \in URLs
           /\ LET ref == option.redirect_url
                  uri == GetAbsRedirectURI(Received(u))
              IN  IF IsAbs(ref) THEN uri = [scheme |-> ref.scheme, host |-> ref.host, path |-> ref.path]
                  ELSE /\ uri.scheme = IF site.proxy = "offloading" THEN "http" ELSE u.scheme
                       /\ uri.host = IF ref.host # "" THEN ref.host ELSE u.host
                       /\ uri.path = IF ref.rooted THEN ref.path ELSE Front(u.path) \o ref.path
<1>1. PICK ref : ref = option.redirect_url
  OBVIOUS
<1>2. /\ ref \in Refs /\ ref.host \in KnownHosts \union {""} /\ (ref.scheme # "" => ref.host # "")
  BY <1>1 DEF Configured
<1>3. /\ u.host \in KnownHosts /\ u.path \in Paths /\ u.scheme \in Schemes
  BY DEF URLs
<1>4. CASE IsAbs(ref)
  <2>1. ref.scheme # "" /\ ref.host # ""
    BY <1>2, <1>4 DEF IsAbs
  <2>3. ref.scheme \in Schemes /\ ref.host \in KnownHosts /\ ref.path \in Paths
    BY <1>2, <2>1 DEF Refs
  <2>2. GetAbsRedirectURI(Received(u))
          = [scheme |-> ref.scheme, host |-> ref.host, path |-> ref.path]
    BY <1>1, <1>4 DEF GetAbsRedirectURI
  <2> QED
    BY <1>1, <1>4, <2>2, <2>3 DEF URLs
<1>5. CASE ~IsAbs(ref)
  <2>1. GetAbsRedirectURI(Received(u)) = Resolve(URL(Received(u)), ref)
    BY <1>1, <1>5 DEF GetAbsRedirectURI
  <2>2. URL(Received(u)) = [scheme |-> IF site.proxy = "offloading" THEN "http" ELSE u.scheme,
                            host |-> u.host, path |-> u.path]
    BY SeenURL
  <2>3. Resolve(URL(Received(u)), ref)
          = [scheme |-> IF site.proxy = "offloading" THEN "http" ELSE u.scheme,
             host |-> IF ref.host # "" THEN ref.host ELSE u.host,
             path |-> IF ref.rooted THEN ref.path ELSE Front(u.path) \o ref.path]
    BY <2>2 DEF Resolve
  <2>5. (IF site.proxy = "offloading" THEN "http" ELSE u.scheme) \in Schemes
    BY <1>3 DEF Schemes
  <2>4. ref.path \in Paths
    BY <1>2 DEF Refs
  <2>6. Front(u.path) \o ref.path \in Paths
    BY <1>3, <2>4, Joined
  <2>7. PICK a, h, p : /\ a = IF site.proxy = "offloading" THEN "http" ELSE u.scheme
                       /\ h = IF ref.host # "" THEN ref.host ELSE u.host
                       /\ p = IF ref.rooted THEN ref.path ELSE Front(u.path) \o ref.path
    OBVIOUS
  <2>8. a \in Schemes /\ h \in KnownHosts /\ p \in Paths
    BY <1>2, <1>3, <2>4, <2>5, <2>6, <2>7
  <2>9. [scheme |-> a, host |-> h, path |-> p] \in URLs
    BY <2>8 DEF URLs
  <2>10. GetAbsRedirectURI(Received(u)) = [scheme |-> a, host |-> h, path |-> p]
    BY <2>1, <2>3, <2>7
  <2>11. /\ GetAbsRedirectURI(Received(u)) \in URLs
         /\ GetAbsRedirectURI(Received(u)).scheme = a
         /\ GetAbsRedirectURI(Received(u)).host = h
         /\ GetAbsRedirectURI(Received(u)).path = p
    BY <2>9, <2>10
  <2> QED
    BY <1>1, <1>5, <2>7, <2>11
<1> QED
  BY <1>4, <1>5

\* The page of a tab, as the browser asks for it.
LEMMA PageURL ==
    ASSUME Configured, NEW t \in Tabs
    PROVE  Page(t) \in URLs /\ Visited(Page(t)) \in URLs /\ Visited(Visited(Page(t))) = Visited(Page(t))
<1>1. /\ Starts[t].host \in KnownHosts /\ Starts[t].path \in Paths /\ site.scheme \in Schemes
  BY CallbackAssumption DEF CallbackAssumption, Configured, KnownHosts, Hosts
<1>2. Page(t) \in URLs
  BY <1>1 DEF Page, URLs
<1> QED
  BY <1>2, VisitedURL

-----------------------------------------------------------------------------
(* The invariant for all options *)

\* A URL as the browser asks for one: Visited leaves it alone.
AsVisited(u) ==
    u.host = Canonical(u.host) /\ (site.proxy = "offloading" => u.scheme = "https")

\* A redirect URI of a request for such a URL, but for its path.
RedirectTo(u) ==
    LET ref == option.redirect_url
    IN  IF IsAbs(ref) THEN u = [scheme |-> ref.scheme, host |-> ref.host, path |-> ref.path]
        ELSE /\ IF ref.host # "" THEN u.host = ref.host ELSE u.host = Canonical(u.host)
             /\ site.proxy = "offloading" => u.scheme = "http"

Typed ==
    /\ at \in [Tabs -> Places]
    /\ url \in [Tabs -> URLs]
    /\ logins \in [Tabs -> 0 .. MaxLogins]
    /\ asked \in [Tabs -> URLs \union {NoURL}]

\* A tab on its way asks for URLs that the browser has made its own, and once it
\* has been at the provider, the redirect URI it took there is one of the server's.
OnItsWay(t) ==
    /\ at[t] # "idle" => AsVisited(url[t])
    /\ (asked[t] = NoURL) = (logins[t] = 0)
    /\ at[t] \in {"provider", "returning"} => asked[t] # NoURL /\ RedirectTo(asked[t])

\* A cookie is that of a session or that of a login which a tab has started.
SessionKind(c) == c = [host |-> c.host, name |-> <<>>, flow |-> <<>>, return |-> NoURL]

LoginKind(c) ==
    \E t \in Tabs : \E n \in 1 .. logins[t] :
      c.name = CsrfName(t, n) /\ c.flow = <<t, n>> /\ c.return \in URLs

Baked(c) ==
    /\ (c.host = "" <=> option.domain # "") /\ c.host = Canonical(c.host)
    /\ SessionKind(c) \/ LoginKind(c)

OneEach == \A c, d \in jar : (c.name = d.name /\ c.host = d.host) => c = d

Jar == (\A c \in jar : Baked(c)) /\ OneEach

IInv == Configured /\ Typed /\ (\A t \in Tabs : OnItsWay(t)) /\ Jar

\* The cookies of logins have names of their own, which no session cookie has.
LEMMA Names ==
    \A t, s \in Tabs, m, n \in Nat :
      CsrfName(t, m) # <<>> /\ (CsrfName(t, m) = CsrfName(s, n) => t = s /\ m = n)
BY DEF CsrfName

LEMMA NoSuchURL == NoURL \notin URLs /\ NoURL \notin Refs
BY CallbackAssumption DEF CallbackAssumption

LEMMA LoginsCount == MaxLogins \in Nat \ {0}
BY CallbackAssumption DEF CallbackAssumption

LEMMA TwoSegments ==
    ASSUME NEW S, NEW a \in S, NEW b \in S
    PROVE  <<a, b>> \in Seq(S) \ {<<>>}
OBVIOUS

\* The invariant holds whatever the options.
LEMMA InitInv == Init => IInv
<1> SUFFICES ASSUME Init PROVE IInv
  OBVIOUS
<1>1. Configured
  <2>1. PICK o \in Options : option = Provisioned(o)
    BY DEF Init
  <2>2. /\ o \in [redirect_url : Refs \union {NoURL}, domain : STRING, path : Seq(STRING),
                  same_site : {"lax", "strict", "none"}, insecure : BOOLEAN]
        /\ (o.redirect_url # NoURL /\ o.redirect_url.scheme # "") => o.redirect_url.host # ""
    BY CallbackAssumption DEF CallbackAssumption
  <2>3. PICK ref : ref = IF o.redirect_url = NoURL
                         THEN [scheme |-> "", host |-> "", rooted |-> TRUE,
                               path |-> <<"oauth2", "callback">>]
                         ELSE o.redirect_url
    OBVIOUS
  <2>4. /\ ref \in Refs /\ ref.host \in KnownHosts \union {""}
        /\ ref.scheme # "" => ref.host # ""
    <3>1. CASE o.redirect_url = NoURL
      <4>1. PICK p \in Paths : p = <<"oauth2", "callback">>
        <5>1. "oauth2" \in STRING /\ "callback" \in STRING
          BY CallbackAssumption DEF CallbackAssumption
        <5> QED
          BY <5>1, TwoSegments DEF Paths
      <4>2. ref = [scheme |-> "", host |-> "", rooted |-> TRUE, path |-> p]
        BY <2>3, <3>1, <4>1
      <4>3. ref \in Refs
        <5>1. PICK e \in STRING : e = ""
          BY CallbackAssumption DEF CallbackAssumption
        <5>2. ref = [scheme |-> "", host |-> e, rooted |-> TRUE, path |-> p]
          BY <4>2, <5>1
        <5> QED
          BY <5>2 DEF Refs
      <4> QED
        BY <4>2, <4>3
    <3>2. CASE o.redirect_url # NoURL
      <4>1. o.redirect_url.host \in Hosts
        BY <3>2 DEF Hosts
      <4> QED
        BY <2>2, <2>3, <3>2, <4>1 DEF KnownHosts
    <3> QED
      BY <3>1, <3>2
  <2>5. option = [o EXCEPT !.redirect_url = ref]
    BY <2>1, <2>3 DEF Provisioned
  <2> QED
    BY <2>2, <2>4, <2>5 DEF Configured, Init
<1>2. \A t \in Tabs : Page(t) \in URLs
  BY <1>1, PageURL
<1>3. Typed
  <2>1. at \in [Tabs -> Places] /\ asked \in [Tabs -> URLs \union {NoURL}]
    BY DEF Init, Places
  <2>2. url \in [Tabs -> URLs]
    BY <1>2 DEF Init
  <2>3. logins \in [Tabs -> 0 .. MaxLogins]
    <3>1. 0 \in 0 .. MaxLogins
      <4>1. MaxLogins \in Nat
        BY CallbackAssumption DEF CallbackAssumption
      <4> QED
        BY <4>1
    <3> QED
      BY <3>1 DEF Init
  <2> QED
    BY <2>1, <2>2, <2>3 DEF Typed
<1>4. ASSUME NEW t \in Tabs PROVE OnItsWay(t)
  BY DEF Init, OnItsWay
<1>5. Jar
  BY DEF Init, Jar, OneEach
<1> QED
  BY <1>1, <1>3, <1>4, <1>5 DEF IInv

\* What an action leaves of the jar, and what it adds to it.
LEMMA BakedStays ==
    ASSUME option' = option, NEW c, Baked(c),
           \A t \in Tabs : 1 .. logins[t] \subseteq 1 .. logins'[t]
    PROVE  Baked(c)'
<1>1. LoginKind(c) => LoginKind(c)'
  BY DEF LoginKind
<1> QED
  BY <1>1 DEF Baked, SessionKind

LEMMA JarShrinks ==
    ASSUME IInv, option' = option, jar' \subseteq jar,
           \A t \in Tabs : 1 .. logins[t] \subseteq 1 .. logins'[t]
    PROVE  Jar'
<1>1. \A c \in jar' : Baked(c)'
  BY BakedStays DEF IInv, Jar
<1> QED
  BY <1>1 DEF IInv, Jar, OneEach

LEMMA JarTakes ==
    ASSUME IInv, option' = option, NEW u, NEW c, jar' \subseteq Stored(u, c), Baked(c)',
           \A t \in Tabs : 1 .. logins[t] \subseteq 1 .. logins'[t]
    PROVE  Jar'
<1>1. CASE Accepted(u)
  <2>1. jar' \subseteq {d \in jar : d.name # c.name \/ d.host # c.host} \union {c}
    BY <1>1 DEF Stored
  <2>2. \A d \in jar' : Baked(d)'
    BY <2>1, BakedStays DEF IInv, Jar
  <2>3. ASSUME NEW d \in jar', NEW e \in jar', d.name = e.name, d.host = e.host PROVE d = e
    BY <2>1, <2>3 DEF IInv, Jar, OneEach
  <2> QED
    BY <2>2, <2>3 DEF Jar, OneEach
<1>2. CASE ~Accepted(u)
  BY <1>2, JarShrinks DEF Stored
<1> QED
  BY <1>1, <1>2

\* The host of a cookie that is made for a URL of the browser.
CookieHost(u) == IF option.domain = "" THEN u.host ELSE ""

LEMMA CookieHosts ==
    ASSUME NEW u \in URLs, AsVisited(u)
    PROVE  /\ (CookieHost(u) = "" <=> option.domain # "")
           /\ CookieHost(u) = Canonical(CookieHost(u))
<1>1. u.host # "" /\ u.host = Canonical(u.host) /\ Canonical("") = ""
  BY HostsAreKnown, CallbackAssumption DEF URLs, AsVisited, CallbackAssumption
<1> QED
  BY <1>1 DEF CookieHost

LEMMA NewCookies ==
    ASSUME NEW u, NEW name, NEW flow, NEW return
    PROVE  NewCookie(u, name, flow, return)
             = [host |-> CookieHost(u), name |-> name, flow |-> flow, return |-> return]
BY DEF NewCookie, CookieHost

\* Redirect URIs of URLs that the browser has made its own; and what it makes of
\* any URL is its own.
LEMMA Redirected ==
    ASSUME Configured, NEW u \in URLs, AsVisited(u)
    PROVE  RedirectTo(GetAbsRedirectURI(Received(u))) /\ GetAbsRedirectURI(Received(u)) \in URLs
BY RedirectURI DEF RedirectTo, AsVisited

LEMMA OnceVisited ==
    ASSUME Configured, NEW u \in URLs
    PROVE  Visited(u) \in URLs /\ AsVisited(Visited(u))
<1>1. Canonical(Canonical(u.host)) = Canonical(u.host)
  BY HostsAreKnown DEF URLs
<1> QED
  BY <1>1, VisitedURL DEF AsVisited

LEMMA VisitStep ==
    ASSUME IInv, NEW t \in Tabs, Visit(t) PROVE IInv'
<1>1. Page(t) \in URLs /\ Visited(Page(t)) \in URLs /\ AsVisited(Visited(Page(t)))
  BY PageURL, OnceVisited DEF IInv
<1>2. Configured'
  BY DEF IInv, Configured, Visit
<1>3. Typed'
  BY <1>1 DEF IInv, Typed, Visit, Places
<1>4. ASSUME NEW s \in Tabs PROVE OnItsWay(s)'
  <2>1. PICK v : v = Visited(Page(t))
    OBVIOUS
  <2> QED
    BY <1>1, <2>1 DEF IInv, Typed, OnItsWay, AsVisited, RedirectTo, Visit, IsAbs
<1>5. Jar'
  BY JarShrinks DEF Visit
<1> QED
  BY <1>2, <1>3, <1>4, <1>5 DEF IInv

LEMMA AuthorizeStep ==
    ASSUME IInv, NEW t \in Tabs, Authorize(t) PROVE IInv'
<1>1. asked[t] \in URLs /\ RedirectTo(asked[t])
  BY DEF IInv, Typed, OnItsWay, Authorize
<1>2. Visited(asked[t]) \in URLs /\ AsVisited(Visited(asked[t]))
  BY <1>1, OnceVisited DEF IInv
<1>3. Configured'
  BY DEF IInv, Configured, Authorize
<1>4. Typed'
  BY <1>2 DEF IInv, Typed, Authorize, Places
<1>5. ASSUME NEW s \in Tabs PROVE OnItsWay(s)'
  <2>1. PICK v : v = Visited(asked[t])
    OBVIOUS
  <2> QED
    BY <1>1, <1>2, <2>1 DEF IInv, Typed, OnItsWay, AsVisited, RedirectTo, Authorize, IsAbs
<1>6. Jar'
  BY JarShrinks DEF Authorize
<1> QED
  BY <1>3, <1>4, <1>5, <1>6 DEF IInv

LEMMA GiveUpStep ==
    ASSUME IInv, NEW t \in Tabs, GiveUp(t) PROVE IInv'
<1>1. Configured' /\ Typed'
  BY DEF IInv, Configured, Typed, GiveUp, Places
<1>2. ASSUME NEW s \in Tabs PROVE OnItsWay(s)'
  BY DEF IInv, Typed, OnItsWay, AsVisited, RedirectTo, GiveUp, IsAbs, Asking
<1>3. Jar'
  BY JarShrinks DEF GiveUp
<1> QED
  BY <1>1, <1>2, <1>3 DEF IInv

LEMMA ServePageStep ==
    ASSUME IInv, NEW t \in Tabs, ServePage(t) PROVE IInv'
<1>1. Configured' /\ Typed'
  BY DEF IInv, Configured, Typed, ServePage, Places
<1>2. ASSUME NEW s \in Tabs PROVE OnItsWay(s)'
  BY DEF IInv, Typed, OnItsWay, AsVisited, RedirectTo, ServePage, IsAbs, Asking
<1>3. Jar'
  BY JarShrinks DEF ServePage
<1> QED
  BY <1>1, <1>2, <1>3 DEF IInv

\* One more login of tab t, which gets a number of its own.
LEMMA OneMoreLogin ==
    ASSUME IInv, NEW t \in Tabs, StartLogin(t)
    PROVE  /\ logins[t] \in Nat /\ logins'[t] = logins[t] + 1 /\ logins'[t] \in 1 .. logins'[t]
           /\ logins' \in [Tabs -> 0 .. MaxLogins]
           /\ \A s \in Tabs \ {t} : logins'[s] = logins[s]
           /\ \A s \in Tabs : 1 .. logins[s] \subseteq 1 .. logins'[s]
<1>1. MaxLogins \in Nat /\ logins \in [Tabs -> 0 .. MaxLogins] /\ logins[t] < MaxLogins
  BY CallbackAssumption DEF CallbackAssumption, IInv, Typed, StartLogin
<1>2. logins' = [logins EXCEPT ![t] = logins[t] + 1]
  BY DEF StartLogin
<1> QED
  BY <1>1, <1>2

LEMMA StartLoginStep ==
    ASSUME IInv, NEW t \in Tabs, StartLogin(t) PROVE IInv'
<1>1. url[t] \in URLs /\ AsVisited(url[t]) /\ Request(t) = Received(url[t])
  BY DEF IInv, Typed, OnItsWay, StartLogin, Asking, Request
<1>2. PICK n, uri, return : /\ n = logins'[t] /\ uri = GetAbsRedirectURI(Request(t))
                            /\ return = URL(Request(t))
  OBVIOUS
<1>3. uri \in URLs /\ RedirectTo(uri) /\ return \in URLs
  BY <1>1, <1>2, Redirected, SeenURL DEF IInv
<1>4. PICK c : c = NewCookie(url[t], CsrfName(t, n), <<t, n>>, return)
  OBVIOUS
<1>5. /\ jar' = Stored(url[t], c) /\ asked' = [asked EXCEPT ![t] = uri]
      /\ at' = [at EXCEPT ![t] = "provider"]
      /\ option' = option /\ site' = site /\ url' = url
  BY <1>2, <1>4 DEF StartLogin
<1>6. Configured'
  BY <1>5 DEF IInv, Configured
<1>7. Typed'
  BY <1>3, <1>5, OneMoreLogin DEF IInv, Typed, Places
<1>8. ASSUME NEW s \in Tabs PROVE OnItsWay(s)'
  <2>1. CASE s # t
    <3>1. /\ logins'[s] = logins[s] /\ at'[s] = at[s] /\ url'[s] = url[s] /\ asked'[s] = asked[s]
      BY <1>5, <2>1, OneMoreLogin DEF IInv, Typed
    <3> QED
      BY <1>5, <3>1 DEF IInv, OnItsWay, AsVisited, RedirectTo, IsAbs
  <2>2. CASE s = t
    <3>1. logins'[t] # 0 /\ uri # NoURL
      BY <1>3, OneMoreLogin, NoSuchURL
    <3>2. at'[t] = "provider" /\ asked'[t] = uri /\ url'[t] = url[t]
      BY <1>5 DEF IInv, Typed
    <3> QED
      BY <1>1, <1>3, <1>5, <2>2, <3>1, <3>2 DEF OnItsWay, AsVisited, RedirectTo, IsAbs
  <2> QED
    BY <2>1, <2>2
<1>9. Baked(c)'
  <2>1. /\ (c.host = "" <=> option.domain # "") /\ c.host = Canonical(c.host)
        /\ c.name = CsrfName(t, n) /\ c.flow = <<t, n>> /\ c.return = return
    <3>1. PICK h : h = CookieHost(url[t])
      OBVIOUS
    <3>2. c = [host |-> h, name |-> CsrfName(t, n), flow |-> <<t, n>>, return |-> return]
      BY <1>4, <3>1, NewCookies
    <3>3. (h = "" <=> option.domain # "") /\ h = Canonical(h)
      BY <1>1, <3>1, CookieHosts
    <3> QED
      BY <3>2, <3>3
  <2>2. LoginKind(c)'
    BY <1>2, <1>3, <2>1, OneMoreLogin DEF LoginKind
  <2> QED
    BY <1>5, <2>1, <2>2 DEF Baked
<1>10. Jar'
  BY <1>5, <1>9, JarTakes, OneMoreLogin
<1> QED
  BY <1>6, <1>7, <1>8, <1>10 DEF IInv

\* The cookie of a login that is under way has the page to return to.
LEMMA CsrfCookie ==
    ASSUME IInv, NEW t \in Tabs, NEW c \in CsrfCookies(t)
    PROVE  /\ c \in jar /\ c.return \in URLs /\ c.name = CsrfName(t, logins[t])
           /\ logins[t] \in Nat \ {0} /\ c.flow = <<t, logins[t]>>
<1>1. c \in jar /\ c.name = CsrfName(t, logins[t]) /\ logins[t] \in Nat
  BY LoginsCount DEF CsrfCookies, Cookies, IInv, Typed
<1>2. ~SessionKind(c)
  BY <1>1, Names DEF SessionKind
<1>3. PICK s \in Tabs : \E n \in 1 .. logins[s] :
        c.name = CsrfName(s, n) /\ c.flow = <<s, n>> /\ c.return \in URLs
  BY <1>1, <1>2 DEF IInv, Jar, Baked, LoginKind
<1>5. PICK n \in 1 .. logins[s] :
        c.name = CsrfName(s, n) /\ c.flow = <<s, n>> /\ c.return \in URLs
  BY <1>3
<1>4. n \in Nat \ {0}
  <2>1. logins[s] \in Nat
    BY LoginsCount DEF IInv, Typed
  <2> QED
    BY <2>1
<1>6. s = t /\ n = logins[t]
  <2>1. PICK m : m = logins[t]
    OBVIOUS
  <2>2. m \in Nat /\ n \in Nat /\ CsrfName(t, m) = CsrfName(s, n)
    BY <1>1, <1>4, <1>5, <2>1
  <2> QED
    BY <2>1, <2>2, Names
<1> QED
  BY <1>1, <1>4, <1>5, <1>6

LEMMA HandleCallbackStep ==
    ASSUME IInv, NEW t \in Tabs, HandleCallback(t) PROVE IInv'
<1>1. PICK c \in CsrfCookies(t) :
        /\ SameURI(t)
        /\ jar' = Stored(url[t], SessionCookie(url[t])) \ (IF Accepted(url[t]) THEN {c} ELSE {})
        /\ url' = [url EXCEPT ![t] = Visited(c.return)]
  BY DEF HandleCallback, Exchanges
<1>2. /\ at' = [at EXCEPT ![t] = "returning"]
      /\ option' = option /\ site' = site /\ logins' = logins /\ asked' = asked
  BY DEF HandleCallback
<1>3. url[t] \in URLs /\ AsVisited(url[t]) /\ Request(t) = Received(url[t])
  BY DEF IInv, Typed, OnItsWay, HandleCallback, Asking, Request
<1>4. PICK v : v = Visited(c.return)
  OBVIOUS
<1>5. v \in URLs /\ AsVisited(v)
  BY <1>4, CsrfCookie, OnceVisited DEF IInv
<1>6. asked[t] \in URLs /\ RedirectTo(asked[t]) /\ asked[t] # NoURL
  BY <1>1, <1>3, Redirected, CallbackAssumption DEF SameURI, IInv, CallbackAssumption
<1>7. Configured'
  BY <1>2 DEF IInv, Configured
<1>8. Typed'
  BY <1>1, <1>2, <1>4, <1>5 DEF IInv, Typed, Places
<1>9. ASSUME NEW s \in Tabs PROVE OnItsWay(s)'
  <2>1. CASE s # t
    BY <1>1, <1>2, <2>1 DEF IInv, Typed, OnItsWay, AsVisited, RedirectTo, IsAbs
  <2>2. CASE s = t
    <3>1. at'[t] = "returning" /\ url'[t] = v
      BY <1>1, <1>2, <1>4 DEF IInv, Typed
    <3>2. (asked[t] = NoURL) = (logins[t] = 0)
      BY DEF IInv, OnItsWay
    <3> QED
      BY <1>2, <1>5, <1>6, <2>2, <3>1, <3>2 DEF OnItsWay, AsVisited, RedirectTo, IsAbs
  <2> QED
    BY <2>1, <2>2
<1>12. PICK w, d : w = url[t] /\ d = SessionCookie(w)
  OBVIOUS
<1>10. Baked(d)'
  <2>1. d = NewCookie(url[t], <<>>, <<>>, NoURL)
    BY <1>12 DEF SessionCookie
  <2>2. /\ (d.host = "" <=> option.domain # "") /\ d.host = Canonical(d.host)
        /\ d = [host |-> d.host, name |-> <<>>, flow |-> <<>>, return |-> NoURL]
    <3>1. PICK h : h = CookieHost(url[t])
      OBVIOUS
    <3>2. d = [host |-> h, name |-> <<>>, flow |-> <<>>, return |-> NoURL]
      BY <2>1, <3>1, NewCookies
    <3>3. (h = "" <=> option.domain # "") /\ h = Canonical(h)
      BY <1>3, <3>1, CookieHosts
    <3> QED
      BY <3>2, <3>3
  <2>3. Baked(d)
    <3>1. SessionKind(d)
      BY <2>2 DEF SessionKind
    <3> QED
      BY <2>2, <3>1 DEF Baked
  <2>4. \A s \in Tabs : 1 .. logins[s] \subseteq 1 .. logins'[s]
    BY <1>2
  <2> QED
    BY <1>2, <2>3, <2>4, BakedStays
<1>11. Jar'
  <2>1. jar' \subseteq Stored(w, d)
    BY <1>1, <1>12
  <2>2. \A s \in Tabs : 1 .. logins[s] \subseteq 1 .. logins'[s]
    BY <1>2
  <2> QED
    BY <1>2, <1>10, <2>1, <2>2, JarTakes
<1> QED
  BY <1>7, <1>8, <1>9, <1>11 DEF IInv

LEMMA CallbackFailsStep ==
    ASSUME IInv, NEW t \in Tabs, CallbackFails(t) PROVE IInv'
<1>1. Configured' /\ Typed'
  BY DEF IInv, Configured, Typed, CallbackFails, Places
<1>2. ASSUME NEW s \in Tabs PROVE OnItsWay(s)'
  BY DEF IInv, Typed, OnItsWay, AsVisited, RedirectTo, CallbackFails, IsAbs, Asking
<1>3. Jar'
  BY JarShrinks DEF CallbackFails
<1> QED
  BY <1>1, <1>2, <1>3 DEF IInv

LEMMA StutterStep ==
    ASSUME IInv, UNCHANGED vars PROVE IInv'
<1>1. Configured' /\ Typed'
  BY DEF IInv, Configured, Typed, vars
<1>2. ASSUME NEW s \in Tabs PROVE OnItsWay(s)'
  BY DEF IInv, Typed, OnItsWay, AsVisited, RedirectTo, vars, IsAbs
<1>3. Jar'
  BY JarShrinks DEF vars
<1> QED
  BY <1>1, <1>2, <1>3 DEF IInv

\* The invariant is inductive, for all options, sites, pages and tabs.
THEOREM Invariance == Spec => []IInv
<1>1. IInv /\ [Next]_vars => IInv'
  BY VisitStep, AuthorizeStep, GiveUpStep, ServePageStep, StartLoginStep, HandleCallbackStep,
     CallbackFailsStep, StutterStep DEF Next, Server
<1> QED
  BY InitInv, <1>1, PTL DEF Spec

-----------------------------------------------------------------------------
(* What it means, for all options *)

\* Whatever is configured, each cookie is in the browser's jar once, and belongs
\* to a session or to the login of its name.
THEOREM TypeCorrect == Spec => []TypeOK
<1>1. IInv => TypeOK
  <2> SUFFICES ASSUME IInv PROVE TypeOK
    OBVIOUS
  <2>1. site \in Sites /\ option.redirect_url # NoURL
    <3>1. option.redirect_url \in Refs
      BY DEF IInv, Configured
    <3> QED
      BY <3>1, NoSuchURL DEF IInv, Configured
  <2>2. at \in [Tabs -> Places] /\ logins \in [Tabs -> 0 .. MaxLogins]
    BY DEF IInv, Typed
  <2>3. ASSUME NEW t \in Tabs
        PROVE  /\ url[t].scheme \in Schemes /\ url[t].path # <<>>
               /\ at[t] # "idle" => url[t].host = Canonical(url[t].host)
               /\ (asked[t] = NoURL) = (logins[t] = 0)
               /\ at[t] = "provider" => asked[t] # NoURL
    <3>1. url[t] \in URLs
      BY DEF IInv, Typed
    <3>2. url[t].scheme \in Schemes /\ url[t].path # <<>>
      BY <3>1 DEF URLs, Paths
    <3> QED
      BY <3>2 DEF IInv, OnItsWay, AsVisited
  <2>4. ASSUME NEW c \in jar
        PROVE  c.host \in {"", Canonical(c.host)} /\ (c.name = <<>>) = (c.return = NoURL)
    <3>1. Baked(c)
      BY DEF IInv, Jar
    <3>2. CASE SessionKind(c)
      <4>1. c.name = <<>> /\ c.return = NoURL
        BY <3>2 DEF SessionKind
      <4> QED
        BY <3>1, <4>1 DEF Baked
    <3>3. CASE LoginKind(c)
      <4>1. PICK s \in Tabs : \E n \in 1 .. logins[s] :
              c.name = CsrfName(s, n) /\ c.return \in URLs
        BY <3>3 DEF LoginKind
      <4>2. logins[s] \in Nat
        BY LoginsCount DEF IInv, Typed
      <4>3. c.name # <<>> /\ c.return # NoURL
        BY <4>1, <4>2, Names, NoSuchURL
      <4> QED
        BY <3>1, <4>3 DEF Baked
    <3> QED
      BY <3>1, <3>2, <3>3 DEF Baked
  <2> QED
    BY <2>1, <2>2, <2>3, <2>4 DEF TypeOK, IInv, Jar, OneEach
<1> QED
  BY <1>1, Invariance, PTL

\* A request for a redirect URI that the server takes for a callback has that very
\* redirect URI again, though its path and its scheme may have changed on the way.
LEMMA SameAgain ==
    ASSUME Configured, NEW a \in URLs, RedirectTo(a), IsCallbackURL(Received(Visited(a)))
    PROVE  GetAbsRedirectURI(Received(Visited(a))) = a
<1>1. PICK v \in URLs : v = Visited(a)
  BY VisitedURL
<1>2. PICK g \in URLs : g = GetAbsRedirectURI(Received(v))
  BY RedirectURI
<1>3. PICK ref : ref = option.redirect_url
  OBVIOUS
<1>4. CASE IsAbs(ref)
  BY <1>1, <1>2, <1>3, <1>4, RedirectURI DEF RedirectTo
<1>5. CASE ~IsAbs(ref)
  <2>1. /\ g.scheme = IF site.proxy = "offloading" THEN "http" ELSE v.scheme
        /\ g.host = IF ref.host # "" THEN ref.host ELSE v.host
    BY <1>2, <1>3, <1>5, RedirectURI
  <2>2. /\ v.scheme = IF site.proxy = "offloading" THEN "https" ELSE a.scheme
        /\ v.host = Canonical(a.host) /\ v.path = a.path
    BY <1>1, VisitedURL
  <2>3. g.path = v.path
    <3>1. g = URL(Received(v))
      BY <1>1, <1>2 DEF IsCallbackURL
    <3> QED
      BY <3>1, SeenURL
  <2>4. /\ IF ref.host # "" THEN a.host = ref.host ELSE a.host = Canonical(a.host)
        /\ site.proxy = "offloading" => a.scheme = "http"
    BY <1>3, <1>5 DEF RedirectTo
  <2>5. g.scheme = a.scheme /\ g.host = a.host /\ g.path = a.path
    BY <2>1, <2>2, <2>3, <2>4
  <2>6. g = a
    BY <2>5 DEF URLs
  <2> QED
    BY <1>1, <1>2, <2>6
<1> QED
  BY <1>4, <1>5

\* The exchange names the redirect URI of the authorization request, for every
\* redirect_url, page and proxy: the provider has no reason to refuse.
THEOREM SameURIs == Spec => []SameRedirectURI
<1>1. IInv => SameRedirectURI
  <2> SUFFICES ASSUME IInv, NEW t \in Tabs, at[t] = "returning", url[t] = Visited(asked[t]),
                      IsCallbackURL(Request(t))
               PROVE  SameURI(t)
    BY DEF SameRedirectURI
  <2>1. PICK a \in URLs : a = asked[t] /\ RedirectTo(a)
    BY DEF IInv, Typed, OnItsWay
  <2>2. Request(t) = Received(Visited(a))
    BY <2>1 DEF Request
  <2> QED
    BY <2>1, <2>2, SameAgain DEF IInv, SameURI
<1> QED
  BY <1>1, Invariance, PTL

-----------------------------------------------------------------------------
(* The invariant of a server that knows its callback, and of one that does not *)

PageOf(t) == Visited(Page(t))

\* No page is where the callbacks go: nobody opens one of those to read it.
PagesApart == \A t \in Tabs : ~IsCallbackURL(Received(PageOf(t)))

\* The redirect URI of a login on the page of t, and the cookie of its n-th login.
RedirectOf(t) == GetAbsRedirectURI(Received(PageOf(t)))

LoginCookie(t, n) ==
    NewCookie(PageOf(t), CsrfName(t, n), <<t, n>>, URL(Received(PageOf(t))))

SessionOf(t) == SessionCookie(CallbackOf(t))

Taken(t)   == Accepted(PageOf(t))
InReach(t) == InScope(PageOf(t))

\* The cookie of the n-th login is in the jar, if the browser has taken it, and no
\* other of its name.
Held(t, n) ==
    {c \in jar : c.name = CsrfName(t, n)} = IF Taken(t) THEN {LoginCookie(t, n)} ELSE {}

Pending(t)  == asked[t] = RedirectOf(t) /\ \E n \in Nat : n = logins[t] /\ Held(t, n)

LoggedIn(t) == LoginReturns(t) /\ SessionOf(t) \in jar

\* How far a tab has come with a server that knows its callback.
Progress(t) ==
    /\ at[t] \in {"idle", "asking"} => logins[t] = 0
    /\ at[t] = "asking" => url[t] = PageOf(t)
    /\ at[t] = "provider" => Pending(t)
    /\ at[t] = "returning" =>
         (url[t] = CallbackOf(t) /\ Pending(t)) \/ (url[t] = PageOf(t) /\ LoggedIn(t))
    /\ at[t] = "served" => url[t] = PageOf(t) /\ InReach(t)
    /\ at[t] = "failed" => ~LoginReturns(t)
    /\ at[t] = "looping" => LoginReturns(t) /\ ~InReach(t)

\* A server that does not know its callback gives no session to anybody.
NoSessions(t) ==
    at[t] \notin {"served", "failed"} /\ \A c \in jar : c.name # <<>>

Ends == \A t \in Tabs : IF Recognised(t) THEN Progress(t) ELSE NoSessions(t)

\* Pages are where the browser can go, and where it gets back to.
LEMMA Pages ==
    ASSUME Configured, NEW t \in Tabs
    PROVE  /\ PageOf(t) \in URLs /\ AsVisited(PageOf(t))
           /\ Visited(URL(Received(PageOf(t)))) = PageOf(t)
<1>1. PICK p \in URLs : p = PageOf(t) /\ AsVisited(p)
  BY PageURL, OnceVisited DEF PageOf
<1>2. PICK v \in URLs : v = URL(Received(p))
  BY SeenURL
<1>3. /\ v.scheme = IF site.proxy = "offloading" THEN "http" ELSE p.scheme
      /\ v.host = p.host /\ v.path = p.path
  BY <1>2, SeenURL
<1>4. /\ Visited(v) \in URLs
      /\ Visited(v).scheme = IF site.proxy = "offloading" THEN "https" ELSE v.scheme
      /\ Visited(v).host = Canonical(v.host) /\ Visited(v).path = v.path
  BY VisitedURL
<1>5. Visited(v).scheme = p.scheme /\ Visited(v).host = p.host /\ Visited(v).path = p.path
  BY <1>1, <1>3, <1>4 DEF AsVisited
<1>6. Visited(v) = p
  BY <1>4, <1>5 DEF URLs
<1> QED
  BY <1>1, <1>2, <1>6

\* What a browser makes of the redirect URI is the callback as it knows it.
LEMMA Callbacks ==
    ASSUME Configured, NEW t \in Tabs
    PROVE  /\ RedirectOf(t) \in URLs /\ RedirectTo(RedirectOf(t))
           /\ CallbackOf(t) = Visited(RedirectOf(t))
           /\ CallbackOf(t) \in URLs /\ AsVisited(CallbackOf(t))
<1>1. PICK p \in URLs : p = PageOf(t) /\ AsVisited(p)
  BY Pages
<1>2. PICK uri \in URLs : uri = RedirectOf(t) /\ RedirectTo(uri)
  BY <1>1, Redirected DEF RedirectOf
<1>3. PICK ref : ref = option.redirect_url
  OBVIOUS
<1>4. PICK b : b = IF IsAbs(ref) THEN [scheme |-> ref.scheme, host |-> ref.host, path |-> ref.path]
                   ELSE Resolve(p, ref)
  OBVIOUS
<1>5. CallbackOf(t) = Visited(b)
  BY <1>1, <1>3, <1>4 DEF CallbackOf, PageOf
<1>6. b.host = uri.host /\ b.path = uri.path /\ (site.proxy # "offloading" => b.scheme = uri.scheme)
  <2>1. CASE IsAbs(ref)
    BY <1>1, <1>2, <1>3, <1>4, <2>1, RedirectURI DEF RedirectOf
  <2>2. CASE ~IsAbs(ref)
    <3>1. /\ b.scheme = p.scheme /\ b.host = IF ref.host # "" THEN ref.host ELSE p.host
          /\ b.path = IF ref.rooted THEN ref.path ELSE Front(p.path) \o ref.path
      BY <1>4, <2>2 DEF Resolve
    <3>2. /\ uri.scheme = IF site.proxy = "offloading" THEN "http" ELSE p.scheme
          /\ uri.host = IF ref.host # "" THEN ref.host ELSE p.host
          /\ uri.path = IF ref.rooted THEN ref.path ELSE Front(p.path) \o ref.path
      BY <1>1, <1>2, <1>3, <2>2, RedirectURI DEF RedirectOf
    <3> QED
      BY <3>1, <3>2
  <2> QED
    BY <2>1, <2>2
<1>7. Visited(b) = Visited(uri)
  BY <1>6 DEF Visited
<1> QED
  BY <1>2, <1>5, <1>7, OnceVisited

\* Where the options do not fit, no request is ever taken for a callback.
LEMMA NeverCallback ==
    ASSUME Configured, NEW t \in Tabs, ~Recognised(t), NEW u \in URLs, AsVisited(u)
    PROVE  ~IsCallbackURL(Received(u))
<1> SUFFICES ASSUME IsCallbackURL(Received(u)) PROVE FALSE
  OBVIOUS
<1>1. PICK ref : ref = option.redirect_url
  OBVIOUS
<1>2. ref \in Refs
  BY <1>1 DEF Configured
<1>3. PICK g \in URLs : g = GetAbsRedirectURI(Received(u))
  BY RedirectURI
<1>4. /\ g.scheme = IF site.proxy = "offloading" THEN "http" ELSE u.scheme
      /\ g.host = u.host /\ g.path = u.path
  BY <1>3, SeenURL DEF IsCallbackURL
<1>5. u.host = Canonical(u.host) /\ Canonical("") = ""
  BY CallbackAssumption DEF AsVisited, CallbackAssumption
<1>6. CASE IsAbs(ref)
  <2>1. g = [scheme |-> ref.scheme, host |-> ref.host, path |-> ref.path]
    BY <1>1, <1>3, <1>6, RedirectURI
  <2> QED
    BY <1>1, <1>4, <1>5, <1>6, <2>1 DEF Recognised
<1>7. CASE ~IsAbs(ref)
  <2>1. /\ g.host = IF ref.host # "" THEN ref.host ELSE u.host
        /\ g.path = IF ref.rooted THEN ref.path ELSE Front(u.path) \o ref.path
    BY <1>1, <1>3, <1>7, RedirectURI
  <2>2. ref.host = Canonical(ref.host)
    BY <1>4, <1>5, <2>1
  <2>3. ~ref.rooted /\ Len(ref.path) # 1
    BY <1>1, <1>7, <2>2 DEF Recognised
  <2>4. PICK p \in Paths, q \in Paths : p = u.path /\ q = ref.path
    BY <1>2 DEF URLs, Refs
  <2>5. Len(p) = Len(p) - 1 + Len(q)
    <3>1. p = Front(p) \o q
      BY <1>4, <2>1, <2>3, <2>4
    <3> QED
      BY <3>1, Joined
  <2>6. PICK m \in Nat, n \in Nat : m = Len(p) /\ n = Len(q)
    BY LenProperties DEF Paths
  <2>7. m = m - 1 + n /\ n # 1
    BY <2>3, <2>4, <2>5, <2>6
  <2> QED
    BY <2>7
<1> QED
  BY <1>6, <1>7

\* Where they do, the callback of a login is taken for one, with the redirect URI
\* of that login.
LEMMA KnownCallback ==
    ASSUME Configured, NEW t \in Tabs, Recognised(t)
    PROVE  /\ IsCallbackURL(Received(CallbackOf(t)))
           /\ GetAbsRedirectURI(Received(CallbackOf(t))) = RedirectOf(t)
<1>1. PICK p \in URLs : p = PageOf(t) /\ AsVisited(p)
  BY Pages
<1>2. PICK uri \in URLs : uri = RedirectOf(t) /\ RedirectTo(uri) /\ CallbackOf(t) = Visited(uri)
  BY Callbacks
<1>3. PICK u \in URLs : u = Visited(uri)
  BY VisitedURL
<1>4. /\ u.scheme = IF site.proxy = "offloading" THEN "https" ELSE uri.scheme
      /\ u.host = Canonical(uri.host) /\ u.path = uri.path
  BY <1>3, VisitedURL
<1>5. PICK g \in URLs : g = GetAbsRedirectURI(Received(u))
  BY RedirectURI
<1>6. PICK s \in URLs : s = URL(Received(u))
  BY SeenURL
<1>7. /\ s.scheme = IF site.proxy = "offloading" THEN "http" ELSE u.scheme
      /\ s.host = u.host /\ s.path = u.path
  BY <1>6, SeenURL
<1>8. PICK ref : ref = option.redirect_url
  OBVIOUS
<1>9. ref \in Refs /\ ref.host = Canonical(ref.host)
  BY <1>8 DEF Recognised, Configured
<1>10. g = s
  <2>1. CASE IsAbs(ref)
    <3>1. /\ uri.scheme = ref.scheme /\ uri.host = ref.host /\ uri.path = ref.path
          /\ g.scheme = ref.scheme /\ g.host = ref.host /\ g.path = ref.path
      BY <1>1, <1>2, <1>5, <1>8, <2>1, RedirectURI DEF RedirectOf
    <3>2. site.proxy = "offloading" => ref.scheme = "http"
      BY <1>8, <2>1 DEF Recognised
    <3>3. g.scheme = s.scheme /\ g.host = s.host /\ g.path = s.path
      BY <1>4, <1>7, <1>9, <3>1, <3>2
    <3> QED
      BY <1>5, <1>6, <3>3 DEF URLs
  <2>2. CASE ~IsAbs(ref)
    <3>1. /\ uri.host = IF ref.host # "" THEN ref.host ELSE p.host
          /\ uri.path = IF ref.rooted THEN ref.path ELSE Front(p.path) \o ref.path
      BY <1>1, <1>2, <1>8, <2>2, RedirectURI DEF RedirectOf
    <3>2. /\ g.scheme = IF site.proxy = "offloading" THEN "http" ELSE u.scheme
          /\ g.host = IF ref.host # "" THEN ref.host ELSE u.host
          /\ g.path = IF ref.rooted THEN ref.path ELSE Front(u.path) \o ref.path
      BY <1>5, <1>8, <2>2, RedirectURI
    <3>3. g.path = s.path
      <4>1. CASE ref.rooted
        BY <1>4, <1>7, <3>1, <3>2, <4>1
      <4>2. CASE ~ref.rooted
        <5>1. Len(ref.path) = 1
          BY <1>8, <2>2, <4>2 DEF Recognised
        <5>2. PICK d \in Paths, q \in Paths : d = p.path /\ q = ref.path
          BY <1>9 DEF URLs, Refs
        <5>3. u.path = Front(d) \o q /\ Len(q) = 1
          BY <1>4, <3>1, <4>2, <5>1, <5>2
        <5>4. Front(u.path) = Front(d)
          BY <5>3, Joined
        <5> QED
          BY <1>7, <3>2, <4>2, <5>2, <5>3, <5>4
      <4> QED
        BY <4>1, <4>2
    <3>4. g.scheme = s.scheme /\ g.host = s.host
      BY <1>4, <1>7, <1>9, <3>1, <3>2
    <3> QED
      BY <1>5, <1>6, <3>3, <3>4 DEF URLs
  <2> QED
    BY <2>1, <2>2
<1>11. IsCallbackURL(Received(u))
  BY <1>5, <1>6, <1>10 DEF IsCallbackURL
<1> QED
  BY <1>2, <1>3, <1>11, SameAgain

\* A URL that a cookie goes to is within the scope of the options.
LEMMA ServedInScope ==
    ASSUME NEW u \in URLs, NEW c, Baked(c), NEW crossSite \in BOOLEAN, GoesTo(c, u, crossSite)
    PROVE  InScope(u)
BY DEF Baked, GoesTo, InScope, Secure

\* LoginReturns says when a login's cookie is taken and gets to the callback.
LEMMA LoginArrives ==
    ASSUME Configured, NEW t \in Tabs, NEW n
    PROVE  LoginReturns(t)
             <=> Accepted(PageOf(t)) /\ GoesTo(LoginCookie(t, n), CallbackOf(t), TRUE)
<1>1. PICK a \in Schemes, h \in KnownHosts, p \in Paths :
        PageOf(t) = [scheme |-> a, host |-> h, path |-> p]
  BY Pages DEF URLs
<1>2. PICK page \in URLs, cb \in URLs : page = PageOf(t) /\ cb = CallbackOf(t)
  BY Pages, Callbacks
<1>3. page.host = h /\ page.scheme = a /\ h # ""
  <2>1. page = [scheme |-> a, host |-> h, path |-> p]
    BY <1>1, <1>2
  <2>2. h # ""
    BY HostsAreKnown
  <2> QED
    BY <2>1, <2>2
<1>4. PICK scope : scope = [page EXCEPT !.path = option.path]
  OBVIOUS
<1>5. scope.host = h /\ scope.scheme = a /\ scope.path = option.path
  BY <1>1, <1>2, <1>4
<1>6. IsPrefix(option.path, option.path)
  <2>1. option.path \in Seq(STRING)
    BY DEF Configured
  <2>2. Len(option.path) \in Nat
    BY <2>1, LenProperties
  <2> QED
    BY <2>2 DEF IsPrefix
<1>7. PICK c : c = LoginCookie(t, n)
  OBVIOUS
<1>8. c.host = IF option.domain = "" THEN h ELSE ""
  BY <1>2, <1>3, <1>7, NewCookies DEF LoginCookie, CookieHost
<1>9. LoginReturns(t)
        <=> /\ option.same_site = "none" => ~option.insecure
            /\ option.same_site # "strict"
            /\ InScope(scope) /\ InScope(cb)
            /\ option.domain = "" => h = cb.host
  BY <1>2, <1>3, <1>4 DEF LoginReturns, PageOf
<1>10. InScope(scope)
         <=> /\ option.domain = "" \/ h \in HostsUnder(option.domain)
             /\ option.insecure \/ a = "https"
  BY <1>5, <1>6 DEF InScope
<1>11. Accepted(page)
         <=> /\ option.domain = "" \/ h \in HostsUnder(option.domain)
             /\ option.insecure \/ a = "https"
             /\ option.same_site = "none" => ~option.insecure
  BY <1>3 DEF Accepted, Secure
<1>12. GoesTo(c, cb, TRUE)
         <=> /\ IF option.domain = "" THEN cb.host = h ELSE cb.host \in HostsUnder(option.domain)
             /\ IsPrefix(option.path, cb.path)
             /\ option.insecure \/ cb.scheme = "https"
             /\ option.same_site # "strict"
  BY <1>3, <1>8 DEF GoesTo, Secure
<1>13. InScope(cb)
         <=> /\ option.domain = "" \/ cb.host \in HostsUnder(option.domain)
             /\ IsPrefix(option.path, cb.path)
             /\ option.insecure \/ cb.scheme = "https"
  BY DEF InScope
<1>14. LoginReturns(t) <=> Accepted(page) /\ GoesTo(c, cb, TRUE)
  BY <1>9, <1>10, <1>11, <1>12, <1>13
<1> QED
  BY <1>2, <1>7, <1>14

\* Where it does, the browser takes the session, and it goes to a page in scope.
LEMMA SessionArrives ==
    ASSUME Configured, NEW t \in Tabs, LoginReturns(t)
    PROVE  /\ Accepted(CallbackOf(t))
           /\ \A x \in BOOLEAN :
                InScope(PageOf(t)) => GoesTo(SessionCookie(CallbackOf(t)), PageOf(t), x)
<1>1. PICK page \in URLs, cb \in URLs : page = PageOf(t) /\ cb = CallbackOf(t)
  BY Pages, Callbacks
<1>2. page.host # "" /\ cb.host # ""
  BY HostsAreKnown DEF URLs
<1>3. /\ option.same_site = "none" => ~option.insecure
      /\ option.same_site # "strict" /\ InScope(cb)
      /\ option.domain = "" => page.host = cb.host
  BY <1>1 DEF LoginReturns, PageOf
<1>4. Accepted(cb)
  BY <1>3 DEF Accepted, InScope, Secure
<1>5. PICK c : c = SessionCookie(cb)
  OBVIOUS
<1>6. c.host = IF option.domain = "" THEN cb.host ELSE ""
  BY <1>5, NewCookies DEF SessionCookie, CookieHost
<1>7. ASSUME NEW x \in BOOLEAN, InScope(page) PROVE GoesTo(c, page, x)
  BY <1>2, <1>3, <1>6, <1>7 DEF GoesTo, InScope, Secure
<1> QED
  BY <1>1, <1>4, <1>5, <1>7

-----------------------------------------------------------------------------
(* The steps of these invariants *)

\* All this depends on the options and the site, which never change.
LEMMA NeverChanged ==
    ASSUME UNCHANGED <<option, site>>, NEW t
    PROVE  /\ PageOf(t)' = PageOf(t) /\ RedirectOf(t)' = RedirectOf(t)
           /\ CallbackOf(t)' = CallbackOf(t) /\ SessionOf(t)' = SessionOf(t)
           /\ Recognised(t)' <=> Recognised(t)
           /\ LoginReturns(t)' <=> LoginReturns(t)
           /\ Taken(t)' <=> Taken(t)
           /\ InReach(t)' <=> InReach(t)
           /\ \A n : LoginCookie(t, n)' = LoginCookie(t, n)
<1>1. PageOf(t)' = PageOf(t)
  BY DEF PageOf, Visited, Page
<1>2. CallbackOf(t)' = CallbackOf(t)
  BY DEF CallbackOf, Visited, Page, IsAbs, Resolve
<1>3. RedirectOf(t)' = RedirectOf(t)
  BY DEF RedirectOf, GetAbsRedirectURI, PageOf, Visited, Page, IsAbs, Resolve, Received, URL
<1>4. SessionOf(t)' = SessionOf(t)
  BY <1>2 DEF SessionOf, SessionCookie, NewCookie
<1>5. Recognised(t)' <=> Recognised(t)
  BY DEF Recognised, IsAbs
<1>6. Taken(t)' <=> Taken(t)
  BY <1>1 DEF Taken, Accepted, Secure
<1>7. InReach(t)' <=> InReach(t)
  BY <1>1 DEF InReach, InScope
<1>8. LoginReturns(t)' <=> LoginReturns(t)
  BY <1>2 DEF LoginReturns, InScope, Visited, Page
<1>9. ASSUME NEW n PROVE LoginCookie(t, n)' = LoginCookie(t, n)
  BY <1>1 DEF LoginCookie, NewCookie, URL, Received
<1> QED
  BY <1>1, <1>2, <1>3, <1>4, <1>5, <1>6, <1>7, <1>8, <1>9

\* A cookie in the jar is never a session's and a login's, and there is none of a
\* login that is yet to come.
LEMMA KindOf ==
    ASSUME IInv, NEW c \in jar
    PROVE  /\ c.name = <<>> => SessionKind(c)
           /\ \A t \in Tabs : c.name # CsrfName(t, logins[t] + 1)
<1>1. Baked(c)
  BY DEF IInv, Jar
<1>2. CASE SessionKind(c)
  <2>1. c.name = <<>>
    BY <1>2 DEF SessionKind
  <2>2. \A t \in Tabs : logins[t] + 1 \in Nat
    BY LoginsCount DEF IInv, Typed
  <2> QED
    BY <1>2, <2>1, <2>2, Names
<1>3. CASE LoginKind(c)
  <2>1. PICK s \in Tabs : \E n \in 1 .. logins[s] : c.name = CsrfName(s, n)
    BY <1>3 DEF LoginKind
  <2>2. PICK n \in 1 .. logins[s] : c.name = CsrfName(s, n)
    BY <2>1
  <2>3. \A t \in Tabs : logins[t] \in Nat
    BY LoginsCount DEF IInv, Typed
  <2>4. n \in Nat /\ n # logins[s] + 1 /\ c.name # <<>>
    BY <2>2, <2>3, Names
  <2>5. ASSUME NEW t \in Tabs, c.name = CsrfName(t, logins[t] + 1) PROVE FALSE
    <3>1. PICK m \in Nat : m = logins[t] + 1
      BY <2>3
    <3>2. CsrfName(t, m) = CsrfName(s, n)
      BY <2>2, <2>5, <3>1
    <3>3. t = s /\ m = n
      BY <2>4, <3>2, Names
    <3> QED
      BY <2>4, <3>1, <3>3
  <2> QED
    BY <2>4, <2>5
<1> QED
  BY <1>1, <1>2, <1>3 DEF Baked

\* A step that leaves a tab alone leaves its progress alone, if the sessions and
\* the tab's own cookies stay in the jar.
LEMMA Undisturbed ==
    ASSUME IInv, UNCHANGED <<option, site>>, NEW t \in Tabs, Progress(t),
           at'[t] = at[t], url'[t] = url[t], logins'[t] = logins[t], asked'[t] = asked[t],
           \A c \in jar : SessionKind(c) => c \in jar',
           \A n \in Nat : {c \in jar' : c.name = CsrfName(t, n)} = {c \in jar : c.name = CsrfName(t, n)}
    PROVE  Progress(t)'
<1>1. ASSUME NEW n \in Nat, Held(t, n) PROVE Held(t, n)'
  BY <1>1, NeverChanged DEF Held
<1>2. Pending(t) => Pending(t)'
  BY <1>1, NeverChanged DEF Pending
<1>3. LoggedIn(t) => LoggedIn(t)'
  <2>1. SessionKind(SessionOf(t))
    <3>1. PICK h : h = CookieHost(CallbackOf(t))
      OBVIOUS
    <3>2. SessionOf(t) = [host |-> h, name |-> <<>>, flow |-> <<>>, return |-> NoURL]
      BY <3>1, NewCookies DEF SessionOf, SessionCookie
    <3> QED
      BY <3>2 DEF SessionKind
  <2> QED
    BY <2>1, NeverChanged DEF LoggedIn
<1> QED
  BY <1>2, <1>3, NeverChanged DEF Progress

\* What becomes of the jar when tab t starts a login: the cookie of the new login
\* is there if the browser takes it, and nothing else has changed.
LEMMA JarOfLogin ==
    ASSUME IInv, NEW t \in Tabs, StartLogin(t)
    PROVE  /\ \A c \in jar : SessionKind(c) => c \in jar'
           /\ \A s \in Tabs \ {t}, n \in Nat :
                {c \in jar' : c.name = CsrfName(s, n)} = {c \in jar : c.name = CsrfName(s, n)}
           /\ \A n : n = logins'[t] =>
                {c \in jar' : c.name = CsrfName(t, n)}
                  = IF Accepted(url[t])
                    THEN {NewCookie(url[t], CsrfName(t, n), <<t, n>>, URL(Request(t)))} ELSE {}
<1>1. PICK n \in Nat : n = logins[t] + 1 /\ n = logins'[t]
  BY OneMoreLogin
<1>2. PICK k : k = NewCookie(url[t], CsrfName(t, n), <<t, n>>, URL(Request(t)))
  OBVIOUS
<1>3. k.name = CsrfName(t, n)
  <2>1. PICK h, flow, return : /\ h = CookieHost(url[t]) /\ flow = <<t, n>>
                               /\ return = URL(Request(t))
    OBVIOUS
  <2>2. k = [host |-> h, name |-> CsrfName(t, n), flow |-> flow, return |-> return]
    BY <1>2, <2>1, NewCookies
  <2> QED
    BY <2>2
<1>4. jar' = IF Accepted(url[t])
             THEN {d \in jar : d.name # k.name \/ d.host # k.host} \union {k} ELSE jar
  BY <1>1, <1>2 DEF StartLogin, Stored
<1>5. \A c \in jar : c.name # CsrfName(t, n)
  BY <1>1, KindOf
<1>6. jar' = IF Accepted(url[t]) THEN jar \union {k} ELSE jar
  BY <1>3, <1>4, <1>5
<1>7. ASSUME NEW s \in Tabs \ {t}, NEW m \in Nat
      PROVE  {c \in jar' : c.name = CsrfName(s, m)} = {c \in jar : c.name = CsrfName(s, m)}
  <2>1. k.name # CsrfName(s, m)
    BY <1>3, Names
  <2> QED
    BY <1>6, <2>1
<1>8. {c \in jar' : c.name = CsrfName(t, n)} = IF Accepted(url[t]) THEN {k} ELSE {}
  BY <1>3, <1>5, <1>6
<1> QED
  BY <1>1, <1>2, <1>6, <1>7, <1>8

\* When it is back at the callback: its session is there if the browser takes it,
\* its login's cookie may be gone, and nothing else has changed.
LEMMA JarOfCallback ==
    ASSUME IInv, NEW t \in Tabs, HandleCallback(t)
    PROVE  /\ \A c \in jar : SessionKind(c) => c \in jar'
           /\ \A s \in Tabs \ {t}, n \in Nat :
                {c \in jar' : c.name = CsrfName(s, n)} = {c \in jar : c.name = CsrfName(s, n)}
           /\ Accepted(url[t]) => SessionCookie(url[t]) \in jar'
<1>1. PICK k \in CsrfCookies(t) :
        jar' = Stored(url[t], SessionCookie(url[t])) \ (IF Accepted(url[t]) THEN {k} ELSE {})
  BY DEF HandleCallback
<1>2. PICK d : d = SessionCookie(url[t])
  OBVIOUS
<1>3. SessionKind(d) /\ d.name = <<>>
  <2>1. PICK h : h = CookieHost(url[t])
    OBVIOUS
  <2>2. d = [host |-> h, name |-> <<>>, flow |-> <<>>, return |-> NoURL]
    BY <1>2, <2>1, NewCookies DEF SessionCookie
  <2> QED
    BY <2>2 DEF SessionKind
<1>4. k \in jar /\ \E n \in Nat : k.name = CsrfName(t, n)
  BY CsrfCookie
<1>5. jar' = IF Accepted(url[t])
             THEN ({c \in jar : c.name # d.name \/ c.host # d.host} \union {d}) \ {k} ELSE jar
  BY <1>1, <1>2 DEF Stored
<1>6. d # k /\ k.name # <<>>
  BY <1>3, <1>4, Names
<1>7. ASSUME NEW c \in jar, SessionKind(c) PROVE c \in jar'
  <2>1. c.name = <<>> /\ c # k
    BY <1>6, <1>7 DEF SessionKind
  <2>2. c.host = d.host => c = d
    BY <1>3, <1>7 DEF SessionKind
  <2> QED
    BY <1>5, <2>1, <2>2
<1>8. ASSUME NEW s \in Tabs \ {t}, NEW m \in Nat
      PROVE  {c \in jar' : c.name = CsrfName(s, m)} = {c \in jar : c.name = CsrfName(s, m)}
  <2>1. k.name # CsrfName(s, m) /\ d.name # CsrfName(s, m)
    BY <1>3, <1>4, Names
  <2> QED
    BY <1>5, <2>1
<1> QED
  BY <1>2, <1>5, <1>6, <1>7, <1>8

\* When it is refused there: the cookie of its login may be gone.
LEMMA JarOfRefusal ==
    ASSUME IInv, NEW t \in Tabs, CallbackFails(t)
    PROVE  /\ \A c \in jar : SessionKind(c) => c \in jar'
           /\ \A s \in Tabs \ {t}, n \in Nat :
                {c \in jar' : c.name = CsrfName(s, n)} = {c \in jar : c.name = CsrfName(s, n)}
<1>1. \A k \in CsrfCookies(t) : \E n \in Nat : k.name = CsrfName(t, n)
  BY CsrfCookie
<1>2. jar' \subseteq jar /\ \A c \in jar : c \notin jar' => c \in CsrfCookies(t)
  BY DEF CallbackFails
<1>3. ASSUME NEW c \in jar, SessionKind(c) PROVE c \in jar'
  <2>1. c.name = <<>>
    BY <1>3 DEF SessionKind
  <2> QED
    BY <1>1, <1>2, <2>1, Names
<1>4. ASSUME NEW s \in Tabs \ {t}, NEW m \in Nat
      PROVE  {c \in jar' : c.name = CsrfName(s, m)} = {c \in jar : c.name = CsrfName(s, m)}
  <2>1. \A k \in CsrfCookies(t) : k.name # CsrfName(s, m)
    BY <1>1, Names
  <2> QED
    BY <1>2, <2>1
<1> QED
  BY <1>3, <1>4

\* One tab cannot get in the way of another.
LEMMA OthersKeepOn ==
    ASSUME IInv, NEW s \in Tabs, NEW t \in Tabs \ {s}, Progress(t),
           Visit(s) \/ Authorize(s) \/ GiveUp(s) \/ Server(s)
    PROVE  Progress(t)'
<1>1. CASE Visit(s) \/ Authorize(s) \/ GiveUp(s) \/ ServePage(s)
  BY <1>1, Undisturbed DEF Visit, Authorize, GiveUp, ServePage, IInv, Typed
<1>2. CASE StartLogin(s)
  <2>1. /\ UNCHANGED <<option, site>> /\ logins'[t] = logins[t]
        /\ at'[t] = at[t] /\ url'[t] = url[t] /\ asked'[t] = asked[t]
    BY <1>2, OneMoreLogin DEF StartLogin, IInv, Typed
  <2> QED
    BY <1>2, <2>1, JarOfLogin, Undisturbed
<1>3. CASE HandleCallback(s)
  <2>1. /\ UNCHANGED <<option, site>> /\ logins'[t] = logins[t]
        /\ at'[t] = at[t] /\ url'[t] = url[t] /\ asked'[t] = asked[t]
    BY <1>3 DEF HandleCallback, IInv, Typed
  <2> QED
    BY <1>3, <2>1, JarOfCallback, Undisturbed
<1>4. CASE CallbackFails(s)
  <2>1. /\ UNCHANGED <<option, site>> /\ logins'[t] = logins[t]
        /\ at'[t] = at[t] /\ url'[t] = url[t] /\ asked'[t] = asked[t]
    BY <1>4 DEF CallbackFails, IInv, Typed
  <2> QED
    BY <1>4, <2>1, JarOfRefusal, Undisturbed
<1> QED
  BY <1>1, <1>2, <1>3, <1>4 DEF Server

\* Where a tab's request is a callback, if the server knows callbacks and pages
\* apart: only where a login has sent it.
LEMMA OnlyCallbacks ==
    ASSUME IInv, PagesApart, NEW t \in Tabs, Recognised(t), Progress(t), Asking(t)
    PROVE  /\ IsCallbackURL(Request(t)) =>
                at[t] = "returning" /\ url[t] = CallbackOf(t) /\ Pending(t) /\ SameURI(t)
           /\ ~IsCallbackURL(Request(t)) =>
                /\ url[t] = PageOf(t)
                /\ (at[t] = "asking" /\ logins[t] = 0) \/ (at[t] = "returning" /\ LoggedIn(t))
<1>1. Request(t) = Received(url[t])
  BY DEF Request
<1>2. ~IsCallbackURL(Received(PageOf(t)))
  BY DEF PagesApart
<1>3. /\ IsCallbackURL(Received(CallbackOf(t)))
      /\ GetAbsRedirectURI(Received(CallbackOf(t))) = RedirectOf(t)
  BY KnownCallback DEF IInv
<1>4. CASE at[t] = "asking"
  <2>1. url[t] = PageOf(t) /\ logins[t] = 0
    BY <1>4 DEF Progress
  <2> QED
    BY <1>1, <1>2, <1>4, <2>1
<1>5. CASE at[t] = "returning"
  <2>1. (url[t] = CallbackOf(t) /\ Pending(t)) \/ (url[t] = PageOf(t) /\ LoggedIn(t))
    BY <1>5 DEF Progress
  <2>2. (url[t] = CallbackOf(t) /\ Pending(t)) => SameURI(t)
    BY <1>1, <1>3 DEF Pending, SameURI
  <2> QED
    BY <1>1, <1>2, <1>3, <1>5, <2>1, <2>2
<1> QED
  BY <1>4, <1>5 DEF Asking

\* The cookies that a request has are in the jar, and go to its URL.
LEMMA Sent ==
    ASSUME NEW t \in Tabs, NEW c
    PROVE  /\ c \in Cookies(t) <=> c \in jar /\ GoesTo(c, url[t], at[t] = "returning")
           /\ c \in SessionCookies(t) <=> c \in Cookies(t) /\ c.name = <<>>
           /\ c \in CsrfCookies(t) <=> c \in Cookies(t) /\ c.name = CsrfName(t, logins[t])
BY DEF Cookies, SessionCookies, CsrfCookies

LEMMA VisitsOwn ==
    ASSUME IInv, NEW t \in Tabs, Progress(t), Visit(t) PROVE Progress(t)'
<1>1. at'[t] = "asking" /\ url'[t] = PageOf(t) /\ logins'[t] = 0
  BY DEF Visit, IInv, Typed, Progress, PageOf
<1>2. PageOf(t)' = PageOf(t)
  BY NeverChanged DEF Visit
<1> QED
  BY <1>1, <1>2 DEF Progress

LEMMA AuthorizesOwn ==
    ASSUME IInv, NEW t \in Tabs, Progress(t), Authorize(t) PROVE Progress(t)'
<1>1. UNCHANGED <<option, site, jar, asked, logins>> /\ at'[t] = "returning"
  BY DEF Authorize, IInv, Typed
<1>2. Pending(t) /\ asked[t] = RedirectOf(t)
  BY DEF Authorize, Progress, Pending
<1>3. url'[t] = CallbackOf(t)
  BY <1>2, Callbacks DEF Authorize, IInv, Typed
<1>4. Pending(t)'
  <2>1. ASSUME NEW n \in Nat, Held(t, n) PROVE Held(t, n)'
    BY <1>1, <2>1, NeverChanged DEF Held
  <2> QED
    BY <1>1, <1>2, <2>1, NeverChanged DEF Pending
<1> QED
  BY <1>1, <1>3, <1>4, NeverChanged DEF Progress

LEMMA GivesUpOwn ==
    ASSUME IInv, PagesApart, NEW t \in Tabs, Recognised(t), Progress(t), GiveUp(t)
    PROVE  Progress(t)'
<1>1. UNCHANGED <<option, site>> /\ at'[t] = "looping"
  BY DEF GiveUp, IInv, Typed
<1>2. url[t] = PageOf(t) /\ at[t] = "returning" /\ LoggedIn(t)
  BY OnlyCallbacks, LoginsCount DEF GiveUp
<1>3. ~InReach(t)
  <2> SUFFICES ASSUME InReach(t) PROVE FALSE
    OBVIOUS
  <2>1. PICK d : d = SessionOf(t)
    OBVIOUS
  <2>2. d \in jar /\ GoesTo(d, PageOf(t), TRUE)
    BY <1>2, <2>1, SessionArrives DEF IInv, LoggedIn, InReach, SessionOf
  <2>3. d.name = <<>>
    <3>1. PICK h : h = CookieHost(CallbackOf(t))
      OBVIOUS
    <3>2. d = [host |-> h, name |-> <<>>, flow |-> <<>>, return |-> NoURL]
      BY <2>1, <3>1, NewCookies DEF SessionOf, SessionCookie
    <3> QED
      BY <3>2
  <2>4. d \in SessionCookies(t)
    BY <1>2, <2>2, <2>3, Sent
  <2> QED
    BY <2>4 DEF GiveUp
<1> QED
  BY <1>1, <1>2, <1>3, NeverChanged DEF Progress, LoggedIn

LEMMA ServesOwn ==
    ASSUME IInv, PagesApart, NEW t \in Tabs, Recognised(t), Progress(t), ServePage(t)
    PROVE  Progress(t)'
<1>1. UNCHANGED <<option, site, url>> /\ at'[t] = "served"
  BY DEF ServePage, IInv, Typed
<1>2. url[t] = PageOf(t)
  BY OnlyCallbacks DEF ServePage
<1>3. InReach(t)
  <2>1. PICK c : c \in SessionCookies(t)
    BY DEF ServePage
  <2>2. PICK x \in BOOLEAN : x = (at[t] = "returning")
    OBVIOUS
  <2>3. c \in jar /\ GoesTo(c, PageOf(t), x)
    BY <1>2, <2>1, <2>2, Sent
  <2>4. Baked(c) /\ PageOf(t) \in URLs
    BY <2>3, Pages DEF IInv, Jar
  <2> QED
    BY <2>3, <2>4, ServedInScope DEF InReach
<1> QED
  BY <1>1, <1>2, <1>3, NeverChanged DEF Progress

LEMMA LoginsOwn ==
    ASSUME IInv, PagesApart, NEW t \in Tabs, Recognised(t), Progress(t), StartLogin(t)
    PROVE  Progress(t)'
<1>1. UNCHANGED <<option, site>> /\ at'[t] = "provider"
  BY DEF StartLogin, IInv, Typed
<1>2. url[t] = PageOf(t) /\ Request(t) = Received(PageOf(t))
  BY OnlyCallbacks DEF StartLogin, Request
<1>3. asked'[t] = RedirectOf(t)
  BY <1>2 DEF StartLogin, IInv, Typed, RedirectOf
<1>4. PICK n \in Nat : n = logins'[t]
  BY OneMoreLogin
<1>5. Held(t, n)'
  <2>1. {c \in jar' : c.name = CsrfName(t, n)} = IF Taken(t) THEN {LoginCookie(t, n)} ELSE {}
    BY <1>2, <1>4, JarOfLogin DEF Taken, LoginCookie
  <2> QED
    BY <1>1, <2>1, NeverChanged DEF Held
<1>6. Pending(t)'
  BY <1>1, <1>3, <1>4, <1>5, NeverChanged DEF Pending
<1> QED
  BY <1>1, <1>6 DEF Progress

LEMMA ReturnsOwn ==
    ASSUME IInv, PagesApart, NEW t \in Tabs, Recognised(t), Progress(t), HandleCallback(t)
    PROVE  Progress(t)'
<1>1. UNCHANGED <<option, site>> /\ at'[t] = "returning"
  BY DEF HandleCallback, IInv, Typed
<1>2. url[t] = CallbackOf(t) /\ at[t] = "returning" /\ Pending(t)
  BY OnlyCallbacks DEF HandleCallback
<1>3. PICK k \in CsrfCookies(t) : url' = [url EXCEPT ![t] = Visited(k.return)]
  BY DEF HandleCallback
<1>4. PICK n \in Nat : n = logins[t] /\ Held(t, n)
  BY <1>2 DEF Pending
<1>5. k \in jar /\ k.name = CsrfName(t, n) /\ GoesTo(k, CallbackOf(t), TRUE)
  BY <1>2, <1>3, <1>4, Sent
<1>6. Taken(t) /\ k = LoginCookie(t, n)
  BY <1>4, <1>5 DEF Held
<1>7. k.return = URL(Received(PageOf(t)))
  <2>1. PICK h, flow, return : /\ h = CookieHost(PageOf(t)) /\ flow = <<t, n>>
                               /\ return = URL(Received(PageOf(t)))
    OBVIOUS
  <2>2. k = [host |-> h, name |-> CsrfName(t, n), flow |-> flow, return |-> return]
    BY <1>6, <2>1, NewCookies DEF LoginCookie
  <2> QED
    BY <2>1, <2>2
<1>8. url'[t] = PageOf(t)
  BY <1>3, <1>7, Pages DEF IInv, Typed
<1>9. LoginReturns(t)
  BY <1>5, <1>6, LoginArrives DEF IInv, Taken
<1>10. SessionOf(t) \in jar'
  BY <1>2, <1>9, JarOfCallback, SessionArrives DEF IInv, SessionOf
<1> QED
  BY <1>1, <1>8, <1>9, <1>10, NeverChanged DEF Progress, LoggedIn

LEMMA FailsOwn ==
    ASSUME IInv, PagesApart, NEW t \in Tabs, Recognised(t), Progress(t), CallbackFails(t)
    PROVE  Progress(t)'
<1>1. UNCHANGED <<option, site>> /\ at'[t] = "failed"
  BY DEF CallbackFails, IInv, Typed
<1>2. url[t] = CallbackOf(t) /\ at[t] = "returning" /\ Pending(t) /\ SameURI(t)
  BY OnlyCallbacks DEF CallbackFails
<1>3. ~LoginReturns(t)
  <2> SUFFICES ASSUME LoginReturns(t) PROVE FALSE
    OBVIOUS
  <2>1. PICK n \in Nat : n = logins[t] /\ Held(t, n)
    BY <1>2 DEF Pending
  <2>2. PICK k : k = LoginCookie(t, n)
    OBVIOUS
  <2>3. Taken(t) /\ GoesTo(k, CallbackOf(t), TRUE)
    BY <2>2, LoginArrives DEF IInv, Taken
  <2>4. k \in jar /\ k.name = CsrfName(t, n)
    BY <2>1, <2>2, <2>3 DEF Held
  <2>5. k \in CsrfCookies(t)
    BY <1>2, <2>1, <2>3, <2>4, Sent
  <2>6. k.flow = <<t, logins[t]>>
    BY <2>5, CsrfCookie
  <2> QED
    BY <1>2, <2>5, <2>6 DEF CallbackFails, Exchanges
<1> QED
  BY <1>1, <1>3, NeverChanged DEF Progress

\* A server that does not know its callback starts one login after the other.
LEMMA NobodyLogsIn ==
    ASSUME IInv, NEW t \in Tabs, ~Recognised(t), NoSessions(t), [Next]_vars
    PROVE  NoSessions(t)'
<1>1. ASSUME NEW s \in Tabs, Asking(s)
      PROVE  ~IsCallbackURL(Request(s)) /\ SessionCookies(s) = {}
  <2>1. url[s] \in URLs /\ AsVisited(url[s])
    BY <1>1 DEF Asking, IInv, Typed, OnItsWay
  <2>2. ~Recognised(s)
    BY DEF Recognised
  <2>3. ~IsCallbackURL(Request(s))
    BY <2>1, <2>2, NeverCallback DEF IInv, Request
  <2> QED
    BY <2>3 DEF SessionCookies, Cookies, NoSessions
<1>2. ASSUME UNCHANGED <<jar>>, at'[t] \notin {"served", "failed"} PROVE NoSessions(t)'
  BY <1>2 DEF NoSessions
<1>3. ASSUME NEW s \in Tabs, Visit(s) \/ Authorize(s) \/ GiveUp(s) PROVE NoSessions(t)'
  BY <1>2, <1>3 DEF Visit, Authorize, GiveUp, IInv, Typed, NoSessions
<1>4. ASSUME NEW s \in Tabs, Server(s) PROVE NoSessions(t)'
  <2>1. StartLogin(s)
    BY <1>1, <1>4 DEF Server, ServePage, HandleCallback, CallbackFails
  <2>2. at'[t] \notin {"served", "failed"}
    BY <2>1 DEF StartLogin, IInv, Typed, NoSessions
  <2>3. \A c \in jar' : c.name # <<>>
    <3>1. PICK n \in Nat : n = logins'[s]
      BY <2>1, OneMoreLogin
    <3>2. PICK h, flow, return : /\ h = CookieHost(url[s]) /\ flow = <<s, n>>
                                 /\ return = URL(Request(s))
      OBVIOUS
    <3>3. PICK k : k = [host |-> h, name |-> CsrfName(s, n), flow |-> flow, return |-> return]
      OBVIOUS
    <3>4. jar' = Stored(url[s], k)
      BY <2>1, <3>1, <3>2, <3>3, NewCookies DEF StartLogin
    <3>5. k.name # <<>>
      BY <3>3, Names
    <3> QED
      BY <3>4, <3>5 DEF Stored, NoSessions
  <2> QED
    BY <2>2, <2>3 DEF NoSessions
<1>5. CASE UNCHANGED vars
  BY <1>2, <1>5 DEF vars, NoSessions
<1> QED
  BY <1>3, <1>4, <1>5 DEF Next

\* Each step leaves every tab where its options take it.
LEMMA EndsStep ==
    ASSUME IInv, PagesApart, Ends, [Next]_vars PROVE Ends'
<1>1. UNCHANGED <<option, site>>
  BY DEF Next, Server, Visit, Authorize, GiveUp, ServePage, StartLogin, HandleCallback,
         CallbackFails, vars
<1>2. ASSUME NEW t \in Tabs, ~Recognised(t)
      PROVE  ~Recognised(t)' /\ NoSessions(t)'
  BY <1>1, <1>2, NobodyLogsIn, NeverChanged DEF Ends
<1>3. ASSUME NEW t \in Tabs, Recognised(t)
      PROVE  Recognised(t)' /\ Progress(t)'
  <2>1. Progress(t)
    BY <1>3 DEF Ends
  <2>2. ASSUME NEW s \in Tabs, Visit(s) \/ Authorize(s) \/ GiveUp(s) \/ Server(s)
        PROVE  Progress(t)'
    <3>1. CASE s # t
      BY <2>1, <2>2, <3>1, OthersKeepOn
    <3>2. CASE s = t
      BY <1>3, <2>1, <2>2, <3>2, VisitsOwn, AuthorizesOwn, GivesUpOwn, ServesOwn, LoginsOwn,
         ReturnsOwn, FailsOwn DEF Server
    <3> QED
      BY <3>1, <3>2
  <2>3. CASE UNCHANGED vars
    <3>1. /\ UNCHANGED <<option, site>> /\ jar' = jar /\ at'[t] = at[t] /\ url'[t] = url[t]
          /\ logins'[t] = logins[t] /\ asked'[t] = asked[t]
      BY <2>3 DEF vars
    <3>2. \A c \in jar : SessionKind(c) => c \in jar'
      BY <3>1
    <3>3. \A n \in Nat : {c \in jar' : c.name = CsrfName(t, n)} = {c \in jar : c.name = CsrfName(t, n)}
      BY <3>1
    <3> QED
      BY <1>3, <2>1, <3>1, <3>2, <3>3, Undisturbed, NeverChanged
  <2> QED
    BY <1>1, <1>3, <2>2, <2>3, NeverChanged DEF Next
<1> QED
  BY <1>2, <1>3 DEF Ends

\* With a server whose pages are not its callback, and whatever else is configured:
\* a user who is served is on the page they opened, and it is within the scope of
\* the cookies; a refusal means that the login's cookie did not get to the callback,
\* a loop that the server does not know its callback or the session does not get
\* to the page.
THEOREM LoginsEnd == Spec => [](PagesApart => OutcomeFits)
<1>1. Init => (PagesApart => Ends)
  BY DEF Init, Ends, Progress, NoSessions
<1>2. IInv /\ (PagesApart => Ends) /\ [Next]_vars => (PagesApart' => Ends')
  <2>1. [Next]_vars => UNCHANGED <<option, site>>
    BY DEF Next, Server, Visit, Authorize, GiveUp, ServePage, StartLogin, HandleCallback,
           CallbackFails, vars
  <2>2. UNCHANGED <<option, site>> => (PagesApart' => PagesApart)
    <3> SUFFICES ASSUME UNCHANGED <<option, site>>, PagesApart', NEW t \in Tabs
                 PROVE  URL(Received(PageOf(t))) # RedirectOf(t)
      BY DEF PagesApart, IsCallbackURL, RedirectOf
    <3>1. PageOf(t)' = PageOf(t) /\ RedirectOf(t)' = RedirectOf(t)
      BY NeverChanged
    <3>2. URL(Received(PageOf(t)))' = URL(Received(PageOf(t)))
      BY <3>1 DEF URL, Received
    <3>3. URL(Received(PageOf(t)))' # RedirectOf(t)'
      BY DEF PagesApart, IsCallbackURL, RedirectOf
    <3> QED
      BY <3>1, <3>2, <3>3
  <2> QED
    BY <2>1, <2>2, EndsStep
<1>3. IInv /\ (PagesApart => Ends) => (PagesApart => OutcomeFits)
  <2> SUFFICES ASSUME IInv, Ends, NEW t \in Tabs
               PROVE  /\ at[t] = "served" => url[t] = PageOf(t) /\ InScope(url[t])
                      /\ at[t] = "failed" => Recognised(t) /\ ~LoginReturns(t)
                      /\ at[t] = "looping" =>
                           ~Recognised(t) \/ (LoginReturns(t) /\ ~InScope(PageOf(t)))
    BY DEF OutcomeFits, PageOf
  <2> QED
    BY DEF Ends, Progress, NoSessions, InReach
<1> QED
  BY Invariance, <1>1, <1>2, <1>3, PTL DEF Spec

=============================================================================
