--------------------------- MODULE LoginFlowProofs ---------------------------
(***************************************************************************)
(* A login gives its own browser its own session and page, however many    *)
(* browsers, tabs, users, flows and secrets there are, whatever is lost,   *)
(* repeated or refused, and a session is served in its lifetime only.      *)
(*                                                                         *)
(* The server keeps nothing, so the invariant is about every cookie there  *)
(* is: in a browser, in a request, in the server's hand, in an answer.     *)
(***************************************************************************)

EXTENDS LoginFlow, TLAPS

Started == 1 .. started

\* A CSRF cookie of browser b is that of a flow started in b, and says of it what
\* is the case.
Genuine(c, b) ==
    /\ c.verifier \in Started /\ c.name = CsrfName(c.verifier)
    /\ c.url = origin[c.verifier].page /\ c.made = origin[c.verifier].made
    /\ BrowserOf[origin[c.verifier].tab] = b

\* The lifetime of a session.
Lifetime == IF MaxAge > 0 THEN MaxAge ELSE TokenLifetime

\* A session of browser b is of a flow started in b, for the user whose code was
\* exchanged, and ends in time.
Earned(s, b) ==
    /\ s.flow \in Started /\ BrowserOf[origin[s.flow].tab] = b
    /\ code[s.flow].status = "used" /\ code[s.flow].user = s.user
    /\ s.expires <= s.made + Lifetime

EarnedJar(jar, b) ==
    /\ \A c \in jar.csrf : Genuine(c, b)
    /\ jar.session # NoCookie => Earned(jar.session, b)

\* The provider knows the challenge of a flow once it is started, and has a code
\* for it only then, of the user who logged in.
Challenged(n) ==
    /\ n \in Started => code[n].challenge = n
    /\ code[n].status # "none" => code[n].user \in Users
    /\ n \notin Started => code[n].challenge = 0 /\ code[n].status = "none"

\* An answer on its way to tab t.
Replied(t) ==
    LET r == reply[t]
    IN  /\ \A c \in r.set : Genuine(c, BrowserOf[t]) /\ origin[c.verifier].tab = t
        /\ \A n \in r.delete : n \in Started /\ code[n].status # "none"
        /\ r.session # NoCookie => Earned(r.session, BrowserOf[t])
        /\ r.kind = "login" =>
             /\ flow[t] \in Started /\ origin[flow[t]].tab = t /\ code[flow[t]].status = "none"
             /\ \E c \in r.set : c.verifier = flow[t]
        /\ r.kind = "welcome" =>
             r.session.flow \in Started /\ r.url = origin[r.session.flow].page

\* Where tab t is, and what that says of the flow it is in.
Placed(t) ==
    /\ at[t] = "sent" => reply[t].kind = "none"
    /\ at[t] = "authorize" =>
         flow[t] \in Started /\ origin[flow[t]].tab = t /\ code[flow[t]].status = "none"
    /\ (at[t] = "callback" /\ ~refused[t]) \/ at[t] = "exchange" =>
         flow[t] \in Started /\ code[flow[t]].status # "none"
    /\ at[t] = "exchange" => \A c \in holding[t] : c.name = CsrfName(flow[t])

TabInv(t) ==
    /\ EarnedJar(sent[t], BrowserOf[t])
    /\ \A c \in holding[t] : Genuine(c, BrowserOf[t])
    /\ at[t] = "reply" => Replied(t)
    /\ Placed(t)

IInv ==
    /\ TypeOK
    /\ \A n \in Flows : Challenged(n)
    /\ \A b \in Browsers : EarnedJar(Jar(b), b)
    /\ \A t \in Tabs : TabInv(t)
    /\ LoginSurvives

-----------------------------------------------------------------------------
(* What no step takes back *)

\* Flows stay as they were started, a spent code stays spent for its user, and a
\* code is issued only to the tab its flow was started in.
Grows(t) ==
    /\ started' \in {started, started + 1}
    /\ \A n \in Started : origin'[n] = origin[n]
    /\ \A n \in Flows : code[n].status = "used" =>
         code'[n].status = "used" /\ code'[n].user = code[n].user
    /\ \A n \in Flows : code[n].status # "none" => code'[n].status # "none"
    /\ \A n \in Flows : code[n].status = "none" /\ code'[n].status # "none" =>
         n \in Started /\ origin[n].tab = t

\* The other tabs stay where they are.
OthersStand(t) ==
    \A u \in Tabs \ {t} :
        /\ at'[u] = at[u] /\ flow'[u] = flow[u] /\ refused'[u] = refused[u]
        /\ sent'[u] = sent[u] /\ holding'[u] = holding[u] /\ reply'[u] = reply[u]

LEMMA StartedGrows ==
    ASSUME TypeOK, NEW t, Grows(t)
    PROVE  Started \subseteq Started' /\ Started \subseteq Flows
  BY LoginAssumption DEF TypeOK, Grows, Started, Flows, LoginAssumption

LEMMA GenuineStays ==
    ASSUME TypeOK, NEW t, Grows(t), NEW c, NEW b, Genuine(c, b)
    PROVE  Genuine(c, b)' /\ origin'[c.verifier] = origin[c.verifier]
  BY StartedGrows DEF Grows, Genuine, CsrfName

LEMMA EarnedStays ==
    ASSUME TypeOK, NEW t, Grows(t), NEW s, NEW b, Earned(s, b)
    PROVE  Earned(s, b)' /\ origin'[s.flow] = origin[s.flow]
  BY StartedGrows DEF Grows, Earned, Lifetime

LEMMA EarnedJarStays ==
    ASSUME TypeOK, NEW t, Grows(t), NEW jar, NEW b, EarnedJar(jar, b)
    PROVE  EarnedJar(jar, b)'
  BY GenuineStays, EarnedStays DEF EarnedJar

\* What is true of a tab that stands still stays true.
LEMMA Elsewhere ==
    ASSUME IInv, NEW t \in Tabs, Grows(t), OthersStand(t), NEW u \in Tabs, u # t
    PROVE  TabInv(u)'
<1> USE DEF CsrfName
<1>1. TabInv(u) /\ TypeOK
  BY DEF IInv
<1>2. /\ at'[u] = at[u] /\ flow'[u] = flow[u] /\ refused'[u] = refused[u]
      /\ sent'[u] = sent[u] /\ holding'[u] = holding[u] /\ reply'[u] = reply[u]
  BY DEF OthersStand
<1>3. EarnedJar(sent[u], BrowserOf[u])'
  BY <1>1, <1>2, EarnedJarStays DEF TabInv, EarnedJar, Genuine, Earned
<1>4. \A c \in holding'[u] : Genuine(c, BrowserOf[u])'
  BY <1>1, <1>2, GenuineStays DEF TabInv
<1>5. ASSUME NEW n \in Started, origin[n].tab = u, code[n].status = "none"
      PROVE  n \in Started' /\ origin'[n].tab = u /\ code'[n].status = "none"
  BY <1>1, <1>5, StartedGrows DEF Grows
<1>6. ASSUME NEW n \in Started, code[n].status # "none"
      PROVE  n \in Started' /\ code'[n].status # "none"
  BY <1>1, <1>6, StartedGrows DEF Grows
<1>7. at[u] = "reply" => Replied(u)'
  <2> SUFFICES ASSUME at[u] = "reply" PROVE Replied(u)'
    OBVIOUS
  <2> DEFINE r == reply[u]
  <2>0. Replied(u)
    BY <1>1 DEF TabInv
  <2>1. \A c \in r.set : Genuine(c, BrowserOf[u])' /\ origin'[c.verifier].tab = u
    BY <1>1, <2>0, GenuineStays DEF Replied
  <2>2. \A n \in r.delete : n \in Started' /\ code'[n].status # "none"
    BY <2>0, <1>6 DEF Replied
  <2>3. r.session # NoCookie => Earned(r.session, BrowserOf[u])'
    BY <1>1, <1>2, <2>0, EarnedStays DEF Replied, Earned
  <2>4. r.kind = "login" =>
          /\ flow[u] \in Started' /\ origin'[flow[u]].tab = u /\ code'[flow[u]].status = "none"
          /\ \E c \in r.set : c.verifier = flow[u]
    BY <2>0, <1>5 DEF Replied
  <2>5. r.kind = "welcome" =>
          r.session.flow \in Started' /\ r.url = origin'[r.session.flow].page
    BY <1>1, <2>0, StartedGrows DEF Replied, Grows
  <2> QED
    BY <1>2, <2>1, <2>2, <2>3, <2>4, <2>5 DEF Replied
<1>8. Placed(u)'
  BY <1>1, <1>2, <1>5, <1>6 DEF TabInv, Placed
<1> QED
  BY <1>2, <1>3, <1>4, <1>7, <1>8 DEF TabInv

\* The cookies of the browsers stay genuine while no answer arrives.
LEMMA JarsStand ==
    ASSUME IInv, NEW t \in Tabs, Grows(t), UNCHANGED cookies, NEW b \in Browsers
    PROVE  EarnedJar(Jar(b), b)'
<1>1. TypeOK /\ EarnedJar(Jar(b), b) /\ Jar(b)' = Jar(b)
  BY DEF IInv, Jar, cookies
<1> QED
  BY <1>1, EarnedJarStays DEF EarnedJar, Genuine, Earned, CsrfName

\* So does a login, while nobody gets to the provider.
LEMMA SurvivalStands ==
    ASSUME IInv, NEW t \in Tabs, Grows(t), UNCHANGED <<clock, csrf>>,
           \A u \in Tabs : at'[u] = "authorize" => at[u] = "authorize" /\ flow'[u] = flow[u]
    PROVE  LoginSurvives'
<1> SUFFICES ASSUME NEW u \in Tabs, at'[u] = "authorize"
             PROVE  \/ clock' >= origin'[flow'[u]].made + CsrfLifetime
                    \/ \E c \in csrf'[BrowserOf[u]] :
                         /\ c.name = CsrfName(flow'[u]) /\ c.verifier = flow'[u]
                         /\ c.url = origin'[flow'[u]].page
  BY DEF LoginSurvives, CsrfName
<1>1. flow[u] \in Started /\ at[u] = "authorize" /\ flow'[u] = flow[u]
  BY DEF IInv, TabInv, Placed
<1>2. origin'[flow[u]] = origin[flow[u]]
  BY <1>1 DEF Grows
<1> QED
  BY <1>1, <1>2 DEF IInv, LoginSurvives

-----------------------------------------------------------------------------
(* Types *)

\* Cutting to whole seconds never adds time.
LEMMA WholeSecondsCut ==
    ASSUME NEW time \in Nat
    PROVE  WholeSeconds(time) \in Nat /\ WholeSeconds(time) <= time
<1> Second \in Nat \ {0}
  BY LoginAssumption DEF LoginAssumption
<1>1. time \div Second \in Nat /\ (time \div Second) * Second <= time
  OBVIOUS
<1> QED
  BY <1>1 DEF WholeSeconds

\* A session made now ends in time.
LEMMA ExpiryInTime ==
    ASSUME TypeOK
    PROVE  ExpiryOfSession \in Nat /\ ExpiryOfSession <= clock + Lifetime
<1>1. clock + Lifetime \in Nat
  BY LoginAssumption DEF TypeOK, Lifetime, LoginAssumption
<1> QED
  BY <1>1, WholeSecondsCut DEF ExpiryOfSession, Lifetime

LEMMA SilenceIsReply ==
    ASSUME NEW t \in Tabs
    PROVE  Silence(t) \in Replies
  BY DEF Silence, Replies, Kinds, Pages

LEMMA JarType ==
    ASSUME TypeOK, NEW b \in Browsers
    PROVE  Jar(b) \in Jars /\ NoJar \in Jars
  BY DEF TypeOK, Jar, Jars, NoJar

\* An answer of the server is one of the fields that the code sets.
LEMMA AnswerType ==
    ASSUME TypeOK, NEW t \in Tabs, NEW r \in Replies, Answer(t, r)
    PROVE  /\ reply' \in [Tabs -> Replies] /\ reply'[t] = r
           /\ at' \in [Tabs -> {"idle", "sent", "authorize", "callback", "exchange", "reply"}]
           /\ at'[t] = "reply"
           /\ sent' \in [Tabs -> Jars] /\ sent'[t] = NoJar
           /\ \A u \in Tabs \ {t} : reply'[u] = reply[u] /\ at'[u] = at[u] /\ sent'[u] = sent[u]
<1>1. NoJar \in Jars
  BY DEF NoJar, Jars
<1> QED
  BY <1>1 DEF TypeOK, Answer

LEMMA SendType ==
    ASSUME TypeOK, NEW t \in Tabs, NEW place \in {"sent", "callback"}, Send(t, place)
    PROVE  /\ at' \in [Tabs -> {"idle", "sent", "authorize", "callback", "exchange", "reply"}]
           /\ at'[t] = place
           /\ sent' \in [Tabs -> Jars] /\ sent'[t] = Jar(BrowserOf[t])
           /\ \A u \in Tabs \ {t} : at'[u] = at[u] /\ sent'[u] = sent[u]
<1>1. BrowserOf[t] \in Browsers
  BY LoginAssumption DEF LoginAssumption
<1>2. Jar(BrowserOf[t]) \in Jars
  BY <1>1, JarType
<1> QED
  BY <1>2 DEF TypeOK, Send

-----------------------------------------------------------------------------
(* The steps *)

LEMMA InitInv == Init => IInv
<1> SUFFICES ASSUME Init PROVE IInv
  OBVIOUS
<1> USE LoginAssumption DEF Init, LoginAssumption
<1>1. TypeOK
  <2>1. /\ clock \in 0 .. MaxTime /\ key \in 1 .. MaxKeys /\ copies \in 0 .. MaxCopies
        /\ started \in 0 .. MaxFlows
    OBVIOUS
  <2>2. origin \in [Flows -> [tab : Tabs, page : Pages, made : 0 .. MaxTime]]
    <3> DEFINE t == CHOOSE t \in Tabs : TRUE
    <3>1. t \in Tabs
      OBVIOUS
    <3>2. origin = [n \in Flows |-> [tab |-> t, page |-> PageOf[t], made |-> 0]]
      OBVIOUS
    <3> HIDE DEF t
    <3>3. PageOf[t] \in Pages /\ 0 \in 0 .. MaxTime
      BY <3>1 DEF Pages
    <3> HIDE DEF Init
    <3> QED
      BY <3>1, <3>2, <3>3
  <2>3. code \in [Flows -> Codes]
    BY DEF Codes
  <2>4. csrf \in [Browsers -> SUBSET CsrfCookies]
        /\ session \in [Browsers -> SessionCookies \union {NoCookie}]
    OBVIOUS
  <2>5. sent \in [Tabs -> Jars] /\ reply \in [Tabs -> Replies]
    BY SilenceIsReply DEF NoJar, Jars
  <2>6. /\ at \in [Tabs -> {"idle", "sent", "authorize", "callback", "exchange", "reply"}]
        /\ page \in [Tabs -> Pages] /\ flow \in [Tabs -> 0 .. MaxFlows]
        /\ refused \in [Tabs -> BOOLEAN] /\ holding \in [Tabs -> SUBSET CsrfCookies]
    BY DEF Pages
  <2> QED
    BY <2>1, <2>2, <2>3, <2>4, <2>5, <2>6 DEF TypeOK
<1>2. ASSUME NEW n \in Flows PROVE Challenged(n)
  BY DEF Challenged, Started, Flows
<1>3. ASSUME NEW b \in Browsers PROVE EarnedJar(Jar(b), b)
  BY DEF EarnedJar, Jar
<1>4. ASSUME NEW t \in Tabs PROVE TabInv(t)
  BY DEF TabInv, EarnedJar, NoJar, Placed
<1>5. LoginSurvives
  BY DEF LoginSurvives
<1> QED
  BY <1>1, <1>2, <1>3, <1>4, <1>5 DEF IInv

\* A step of tab t that moves no cookies of the browsers and no clock.
LEMMA TabStep ==
    ASSUME IInv, NEW t \in Tabs, TypeOK', Grows(t), OthersStand(t),
           UNCHANGED <<clock, cookies>>, at'[t] # "authorize",
           \A n \in Flows : Challenged(n)', TabInv(t)'
    PROVE  IInv'
<1>1. ASSUME NEW b \in Browsers PROVE EarnedJar(Jar(b), b)'
  BY JarsStand
<1>2. ASSUME NEW u \in Tabs PROVE TabInv(u)'
  BY Elsewhere
<1>3. LoginSurvives'
  BY SurvivalStands DEF OthersStand, cookies
<1> QED
  BY <1>1, <1>2, <1>3 DEF IInv

\* One that starts no flow and spends no code, in addition.
LEMMA QuietStep ==
    ASSUME IInv, NEW t \in Tabs, TypeOK', OthersStand(t), TabInv(t)',
           UNCHANGED <<clock, flows, code, cookies>>, at'[t] # "authorize"
    PROVE  IInv'
<1>1. Grows(t)
  BY DEF Grows, flows, IInv, TypeOK
<1>2. \A n \in Flows : Challenged(n)'
  BY DEF IInv, Challenged, Started, flows
<1> QED
  BY <1>1, <1>2, TabStep

\* What a tab still has when nothing was started or spent.
LEMMA NothingNew ==
    ASSUME IInv, UNCHANGED <<flows, code>>
    PROVE  /\ \A c, b : Genuine(c, b)' <=> Genuine(c, b)
           /\ \A s, b : Earned(s, b)' <=> Earned(s, b)
           /\ \A jar, b : EarnedJar(jar, b)' <=> EarnedJar(jar, b)
           /\ Started' = Started
  BY DEF Genuine, Earned, EarnedJar, Started, Lifetime, flows, CsrfName

\* A request that is sent carries the cookies of its browser.
LEMMA SentJar ==
    ASSUME IInv, NEW t \in Tabs
    PROVE  EarnedJar(Jar(BrowserOf[t]), BrowserOf[t]) /\ EarnedJar(NoJar, BrowserOf[t])
<1>1. BrowserOf[t] \in Browsers
  BY LoginAssumption DEF LoginAssumption
<1> QED
  BY <1>1 DEF IInv, EarnedJar, NoJar

LEMMA SendStep ==
    ASSUME IInv, NEW t \in Tabs, NEW place \in {"sent", "callback"}, Send(t, place),
           TypeOK', UNCHANGED <<clock, flows, code, cookies, holding>>,
           \A u \in Tabs \ {t} : UNCHANGED <<flow[u], refused[u], reply[u]>>,
           place = "sent" => reply'[t].kind = "none",
           place = "callback" /\ ~refused'[t] => flow'[t] \in Started /\ code[flow'[t]].status # "none"
    PROVE  IInv'
<1>1. /\ at'[t] = place /\ sent'[t] = Jar(BrowserOf[t])
      /\ \A u \in Tabs \ {t} : at'[u] = at[u] /\ sent'[u] = sent[u]
  BY SendType DEF IInv
<1>2. TabInv(t)'
  <2>1. EarnedJar(sent[t], BrowserOf[t])'
    BY <1>1, SentJar, NothingNew DEF EarnedJar, Genuine, Earned, Started, flows, Lifetime, CsrfName
  <2>2. \A c \in holding'[t] : Genuine(c, BrowserOf[t])'
    BY NothingNew DEF IInv, TabInv
  <2>3. Placed(t)'
    BY <1>1 DEF Placed, Started, flows
  <2> QED
    BY <1>1, <2>1, <2>2, <2>3 DEF TabInv
<1> QED
  BY <1>1, <1>2, QuietStep DEF OthersStand

\* An answer without cookies to set.
LEMMA AnswerStep ==
    ASSUME IInv, NEW t \in Tabs, NEW r \in Replies, Answer(t, r),
           r.kind \notin {"login", "welcome"}, r.set = {}, r.session = NoCookie,
           \A n \in r.delete : n \in Started /\ code[n].status # "none",
           UNCHANGED <<world, flows, code, cookies, page, flow, refused, holding>>
    PROVE  IInv'
<1>1. /\ reply' \in [Tabs -> Replies] /\ reply'[t] = r
      /\ at' \in [Tabs -> {"idle", "sent", "authorize", "callback", "exchange", "reply"}]
      /\ at'[t] = "reply"
      /\ sent' \in [Tabs -> Jars] /\ sent'[t] = NoJar
      /\ \A u \in Tabs \ {t} : reply'[u] = reply[u] /\ at'[u] = at[u] /\ sent'[u] = sent[u]
  BY AnswerType DEF IInv
<1>2. TypeOK'
  BY <1>1 DEF IInv, TypeOK, world, flows, cookies
<1>3. TabInv(t)'
  <2>1. EarnedJar(sent[t], BrowserOf[t])'
    BY <1>1 DEF EarnedJar, NoJar
  <2>2. \A c \in holding'[t] : Genuine(c, BrowserOf[t])'
    BY NothingNew DEF IInv, TabInv
  <2>3. Replied(t)'
    BY <1>1 DEF Replied, Started, flows
  <2>4. Placed(t)'
    BY <1>1 DEF Placed
  <2> QED
    BY <1>1, <2>1, <2>2, <2>3, <2>4 DEF TabInv
<1> QED
  BY <1>1, <1>2, <1>3, QuietStep DEF OthersStand, world

-----------------------------------------------------------------------------

LEMMA VisitInv == ASSUME IInv, NEW t \in Tabs, Visit(t) PROVE IInv'
<1>1. TypeOK /\ Send(t, "sent")
  BY DEF IInv, Visit
<1>2. reply' \in [Tabs -> Replies] /\ reply'[t].kind = "none"
  BY <1>1, SilenceIsReply DEF Visit, TypeOK, Silence
<1>3. page' \in [Tabs -> Pages]
  BY <1>1 DEF Visit, TypeOK, Pages
<1>4. TypeOK'
  BY <1>1, <1>2, <1>3, SendType DEF Visit, TypeOK, world, flows, cookies
<1>5. \A u \in Tabs \ {t} : reply'[u] = reply[u]
  BY <1>1 DEF Visit, TypeOK
<1> QED
  BY <1>1, <1>2, <1>4, <1>5, SendStep DEF Visit, world

LEMMA ServePageInv == ASSUME IInv, NEW t \in Tabs, ServePage(t) PROVE IInv'
<1> DEFINE r == [Silence(t) EXCEPT !.kind = "page", !.user = sent[t].session.user]
<1>1. sent[t].session \in SessionCookies
  BY DEF ServePage, IInv, TypeOK, Jars
<1>2. r \in Replies /\ r.kind = "page" /\ r.set = {} /\ r.delete = {} /\ r.session = NoCookie
  BY <1>1 DEF Silence, Replies, Kinds, Pages, SessionCookies
<1> QED
  BY <1>2, AnswerStep DEF ServePage

LEMMA RefuseSessionInv == ASSUME IInv, NEW t \in Tabs, RefuseSession(t) PROVE IInv'
<1> DEFINE r == [Silence(t) EXCEPT !.kind = "bad_session"]
<1>1. r \in Replies /\ r.kind = "bad_session" /\ r.set = {} /\ r.delete = {} /\ r.session = NoCookie
  BY DEF Silence, Replies, Kinds, Pages
<1> QED
  BY <1>1, AnswerStep DEF RefuseSession

LEMMA CallbackRefusedInv == ASSUME IInv, NEW t \in Tabs, CallbackRefused(t) PROVE IInv'
<1> DEFINE r == [Silence(t) EXCEPT !.kind = "bad_callback"]
<1>1. r \in Replies /\ r.kind = "bad_callback" /\ r.set = {} /\ r.delete = {} /\ r.session = NoCookie
  BY DEF Silence, Replies, Kinds, Pages
<1> QED
  BY <1>1, AnswerStep DEF CallbackRefused

LEMMA CallbackUnexpectedInv == ASSUME IInv, NEW t \in Tabs, CallbackUnexpected(t) PROVE IInv'
<1> DEFINE r == [Silence(t) EXCEPT !.kind = "bad_callback"]
           q == [Silence(t) EXCEPT !.kind = "bad_callback", !.delete = {CsrfName(flow[t])}]
<1>1. flow[t] \in Started /\ code[flow[t]].status # "none" /\ flow[t] \in 0 .. MaxFlows
  BY DEF CallbackUnexpected, IInv, TabInv, Placed, TypeOK
<1>2. r \in Replies /\ r.kind = "bad_callback" /\ r.set = {} /\ r.delete = {} /\ r.session = NoCookie
  BY DEF Silence, Replies, Kinds, Pages
<1>3. /\ q \in Replies /\ q.kind = "bad_callback" /\ q.set = {} /\ q.delete = {flow[t]}
      /\ q.session = NoCookie
  BY <1>1 DEF Silence, Replies, Kinds, Pages, CsrfName
<1> QED
  BY <1>1, <1>2, <1>3, AnswerStep DEF CallbackUnexpected

LEMMA ParseCsrfInv == ASSUME IInv, NEW t \in Tabs, ParseCsrf(t) PROVE IInv'
<1>1. TypeOK /\ TabInv(t) /\ NoJar \in Jars
  BY DEF IInv, NoJar, Jars
<1>2. Named(t) \subseteq sent[t].csrf /\ \A c \in Named(t) : c.name = CsrfName(flow[t])
  BY DEF Named
<1>3. sent[t].csrf \subseteq CsrfCookies
  BY <1>1 DEF TypeOK, Jars
<1>4. holding' \in [Tabs -> SUBSET CsrfCookies] /\ holding'[t] = Named(t)
  BY <1>1, <1>2, <1>3 DEF ParseCsrf, TypeOK
<1>5. /\ at' \in [Tabs -> {"idle", "sent", "authorize", "callback", "exchange", "reply"}]
      /\ sent' \in [Tabs -> Jars] /\ at'[t] = "exchange" /\ sent'[t] = NoJar
  BY <1>1 DEF ParseCsrf, TypeOK
<1>6. TypeOK'
  BY <1>1, <1>4, <1>5 DEF ParseCsrf, TypeOK, world, flows, cookies
<1>7. OthersStand(t)
  BY <1>1 DEF ParseCsrf, TypeOK, OthersStand
<1>8. \A c \in Named(t) : Genuine(c, BrowserOf[t])'
  BY <1>1, <1>2, NothingNew DEF TabInv, EarnedJar, ParseCsrf
<1>9. TabInv(t)'
  <2>1. EarnedJar(sent[t], BrowserOf[t])'
    BY <1>5 DEF EarnedJar, NoJar
  <2>2. Placed(t)'
    BY <1>1, <1>2, <1>4, <1>5 DEF ParseCsrf, TabInv, Placed, Started, flows, CsrfName
  <2> QED
    BY <1>4, <1>5, <1>8, <2>1, <2>2 DEF TabInv
<1> QED
  BY <1>5, <1>6, <1>7, <1>9, QuietStep DEF ParseCsrf, world

\* A login starts: the next flow is this tab's, and its cookie says so.
LEMMA StartLoginInv == ASSUME IInv, NEW t \in Tabs, StartLogin(t) PROVE IInv'
<1>1. TypeOK /\ TabInv(t)
  BY DEF IInv
<1>2. PICK n : n = started + 1
  OBVIOUS
<1>3. PICK c : c = [name |-> CsrfName(n), verifier |-> n, url |-> page[t], key |-> key,
                    made |-> clock]
  OBVIOUS
<1>4. PICK o : o = [tab |-> t, page |-> page[t], made |-> clock]
  OBVIOUS
<1>5. /\ n \in Flows /\ n \notin Started /\ started' = n
      /\ Started' = Started \union {n} /\ started' \in 0 .. MaxFlows
  <2>1. started \in 0 .. MaxFlows /\ started < MaxFlows /\ started' = started + 1 /\ MaxFlows \in Nat
    BY <1>1, LoginAssumption DEF StartLogin, TypeOK, LoginAssumption
  <2> QED
    BY <1>2, <2>1 DEF Started, Flows
<1>6. /\ origin' = [origin EXCEPT ![n] = o]
      /\ code' = [code EXCEPT ![n].challenge = n]
      /\ flow' = [flow EXCEPT ![t] = n]
  BY <1>2, <1>4 DEF StartLogin
<1>7. PICK k \in {"login", "500"}, set \in {{c}, {}} :
        /\ Answer(t, [Silence(t) EXCEPT !.kind = k, !.set = set])
        /\ k = "login" => set = {c}
  BY <1>2, <1>3 DEF StartLogin
<1>8. c \in CsrfCookies /\ o \in [tab : Tabs, page : Pages, made : 0 .. MaxTime]
  <2>1. page[t] \in Pages /\ clock \in 0 .. MaxTime /\ key \in 1 .. MaxKeys
    BY <1>1 DEF TypeOK
  <2>2. n \in 1 .. MaxFlows /\ n \in 0 .. MaxFlows
    BY <1>5, LoginAssumption DEF Flows, LoginAssumption
  <2> QED
    BY <1>3, <1>4, <2>1, <2>2 DEF CsrfCookies, CsrfName, Flows
<1>9. /\ origin' \in [Flows -> [tab : Tabs, page : Pages, made : 0 .. MaxTime]]
      /\ origin'[n] = o /\ \A m \in Flows \ {n} : origin'[m] = origin[m]
  BY <1>1, <1>5, <1>6, <1>8 DEF TypeOK
<1>10. /\ code' \in [Flows -> Codes]
       /\ code'[n].status = "none" /\ code'[n].challenge = n
       /\ \A m \in Flows : code'[m].status = code[m].status /\ code'[m].user = code[m].user
       /\ \A m \in Flows \ {n} : code'[m] = code[m]
  <2>1. code[n].status = "none" /\ code[n] \in Codes /\ code \in [Flows -> Codes]
    BY <1>1, <1>5 DEF IInv, TypeOK, Challenged
  <2>2. PICK d : d = [code[n] EXCEPT !.challenge = n]
    OBVIOUS
  <2>3. code' = [code EXCEPT ![n] = d]
    BY <1>6, <2>2
  <2>4. n \in 0 .. MaxFlows
    BY <1>5, LoginAssumption DEF Flows, LoginAssumption
  <2>5. d \in Codes /\ d.challenge = n /\ d.status = code[n].status /\ d.user = code[n].user
    BY <2>1, <2>2, <2>4 DEF Codes
  <2> QED
    BY <1>5, <2>1, <2>3, <2>5
<1>11. PICK r : r = [Silence(t) EXCEPT !.kind = k, !.set = set]
  OBVIOUS
<1>12. r \in Replies /\ r.kind = k /\ r.set = set /\ r.delete = {} /\ r.session = NoCookie
  BY <1>8, <1>11 DEF Silence, Replies, Kinds, Pages
<1>13. /\ reply' \in [Tabs -> Replies] /\ reply'[t] = r
       /\ at' \in [Tabs -> {"idle", "sent", "authorize", "callback", "exchange", "reply"}]
       /\ at'[t] = "reply"
       /\ sent' \in [Tabs -> Jars] /\ sent'[t] = NoJar
       /\ \A u \in Tabs \ {t} : reply'[u] = reply[u] /\ at'[u] = at[u] /\ sent'[u] = sent[u]
  BY <1>1, <1>7, <1>11, <1>12, AnswerType
<1>14. flow' \in [Tabs -> 0 .. MaxFlows] /\ flow'[t] = n /\ \A u \in Tabs \ {t} : flow'[u] = flow[u]
  <2>1. flow \in [Tabs -> 0 .. MaxFlows] /\ n \in 0 .. MaxFlows
    BY <1>1, <1>5, LoginAssumption DEF TypeOK, Flows, LoginAssumption
  <2> QED
    BY <1>6, <2>1
<1>15. TypeOK'
  BY <1>1, <1>5, <1>9, <1>10, <1>13, <1>14 DEF StartLogin, TypeOK, world, cookies
<1>16. Grows(t)
  <2>1. started' \in {started, started + 1}
    BY <1>2, <1>5
  <2>2. Started \subseteq Flows
    BY <1>1, LoginAssumption DEF TypeOK, Started, Flows, LoginAssumption
  <2> QED
    BY <1>5, <1>9, <1>10, <2>1, <2>2 DEF Grows
<1>17. \A m \in Flows : Challenged(m)'
  BY <1>1, <1>5, <1>10 DEF IInv, Challenged
<1>18. Genuine(c, BrowserOf[t])' /\ origin'[c.verifier].tab = t
  BY <1>3, <1>4, <1>5, <1>9 DEF Genuine, CsrfName
<1>19. TabInv(t)'
  <2>1. EarnedJar(sent[t], BrowserOf[t])'
    BY <1>13 DEF EarnedJar, NoJar
  <2>2. \A d \in holding'[t] : Genuine(d, BrowserOf[t])'
    BY <1>1, <1>16, GenuineStays DEF StartLogin, TabInv
  <2>3. Replied(t)'
    <3>1. \A d \in reply'[t].set : Genuine(d, BrowserOf[t])' /\ origin'[d.verifier].tab = t
      BY <1>12, <1>13, <1>18
    <3>2. reply'[t].kind = "login" =>
            /\ flow'[t] \in Started' /\ origin'[flow'[t]].tab = t /\ code'[flow'[t]].status = "none"
            /\ \E d \in reply'[t].set : d.verifier = flow'[t]
      BY <1>3, <1>4, <1>5, <1>7, <1>9, <1>10, <1>12, <1>13, <1>14
    <3> QED
      BY <1>12, <1>13, <3>1, <3>2 DEF Replied
  <2>4. Placed(t)'
    BY <1>13 DEF Placed
  <2> QED
    BY <1>13, <2>1, <2>2, <2>3, <2>4 DEF TabInv
<1>20. OthersStand(t)
  BY <1>13, <1>14 DEF StartLogin, OthersStand
<1> QED
  BY <1>13, <1>15, <1>16, <1>17, <1>19, <1>20, TabStep DEF StartLogin, world

LEMMA AuthorizeInv == ASSUME IInv, NEW t \in Tabs, Authorize(t) PROVE IInv'
<1>1. TypeOK /\ TabInv(t)
  BY DEF IInv
<1>2. PICK n : n = flow[t]
  OBVIOUS
<1>3. n \in Started /\ n \in Flows /\ origin[n].tab = t /\ code[n].status = "none"
  BY <1>1, <1>2, LoginAssumption
     DEF Authorize, TabInv, Placed, TypeOK, Started, Flows, LoginAssumption
<1>4. PICK u \in Users : code' = [code EXCEPT ![n] = [@ EXCEPT !.status = "issued", !.user = u]]
  BY <1>2 DEF Authorize
<1>5. /\ code' \in [Flows -> Codes] /\ code'[n].status = "issued" /\ code'[n].user = u
      /\ code'[n].challenge = code[n].challenge
      /\ \A m \in Flows \ {n} : code'[m] = code[m]
  <2>1. code[n] \in Codes /\ code \in [Flows -> Codes]
    BY <1>1, <1>3 DEF TypeOK
  <2>2. PICK d : d = [code[n] EXCEPT !.status = "issued", !.user = u]
    OBVIOUS
  <2>3. code' = [code EXCEPT ![n] = d]
    BY <1>4, <2>2
  <2>4. d \in Codes /\ d.status = "issued" /\ d.user = u /\ d.challenge = code[n].challenge
    BY <2>1, <2>2 DEF Codes
  <2> QED
    BY <1>3, <2>1, <2>3, <2>4
<1>6. /\ at' \in [Tabs -> {"idle", "sent", "authorize", "callback", "exchange", "reply"}]
      /\ at'[t] = "callback"
      /\ sent' \in [Tabs -> Jars] /\ sent'[t] = Jar(BrowserOf[t])
      /\ \A w \in Tabs \ {t} : at'[w] = at[w] /\ sent'[w] = sent[w]
  BY <1>1, SendType DEF Authorize
<1>7. refused' \in [Tabs -> BOOLEAN] /\ \A w \in Tabs \ {t} : refused'[w] = refused[w]
  BY <1>1 DEF Authorize, TypeOK
<1>8. TypeOK'
  BY <1>1, <1>5, <1>6, <1>7 DEF Authorize, TypeOK, world, flows, cookies
<1>9. Grows(t)
  BY <1>3, <1>5 DEF Authorize, Grows, flows
<1>10. \A m \in Flows : Challenged(m)'
  <2> SUFFICES ASSUME NEW m \in Flows PROVE Challenged(m)'
    OBVIOUS
  <2>1. Challenged(m) /\ Started' = Started /\ code'[m].challenge = code[m].challenge
    BY <1>5 DEF IInv, Authorize, Started, flows
  <2> QED
    BY <1>3, <1>5, <2>1 DEF Challenged
<1>11. TabInv(t)'
  <2>1. EarnedJar(sent[t], BrowserOf[t])'
    <3>1. BrowserOf[t] \in Browsers
      BY LoginAssumption DEF LoginAssumption
    <3>2. EarnedJar(Jar(BrowserOf[t]), BrowserOf[t])'
      BY <1>9, <3>1, JarsStand DEF Authorize
    <3>3. sent'[t] = Jar(BrowserOf[t])'
      BY <1>6 DEF Authorize, Jar, cookies
    <3> QED
      BY <3>2, <3>3 DEF EarnedJar, Genuine, Earned
  <2>2. \A c \in holding'[t] : Genuine(c, BrowserOf[t])'
    BY <1>1, <1>9, GenuineStays DEF Authorize, TabInv
  <2>3. Placed(t)'
    BY <1>2, <1>3, <1>5, <1>6 DEF Authorize, Placed, Started, flows
  <2> QED
    BY <1>6, <2>1, <2>2, <2>3 DEF TabInv
<1>12. OthersStand(t)
  BY <1>6, <1>7 DEF Authorize, OthersStand
<1> QED
  BY <1>6, <1>8, <1>9, <1>10, <1>11, <1>12, TabStep DEF Authorize, world

LEMMA DenyInv == ASSUME IInv, NEW t \in Tabs, Deny(t) PROVE IInv'
<1>1. TypeOK /\ Send(t, "callback")
  BY DEF IInv, Deny
<1>2. refused' \in [Tabs -> BOOLEAN] /\ refused'[t] /\ \A u \in Tabs \ {t} : refused'[u] = refused[u]
  BY <1>1 DEF Deny, TypeOK
<1>3. TypeOK'
  BY <1>1, <1>2, SendType DEF Deny, TypeOK, world, flows, cookies
<1> QED
  BY <1>1, <1>2, <1>3, SendStep DEF Deny, world

LEMMA OpenCallbackInv == ASSUME IInv, NEW t \in Tabs, OpenCallback(t) PROVE IInv'
<1>1. TypeOK /\ Send(t, "callback")
  BY DEF IInv, OpenCallback
<1>2. PICK n \in Flows : code[n].status # "none" /\ flow' = [flow EXCEPT ![t] = n]
  BY DEF OpenCallback
<1>3. n \in Started /\ n \in 0 .. MaxFlows
  BY <1>2, LoginAssumption DEF IInv, Challenged, Flows, LoginAssumption
<1>4. flow' \in [Tabs -> 0 .. MaxFlows] /\ flow'[t] = n /\ \A u \in Tabs \ {t} : flow'[u] = flow[u]
  BY <1>1, <1>2, <1>3 DEF TypeOK
<1>5. refused' \in [Tabs -> BOOLEAN] /\ \A u \in Tabs \ {t} : refused'[u] = refused[u]
  BY <1>1 DEF OpenCallback, TypeOK
<1>6. copies' \in 0 .. MaxCopies
  BY <1>1, LoginAssumption DEF OpenCallback, TypeOK, LoginAssumption
<1>7. TypeOK'
  BY <1>1, <1>4, <1>5, <1>6, SendType DEF OpenCallback, TypeOK, flows, cookies
<1> QED
  BY <1>1, <1>2, <1>3, <1>4, <1>5, <1>7, SendStep DEF OpenCallback

\* The provider takes the code of flow n, which stays what it was otherwise.
LEMMA Spend ==
    ASSUME TypeOK, NEW n \in Flows, code[n].status # "none",
           code' = [code EXCEPT ![n].status = "used"]
    PROVE  /\ code' \in [Flows -> Codes] /\ code'[n].status = "used"
           /\ code'[n].user = code[n].user /\ code'[n].challenge = code[n].challenge
           /\ \A m \in Flows \ {n} : code'[m] = code[m]
<1>1. code[n] \in Codes /\ code \in [Flows -> Codes]
  BY DEF TypeOK
<1>2. PICK d : d = [code[n] EXCEPT !.status = "used"]
  OBVIOUS
<1>3. code' = [code EXCEPT ![n] = d]
  BY <1>2
<1>4. d \in Codes /\ d.status = "used" /\ d.user = code[n].user /\ d.challenge = code[n].challenge
  BY <1>1, <1>2 DEF Codes
<1> QED
  BY <1>1, <1>3, <1>4

\* The answer to an exchange that does not fail, or does: the code is spent or not,
\* what tab t held is gone, and the cookie it held is deleted.
LEMMA ExchangeStep ==
    ASSUME IInv, NEW t \in Tabs, at[t] = "exchange", NEW r \in Replies, Answer(t, r),
           \/ UNCHANGED code
           \/ /\ code[flow[t]].status # "none"
              /\ code' = [code EXCEPT ![flow[t]].status = "used"],
           holding' = [holding EXCEPT ![t] = {}],
           UNCHANGED <<world, flows, cookies, page, flow, refused>>,
           r.set = {}, r.delete = {flow[t]}, r.kind # "login",
           r.session # NoCookie => Earned(r.session, BrowserOf[t])',
           r.kind = "welcome" =>
             r.session.flow \in Started /\ r.url = origin[r.session.flow].page
    PROVE  IInv'
<1>1. TypeOK /\ TabInv(t)
  BY DEF IInv
<1>2. PICK n : n = flow[t]
  OBVIOUS
<1>3. n \in Started /\ n \in Flows /\ code[n].status # "none"
  BY <1>1, <1>2, LoginAssumption DEF TabInv, Placed, TypeOK, Started, Flows, LoginAssumption
<1>4. /\ code' \in [Flows -> Codes] /\ code'[n].status \in {"used", code[n].status}
      /\ code'[n].user = code[n].user /\ code'[n].challenge = code[n].challenge
      /\ \A m \in Flows \ {n} : code'[m] = code[m]
  <2>1. CASE UNCHANGED code
    BY <1>1, <2>1 DEF TypeOK
  <2>2. CASE code' = [code EXCEPT ![n].status = "used"]
    BY <1>1, <1>3, <2>2, Spend
  <2> QED
    BY <1>2, <2>1, <2>2
<1>5. /\ reply' \in [Tabs -> Replies] /\ reply'[t] = r
      /\ at' \in [Tabs -> {"idle", "sent", "authorize", "callback", "exchange", "reply"}]
      /\ at'[t] = "reply"
      /\ sent' \in [Tabs -> Jars] /\ sent'[t] = NoJar
      /\ \A u \in Tabs \ {t} : reply'[u] = reply[u] /\ at'[u] = at[u] /\ sent'[u] = sent[u]
  BY <1>1, AnswerType
<1>6. /\ holding' \in [Tabs -> SUBSET CsrfCookies] /\ holding'[t] = {}
      /\ \A u \in Tabs \ {t} : holding'[u] = holding[u]
  BY <1>1 DEF TypeOK
<1>7. TypeOK'
  BY <1>1, <1>4, <1>5, <1>6 DEF TypeOK, world, flows, cookies
<1>8. Grows(t)
  BY <1>3, <1>4 DEF Grows, flows
<1>9. \A m \in Flows : Challenged(m)'
  <2> SUFFICES ASSUME NEW m \in Flows PROVE Challenged(m)'
    OBVIOUS
  <2>1. Challenged(m) /\ Started' = Started
    BY DEF IInv, Started, flows
  <2>2. CASE m = n
    BY <1>3, <1>4, <2>1, <2>2 DEF Challenged
  <2>3. CASE m # n
    BY <1>4, <2>1, <2>3 DEF Challenged
  <2> QED
    BY <2>2, <2>3
<1>10. TabInv(t)'
  <2>1. EarnedJar(sent[t], BrowserOf[t])'
    BY <1>5 DEF EarnedJar, NoJar
  <2>2. Replied(t)'
    <3>1. \A m \in r.delete : m \in Started' /\ code'[m].status # "none"
      BY <1>2, <1>3, <1>4 DEF Started, flows
    <3>2. r.kind = "welcome" =>
            r.session.flow \in Started' /\ r.url = origin'[r.session.flow].page
      BY DEF Started, flows
    <3>3. r.session # NoCookie => Earned(reply[t].session, BrowserOf[t])'
      BY <1>5 DEF Earned
    <3> QED
      BY <1>5, <3>1, <3>2, <3>3 DEF Replied
  <2>3. Placed(t)'
    BY <1>5 DEF Placed
  <2> QED
    BY <1>5, <1>6, <2>1, <2>2, <2>3 DEF TabInv
<1>11. OthersStand(t)
  BY <1>5, <1>6 DEF OthersStand
<1> QED
  BY <1>5, <1>7, <1>8, <1>9, <1>10, <1>11, TabStep DEF world

\* What the server redeems is the code of the flow whose cookie it holds.
LEMMA Redeemed ==
    ASSUME IInv, NEW t \in Tabs, at[t] = "exchange", NEW c \in holding[t]
    PROVE  /\ flow[t] \in Started /\ flow[t] \in Flows /\ code[flow[t]].status # "none"
           /\ code[flow[t]].user \in Users /\ c.name = flow[t] /\ Genuine(c, BrowserOf[t])
           /\ Redeemable(t, c) => c.verifier = flow[t]
<1>1. TypeOK /\ TabInv(t)
  BY DEF IInv
<1>2. flow[t] \in Started /\ flow[t] \in Flows
  BY <1>1, LoginAssumption DEF TabInv, Placed, TypeOK, Started, Flows, LoginAssumption
<1>3. Challenged(flow[t])
  BY <1>2 DEF IInv
<1> QED
  BY <1>1, <1>2, <1>3 DEF TabInv, Placed, Challenged, Redeemable, CsrfName

LEMMA ExchangeInv == ASSUME IInv, NEW t \in Tabs, Exchange(t) PROVE IInv'
<1>1. TypeOK /\ at[t] = "exchange"
  BY DEF IInv, Exchange
<1>2. PICK c \in holding[t] :
        /\ Redeemable(t, c)
        /\ code' = [code EXCEPT ![flow[t]].status = "used"]
        /\ Answer(t, [Silence(t) EXCEPT !.kind = "welcome", !.delete = {c.name}, !.url = c.url,
                        !.session = [user |-> code[flow[t]].user, expires |-> ExpiryOfSession,
                                     flow |-> flow[t], key |-> key, made |-> clock]])
  BY DEF Exchange
<1>3. /\ flow[t] \in Started /\ flow[t] \in Flows /\ code[flow[t]].status # "none"
      /\ code[flow[t]].user \in Users /\ c.name = flow[t] /\ Genuine(c, BrowserOf[t])
      /\ c.verifier = flow[t]
  BY <1>1, <1>2, Redeemed
<1>4. PICK s : s = [user |-> code[flow[t]].user, expires |-> ExpiryOfSession,
                    flow |-> flow[t], key |-> key, made |-> clock]
  OBVIOUS
<1>5. s \in SessionCookies /\ s.expires <= s.made + Lifetime
  BY <1>1, <1>3, <1>4, ExpiryInTime DEF SessionCookies, TypeOK
<1>6. PICK r : r = [Silence(t) EXCEPT !.kind = "welcome", !.delete = {c.name}, !.url = c.url,
                      !.session = s]
  OBVIOUS
<1>7. Answer(t, r)
  BY <1>2, <1>4, <1>6
<1>8. c \in CsrfCookies
  BY <1>1 DEF TypeOK
<1>9. /\ r \in Replies /\ r.kind = "welcome" /\ r.set = {} /\ r.delete = {flow[t]}
      /\ r.session = s /\ r.url = c.url
  <2>1. c.name \in 0 .. MaxFlows /\ c.url \in Pages
    BY <1>8 DEF CsrfCookies
  <2> QED
    BY <1>3, <1>5, <1>6, <2>1 DEF Silence, Replies, Kinds
<1>10. code'[flow[t]].status = "used" /\ code'[flow[t]].user = code[flow[t]].user
  BY <1>1, <1>2, <1>3, Spend
<1>11. Earned(s, BrowserOf[t])'
  <2>1. s.flow = flow[t] /\ s.user = code[flow[t]].user
    BY <1>4
  <2>2. started' = started /\ origin' = origin
    BY DEF Exchange, flows
  <2> QED
    BY <1>3, <1>5, <1>10, <2>1, <2>2 DEF Earned, Genuine, Started, Lifetime
<1>12. r.session.flow \in Started /\ r.url = origin[r.session.flow].page
  <2>1. r.session.flow = flow[t]
    BY <1>4, <1>9
  <2>2. c.url = origin[flow[t]].page
    BY <1>3 DEF Genuine
  <2> QED
    BY <1>3, <1>9, <2>1, <2>2
<1>13. Earned(r.session, BrowserOf[t])'
  BY <1>9, <1>11 DEF Earned
<1> QED
  BY <1>1, <1>2, <1>3, <1>7, <1>9, <1>12, <1>13, ExchangeStep DEF Exchange

LEMMA ExchangeFailsInv == ASSUME IInv, NEW t \in Tabs, ExchangeFails(t) PROVE IInv'
<1>1. TypeOK /\ at[t] = "exchange"
  BY DEF IInv, ExchangeFails
<1>2. PICK c \in holding[t] :
        /\ UNCHANGED code \/ code' = [code EXCEPT ![flow[t]].status = "used"]
        /\ \E kind \in {"bad_callback", "500"} :
             Answer(t, [Silence(t) EXCEPT !.kind = kind, !.delete = {c.name}])
  BY DEF ExchangeFails
<1>3. PICK kind \in {"bad_callback", "500"} :
        Answer(t, [Silence(t) EXCEPT !.kind = kind, !.delete = {c.name}])
  BY <1>2
<1>4. flow[t] \in Flows /\ code[flow[t]].status # "none" /\ c.name = flow[t]
  BY <1>1, Redeemed
<1>5. PICK r : r = [Silence(t) EXCEPT !.kind = kind, !.delete = {c.name}]
  OBVIOUS
<1>6. /\ r \in Replies /\ r.kind = kind /\ r.set = {} /\ r.delete = {flow[t]}
      /\ r.session = NoCookie
  <2>1. c.name \in 0 .. MaxFlows
    BY <1>1 DEF TypeOK, CsrfCookies
  <2>2. /\ r \in Replies /\ r.kind = kind /\ r.set = {} /\ r.delete = {c.name}
        /\ r.session = NoCookie
    BY <1>3, <1>5, <2>1 DEF Silence, Replies, Kinds, Pages
  <2> QED
    BY <1>4, <2>2
<1> QED
  BY <1>1, <1>2, <1>3, <1>4, <1>5, <1>6, ExchangeStep DEF ExchangeFails

LEMMA LoseInv == ASSUME IInv, NEW t \in Tabs, Lose(t) PROVE IInv'
<1>1. TypeOK /\ TabInv(t)
  BY DEF IInv
<1>2. /\ at' \in [Tabs -> {"idle", "sent", "authorize", "callback", "exchange", "reply"}]
      /\ at'[t] = "idle" /\ reply' \in [Tabs -> Replies]
  BY <1>1, SilenceIsReply DEF Lose, TypeOK
<1>3. TypeOK'
  BY <1>1, <1>2 DEF Lose, TypeOK, world, flows, cookies
<1>4. OthersStand(t)
  BY <1>1 DEF Lose, TypeOK, OthersStand
<1>5. TabInv(t)'
  <2>1. EarnedJar(sent[t], BrowserOf[t])'
    BY <1>1, NothingNew DEF Lose, TabInv, EarnedJar, Genuine, Earned, Started, flows, Lifetime
  <2>2. \A c \in holding'[t] : Genuine(c, BrowserOf[t])'
    BY <1>1, NothingNew DEF Lose, TabInv
  <2> QED
    BY <1>2, <2>1, <2>2 DEF TabInv, Placed
<1> QED
  BY <1>2, <1>3, <1>4, <1>5, QuietStep DEF Lose, world

-----------------------------------------------------------------------------

\* A step that neither starts a flow, nor spends a code, nor moves a tab.
LEMMA WorldStep ==
    ASSUME IInv, UNCHANGED <<flows, code, tab>>, TypeOK',
           \A b \in Browsers : csrf'[b] \subseteq csrf[b],
           \A b \in Browsers : session'[b] \in {session[b], NoCookie}, LoginSurvives'
    PROVE  IInv'
<1>1. \A n \in Flows : Challenged(n)'
  BY DEF IInv, Challenged, Started, flows
<1>2. ASSUME NEW b \in Browsers PROVE EarnedJar(Jar(b), b)'
  <2>1. EarnedJar(Jar(b), b)
    BY DEF IInv
  <2>2. csrf'[b] \subseteq csrf[b] /\ session'[b] \in {session[b], NoCookie}
    OBVIOUS
  <2> QED
    BY <2>1, <2>2 DEF EarnedJar, Jar, Genuine, Earned, Started, flows, Lifetime, CsrfName
<1>3. ASSUME NEW t \in Tabs PROVE TabInv(t)'
  <2>1. TabInv(t)
    BY DEF IInv
  <2>2. EarnedJar(sent[t], BrowserOf[t])'
    BY <2>1 DEF TabInv, EarnedJar, Genuine, Earned, Started, flows, tab, Lifetime, CsrfName
  <2>3. \A c \in holding'[t] : Genuine(c, BrowserOf[t])'
    BY <2>1, NothingNew DEF TabInv, tab
  <2>4. at'[t] = "reply" => Replied(t)'
    <3> SUFFICES ASSUME at[t] = "reply" PROVE Replied(t)'
      BY DEF tab
    <3> Replied(t)
      BY <2>1 DEF TabInv
    <3> QED
      BY DEF Replied, Genuine, Earned, Started, flows, tab, Lifetime, CsrfName
  <2>5. Placed(t)'
    BY <2>1 DEF TabInv, Placed, Started, flows, tab, CsrfName
  <2> QED
    BY <2>2, <2>3, <2>4, <2>5 DEF TabInv
<1> QED
  BY <1>1, <1>2, <1>3 DEF IInv

LEMMA TickInv == ASSUME IInv, Tick PROVE IInv'
<1>1. TypeOK /\ UNCHANGED <<key, copies, flows, code, tab>>
  BY DEF IInv, Tick
<1>2. /\ clock' = clock + 1 /\ clock' \in 0 .. MaxTime
      /\ csrf' = [b \in Browsers |-> {c \in csrf[b] : KeptCsrf(c, clock')}]
      /\ session' = [b \in Browsers |->
                       IF KeptSession(session[b], clock') THEN session[b] ELSE NoCookie]
  BY <1>1, LoginAssumption DEF Tick, TypeOK, LoginAssumption
<1>3. csrf' \in [Browsers -> SUBSET CsrfCookies]
  BY <1>1, <1>2 DEF TypeOK
<1>4. session' \in [Browsers -> SessionCookies \union {NoCookie}]
  BY <1>1, <1>2 DEF TypeOK
<1>5. TypeOK'
  BY <1>1, <1>2, <1>3, <1>4 DEF TypeOK, flows, tab
<1>6. LoginSurvives'
  <2> SUFFICES ASSUME NEW t \in Tabs, at[t] = "authorize", clock' < origin[flow[t]].made + CsrfLifetime
               PROVE  \E c \in csrf'[BrowserOf[t]] :
                        /\ c.name = CsrfName(flow[t]) /\ c.verifier = flow[t]
                        /\ c.url = origin[flow[t]].page
    <3>1. ASSUME NEW t \in Tabs, at[t] = "authorize"
          PROVE  clock' < origin[flow[t]].made + CsrfLifetime \/ clock' >= origin[flow[t]].made + CsrfLifetime
      <4>1. flow[t] \in Started /\ started \in 0 .. MaxFlows
        BY <1>1, <3>1 DEF IInv, TabInv, Placed, TypeOK
      <4>2. flow[t] \in Flows
        BY <4>1, LoginAssumption DEF Started, Flows, LoginAssumption
      <4>3. origin[flow[t]].made \in 0 .. MaxTime
        BY <1>1, <4>2 DEF TypeOK
      <4> QED
        BY <1>2, <4>3, LoginAssumption DEF LoginAssumption
    <3> QED
      BY <1>1, <3>1 DEF LoginSurvives, flows, tab, CsrfName
  <2>1. flow[t] \in Started
    BY DEF IInv, TabInv, Placed
  <2>2. BrowserOf[t] \in Browsers
    BY LoginAssumption DEF LoginAssumption
  <2>3. flow[t] \in Flows
    BY <1>1, <2>1, LoginAssumption DEF TypeOK, Started, Flows, LoginAssumption
  <2>4. clock \in 0 .. MaxTime /\ origin[flow[t]].made \in 0 .. MaxTime
    BY <1>1, <2>3 DEF TypeOK
  <2>5. ~(clock >= origin[flow[t]].made + CsrfLifetime)
    BY <1>2, <2>4, LoginAssumption DEF LoginAssumption
  <2>6. PICK c \in csrf[BrowserOf[t]] :
          /\ c.name = CsrfName(flow[t]) /\ c.verifier = flow[t] /\ c.url = origin[flow[t]].page
    BY <2>5 DEF IInv, LoginSurvives
  <2>7. c.made = origin[flow[t]].made
    BY <2>2, <2>6 DEF IInv, EarnedJar, Jar, Genuine
  <2>8. c \in csrf'[BrowserOf[t]]
    BY <1>2, <2>2, <2>7 DEF KeptCsrf
  <2> QED
    BY <2>6, <2>8
<1>7. ASSUME NEW b \in Browsers
      PROVE  csrf'[b] \subseteq csrf[b] /\ session'[b] \in {session[b], NoCookie}
  BY <1>2
<1> QED
  BY <1>1, <1>5, <1>6, <1>7, WorldStep

LEMMA ChangeSecretInv == ASSUME IInv, ChangeSecret PROVE IInv'
<1>1. TypeOK /\ UNCHANGED <<clock, copies, flows, code, cookies, tab>>
  BY DEF IInv, ChangeSecret
<1>2. TypeOK'
  BY <1>1, LoginAssumption DEF ChangeSecret, TypeOK, flows, cookies, tab, LoginAssumption
<1>3. LoginSurvives'
  BY <1>1 DEF IInv, LoginSurvives, flows, cookies, tab, CsrfName
<1> QED
  BY <1>1, <1>2, <1>3, WorldStep DEF cookies

\* The cookies a browser is left with are its own, or those of an answer to it.
LEMMA JarAfter ==
    ASSUME IInv, NEW t \in Tabs, at[t] = "reply", NEW jar, jar = After(BrowserOf[t], reply[t])
    PROVE  jar \in Jars /\ EarnedJar(jar, BrowserOf[t])
<1>1. /\ BrowserOf[t] \in Browsers /\ reply[t] \in Replies
      /\ csrf[BrowserOf[t]] \subseteq CsrfCookies
      /\ session[BrowserOf[t]] \in SessionCookies \union {NoCookie}
  BY LoginAssumption DEF IInv, TypeOK, LoginAssumption
<1>2. /\ reply[t].set \subseteq CsrfCookies
      /\ reply[t].session \in SessionCookies \union {NoCookie}
  BY <1>1 DEF Replies
<1>3. jar.csrf \subseteq csrf[BrowserOf[t]] \union reply[t].set
  BY DEF After
<1>4. /\ jar.session \in {session[BrowserOf[t]], reply[t].session}
      /\ jar = [csrf |-> jar.csrf, session |-> jar.session]
  BY DEF After
<1>5. jar \in Jars
  BY <1>1, <1>2, <1>3, <1>4 DEF Jars
<1>6. EarnedJar(Jar(BrowserOf[t]), BrowserOf[t]) /\ Replied(t)
  BY <1>1 DEF IInv, TabInv
<1> QED
  BY <1>3, <1>4, <1>5, <1>6 DEF EarnedJar, Jar, Replied

\* An answer to another tab leaves a tab at the provider the cookie of its flow.
LEMMA CookieStays ==
    ASSUME IInv, NEW t \in Tabs, at[t] = "reply", NEW u \in Tabs, u # t, at[u] = "authorize",
           BrowserOf[u] = BrowserOf[t], NEW c \in csrf[BrowserOf[u]], c.name = CsrfName(flow[u])
    PROVE  c \in After(BrowserOf[t], reply[t]).csrf
<1>1. Replied(t) /\ Placed(u)
  BY DEF IInv, TabInv
<1>2. origin[flow[u]].tab = u /\ code[flow[u]].status = "none"
  BY <1>1 DEF Placed
<1>3. c.name \notin reply[t].delete
  BY <1>1, <1>2 DEF Replied, CsrfName
<1>4. \A d \in reply[t].set : c.name # d.name
  BY <1>1, <1>2 DEF Replied, Genuine, CsrfName
<1> QED
  BY <1>3, <1>4 DEF After

LEMMA DeliverInv == ASSUME IInv, NEW t \in Tabs, Deliver(t) PROVE IInv'
<1>1. TypeOK /\ TabInv(t) /\ at[t] = "reply" /\ BrowserOf[t] \in Browsers
  BY LoginAssumption DEF IInv, Deliver, LoginAssumption
<1>2. UNCHANGED <<world, flows, code, flow, refused, holding>>
  BY DEF Deliver
<1>3. PICK r : r = reply[t]
  OBVIOUS
<1>4. PICK b : b = BrowserOf[t]
  OBVIOUS
<1>5. PICK jar : jar = After(b, r)
  OBVIOUS
<1>6. PICK place : place = CASE r.kind = "login" -> "authorize" [] r.kind = "welcome" -> "sent"
                             [] OTHER -> "idle"
  OBVIOUS
<1>7. r \in Replies /\ Replied(t)
  BY <1>1, <1>3 DEF TypeOK, TabInv
<1>8. jar \in Jars /\ EarnedJar(jar, b)
  BY <1>1, <1>3, <1>4, <1>5, JarAfter
<1>9. /\ csrf' = [csrf EXCEPT ![b] = jar.csrf]
      /\ session' = [session EXCEPT ![b] = jar.session]
      /\ at' = [at EXCEPT ![t] = place]
      /\ sent' = [sent EXCEPT ![t] = IF r.kind = "welcome" THEN jar ELSE @]
      /\ page' = [page EXCEPT ![t] = IF r.kind = "welcome" THEN r.url ELSE @]
      /\ reply' = [reply EXCEPT ![t] = IF r.kind \in {"login", "welcome"} THEN Silence(t) ELSE @]
  BY <1>3, <1>4, <1>5, <1>6 DEF Deliver
<1>10. /\ place \in {"authorize", "sent", "idle"}
       /\ place = "authorize" => r.kind = "login"
       /\ place = "sent" => r.kind = "welcome"
  BY <1>6
<1>11. /\ csrf' \in [Browsers -> SUBSET CsrfCookies] /\ csrf'[b] = jar.csrf
       /\ session' \in [Browsers -> SessionCookies \union {NoCookie}] /\ session'[b] = jar.session
       /\ \A d \in Browsers \ {b} : csrf'[d] = csrf[d] /\ session'[d] = session[d]
  BY <1>1, <1>4, <1>8, <1>9 DEF TypeOK, Jars
<1>12. /\ at' \in [Tabs -> {"idle", "sent", "authorize", "callback", "exchange", "reply"}]
       /\ at'[t] = place /\ \A u \in Tabs \ {t} : at'[u] = at[u]
  BY <1>1, <1>9, <1>10 DEF TypeOK
<1>13. /\ sent' \in [Tabs -> Jars] /\ sent'[t] \in {jar, sent[t]}
       /\ \A u \in Tabs \ {t} : sent'[u] = sent[u]
  BY <1>1, <1>8, <1>9 DEF TypeOK
<1>14. page' \in [Tabs -> Pages]
  BY <1>1, <1>7, <1>9 DEF TypeOK, Replies
<1>15. /\ reply' \in [Tabs -> Replies] /\ \A u \in Tabs \ {t} : reply'[u] = reply[u]
       /\ r.kind = "welcome" => reply'[t].kind = "none"
  <2>1. Silence(t) \in Replies /\ Silence(t).kind = "none"
    BY SilenceIsReply DEF Silence
  <2> QED
    BY <1>1, <1>9, <2>1 DEF TypeOK
<1>16. TypeOK'
  BY <1>1, <1>2, <1>11, <1>12, <1>13, <1>14, <1>15 DEF TypeOK, world, flows
<1>17. \A n \in Flows : Challenged(n)'
  BY <1>2 DEF IInv, Challenged, Started, flows
<1>18. ASSUME NEW d \in Browsers PROVE EarnedJar(Jar(d), d)'
  <2>1. EarnedJar(Jar(d), d)
    BY DEF IInv
  <2>2. CASE d = b
    BY <1>2, <1>8, <1>11, <2>2 DEF EarnedJar, Jar, Genuine, Earned, Started, flows, Lifetime, CsrfName
  <2>3. CASE d # b
    BY <1>2, <1>11, <2>1, <2>3
       DEF EarnedJar, Jar, Genuine, Earned, Started, flows, Lifetime, CsrfName
  <2> QED
    BY <2>2, <2>3
<1>19. TabInv(t)'
  <2>1. EarnedJar(sent[t], BrowserOf[t])'
    BY <1>1, <1>2, <1>4, <1>8, <1>13
       DEF TabInv, EarnedJar, Genuine, Earned, Started, flows, Lifetime, CsrfName
  <2>2. \A c \in holding'[t] : Genuine(c, BrowserOf[t])'
    BY <1>1, <1>2, NothingNew DEF TabInv
  <2>3. Placed(t)'
    <3>1. place = "authorize" =>
            /\ flow[t] \in Started' /\ origin'[flow[t]].tab = t /\ code'[flow[t]].status = "none"
      BY <1>2, <1>3, <1>7, <1>10 DEF Replied, Started, flows
    <3> QED
      BY <1>2, <1>10, <1>12, <1>15, <3>1 DEF Placed
  <2> QED
    BY <1>10, <1>12, <2>1, <2>2, <2>3 DEF TabInv
<1>20. OthersStand(t) /\ Grows(t)
  BY <1>2, <1>12, <1>13, <1>15 DEF OthersStand, Grows, flows
<1>21. ASSUME NEW u \in Tabs PROVE TabInv(u)'
  BY <1>19, <1>20, Elsewhere
<1>22. LoginSurvives'
  <2> SUFFICES ASSUME NEW u \in Tabs, at'[u] = "authorize",
                      ~(clock >= origin[flow[u]].made + CsrfLifetime)
               PROVE  \E c \in csrf'[BrowserOf[u]] :
                        /\ c.name = CsrfName(flow[u]) /\ c.verifier = flow[u]
                        /\ c.url = origin[flow[u]].page
    BY <1>2 DEF LoginSurvives, world, flows, CsrfName
  <2>0. BrowserOf[u] \in Browsers
    BY LoginAssumption DEF LoginAssumption
  <2>1. CASE u = t
    <3>1. r.kind = "login"
      BY <1>10, <1>12, <2>1
    <3>2. PICK c \in r.set : c.verifier = flow[t]
      BY <1>3, <1>7, <3>1 DEF Replied
    <3>3. Genuine(c, b)
      BY <1>3, <1>4, <1>7 DEF Replied
    <3>4. clock < c.made + CsrfLifetime
      <4>1. flow[t] \in Started /\ c.made = origin[flow[t]].made
        BY <3>2, <3>3 DEF Genuine
      <4>2. flow[t] \in Flows
        BY <1>1, <4>1, LoginAssumption DEF TypeOK, Started, Flows, LoginAssumption
      <4>3. clock \in 0 .. MaxTime /\ origin[flow[t]].made \in 0 .. MaxTime
        BY <1>1, <4>2 DEF TypeOK
      <4> QED
        BY <2>1, <4>1, <4>3, LoginAssumption DEF LoginAssumption
    <3>5. c \in csrf'[b]
      BY <1>5, <1>11, <3>4 DEF After, KeptCsrf
    <3> QED
      BY <1>4, <2>1, <3>2, <3>3, <3>5 DEF Genuine
  <2>2. CASE u # t
    <3>1. at[u] = "authorize"
      BY <1>12, <2>2
    <3>2. PICK c \in csrf[BrowserOf[u]] :
            /\ c.name = CsrfName(flow[u]) /\ c.verifier = flow[u] /\ c.url = origin[flow[u]].page
      BY <3>1 DEF IInv, LoginSurvives
    <3>3. CASE BrowserOf[u] = b
      BY <1>1, <1>3, <1>4, <1>5, <1>11, <2>2, <3>1, <3>2, <3>3, CookieStays
    <3>4. CASE BrowserOf[u] # b
      BY <1>11, <2>0, <3>2, <3>4
    <3> QED
      BY <3>3, <3>4
  <2> QED
    BY <2>1, <2>2
<1> QED
  BY <1>16, <1>17, <1>18, <1>21, <1>22 DEF IInv

-----------------------------------------------------------------------------

LEMMA StepInv == IInv /\ [Next]_vars => IInv'
<1> SUFFICES ASSUME IInv, [Next]_vars PROVE IInv'
  OBVIOUS
<1>1. CASE Tick
  BY <1>1, TickInv
<1>2. CASE ChangeSecret
  BY <1>2, ChangeSecretInv
<1>3. ASSUME NEW t \in Tabs, Server(t) PROVE IInv'
  BY <1>3, ServePageInv, RefuseSessionInv, StartLoginInv, CallbackRefusedInv,
     CallbackUnexpectedInv, ParseCsrfInv, ExchangeInv, ExchangeFailsInv DEF Server
<1>4. ASSUME NEW t \in Tabs, Visit(t) \/ Authorize(t) \/ Deny(t) \/ OpenCallback(t)
      PROVE  IInv'
  BY <1>4, VisitInv, AuthorizeInv, DenyInv, OpenCallbackInv
<1>5. ASSUME NEW t \in Tabs, Deliver(t) \/ Lose(t) PROVE IInv'
  BY <1>5, DeliverInv, LoseInv
<1>6. CASE UNCHANGED vars
  <2>1. /\ UNCHANGED <<flows, code, tab>> /\ UNCHANGED <<clock, key, copies, csrf, session>>
    BY <1>6 DEF vars, world, cookies
  <2>2. TypeOK'
    BY <2>1 DEF IInv, TypeOK, flows, tab
  <2>3. LoginSurvives'
    BY <2>1 DEF IInv, LoginSurvives, flows, tab, CsrfName
  <2> QED
    BY <2>1, <2>2, <2>3, WorldStep
<1> QED
  BY <1>1, <1>2, <1>3, <1>4, <1>5, <1>6 DEF Next

\* The invariant holds throughout.
THEOREM Invariance == Spec => []IInv
  BY InitInv, StepInv, PTL DEF Spec

-----------------------------------------------------------------------------

\* The cookies, requests and answers of a login stay within their types.
THEOREM TypeCorrect == Spec => []TypeOK
<1>1. IInv => TypeOK
  BY DEF IInv
<1> QED
  BY <1>1, Invariance, PTL

\* A session in a browser is of a flow started in that very browser, for the user
\* who logged in at its end (cookie.go: the state and the verifier of a login are in
\* a cookie of the browser, not in the server).
THEOREM SessionsEarned == Spec => []SessionEarned
<1>1. IInv => SessionEarned
  BY DEF IInv, EarnedJar, Earned, Jar, SessionEarned
<1> QED
  BY <1>1, Invariance, PTL

\* The redirection after a login is to the page that started it (cookie.go,
\* handleCodeExchange: the URL comes from the CSRF cookie).
THEOREM BackToOrigin == Spec => []ReturnsToOrigin
<1>1. IInv => ReturnsToOrigin
  BY DEF IInv, TabInv, Replied, ReturnsToOrigin
<1> QED
  BY <1>1, Invariance, PTL

\* What a login needs on its way back survives the logins of other tabs (cookie.go:
\* the name of the CSRF cookie holds the state).
THEOREM LoginsSurvive == Spec => []LoginSurvives
<1>1. IInv => LoginSurvives
  BY DEF IInv
<1> QED
  BY <1>1, Invariance, PTL

\* Only serving a page on a session answers with the page.
LEMMA OnlyServePage ==
    ASSUME IInv, [Next]_vars, NEW t \in Tabs, at[t] = "sent", reply'[t].kind = "page"
    PROVE  ServePage(t)
<1>1. TypeOK /\ reply[t].kind = "none"
  BY DEF IInv, TabInv, Placed
<1>2. ASSUME reply'[t] = reply[t] PROVE FALSE
  BY <1>1, <1>2
<1>3. CASE Tick \/ ChangeSecret \/ UNCHANGED vars
  BY <1>2, <1>3 DEF Tick, ChangeSecret, vars, tab
<1>4. ASSUME NEW u \in Tabs, u # t,
             \/ Visit(u) \/ Server(u) \/ Authorize(u) \/ Deny(u) \/ OpenCallback(u)
             \/ Deliver(u) \/ Lose(u)
      PROVE  FALSE
  <2>1. UNCHANGED reply \/ \E r : reply' = [reply EXCEPT ![u] = r]
    <3>1. CASE Visit(u) \/ Authorize(u) \/ Deny(u) \/ OpenCallback(u) \/ Lose(u)
      BY <3>1 DEF Visit, Authorize, Deny, OpenCallback, Lose
    <3>2. CASE Deliver(u)
      BY <3>2 DEF Deliver
    <3>3. CASE ServePage(u) \/ RefuseSession(u) \/ CallbackRefused(u)
      BY <3>3 DEF ServePage, RefuseSession, CallbackRefused, Answer
    <3>4. CASE CallbackUnexpected(u) \/ ParseCsrf(u)
      BY <3>4 DEF CallbackUnexpected, ParseCsrf, Answer
    <3>5. CASE StartLogin(u)
      BY <3>5 DEF StartLogin, Answer
    <3>6. CASE Exchange(u) \/ ExchangeFails(u)
      BY <3>6 DEF Exchange, ExchangeFails, Answer
    <3> QED
      BY <1>4, <3>1, <3>2, <3>3, <3>4, <3>5, <3>6 DEF Server
  <2>2. reply'[t] = reply[t]
    BY <1>1, <1>4, <2>1 DEF TypeOK
  <2> QED
    BY <1>2, <2>2
<1>5. ASSUME RefuseSession(t) \/ StartLogin(t) PROVE FALSE
  <2>1. PICK r : Answer(t, r) /\ r.kind \in {"bad_session", "login", "500"}
    <3>1. CASE RefuseSession(t)
      <4>1. [Silence(t) EXCEPT !.kind = "bad_session"].kind = "bad_session"
        BY DEF Silence
      <4> QED
        BY <3>1, <4>1 DEF RefuseSession
    <3>2. CASE StartLogin(t)
      <4>1. PICK k \in {"login", "500"} :
              \E set : Answer(t, [Silence(t) EXCEPT !.kind = k, !.set = set])
        BY <3>2 DEF StartLogin
      <4>2. \A set : [Silence(t) EXCEPT !.kind = k, !.set = set].kind = k
        BY DEF Silence
      <4> QED
        BY <4>1, <4>2
    <3> QED
      BY <1>5, <3>1, <3>2
  <2>2. reply'[t] = r
    BY <1>1, <2>1 DEF Answer, TypeOK
  <2> QED
    BY <2>1, <2>2
<1>6. ~ (\/ Visit(t) \/ Authorize(t) \/ Deny(t) \/ OpenCallback(t) \/ Deliver(t) \/ Lose(t)
         \/ CallbackRefused(t) \/ CallbackUnexpected(t) \/ ParseCsrf(t) \/ Exchange(t)
         \/ ExchangeFails(t))
  BY DEF Visit, Authorize, Deny, OpenCallback, Deliver, Lose, CallbackRefused,
         CallbackUnexpected, ParseCsrf, Exchange, ExchangeFails
<1> QED
  BY <1>3, <1>4, <1>5, <1>6 DEF Next, Server

\* A page is served on a session no later than its lifetime and the leeway after
\* the login that made it (session.ValidateClock, and the expiry cookie.go gives a
\* session).
THEOREM ServedWithinLifetime == Spec => ServedInTime
<1>1. ASSUME IInv, [Next]_vars, NEW t \in Tabs, at[t] = "sent", reply'[t].kind = "page"
      PROVE  clock <= sent[t].session.made + Leeway
                        + (IF MaxAge > 0 THEN MaxAge ELSE TokenLifetime)
  <2>1. ServePage(t)
    BY <1>1, OnlyServePage
  <2>2. PICK s : s = sent[t].session
    OBVIOUS
  <2>3. s \in SessionCookies /\ Earned(s, BrowserOf[t]) /\ ~Expired(s) /\ clock \in 0 .. MaxTime
    BY <1>1, <2>1, <2>2 DEF ServePage, IInv, TabInv, EarnedJar, TypeOK, Jars
  <2>4. s.expires \in Nat /\ s.made \in 0 .. MaxTime
    BY <2>3 DEF SessionCookies
  <2>5. s.expires <= s.made + Lifetime /\ ~(s.expires + Leeway < clock)
    BY <2>3 DEF Earned, Expired
  <2> QED
    BY <2>2, <2>3, <2>4, <2>5, LoginAssumption DEF LoginAssumption, Lifetime
<1>2. IInv /\ [Next]_vars =>
        [\A t \in Tabs : (at[t] = "sent" /\ reply'[t].kind = "page") =>
           clock <= sent[t].session.made + Leeway
                      + (IF MaxAge > 0 THEN MaxAge ELSE TokenLifetime)]_vars
  BY <1>1
<1> QED
  BY <1>2, Invariance, PTL DEF Spec, ServedInTime

=============================================================================
