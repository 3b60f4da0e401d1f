---------------------------- MODULE AuthFlow_proofs ----------------------------
(***************************************************************************)
(* What holds of sign-in and sign-out for any number of browsers, tabs,     *)
(* login requests and faults.                                               *)
(***************************************************************************)
EXTENDS AuthFlow, TLAPS

-----------------------------------------------------------------------------
(* The invariant *)

LoginRequest == [browser: Browsers, by: Browsers \cup {None},
                 mail: {"live", "none", "used", "expired"}]

Requested ==
  /\ requests \in Seq(LoginRequest)
  /\ \A i \in States : requests[i].by \in {None, requests[i].browser}
  /\ \A s \in sessions : s \in States /\ requests[s].mail = "used"

\* The login requests of a browser, and those whose credential is spent
Own(b) == {i \in States : requests[i].browser = b}
Spent(b) == {i \in Own(b) : requests[i].mail = "used"}
OwnStaged(b) == {Staged(i, i) : i \in Own(b)}

\* What a browser sends, and what an answer may put into its jar, comes from
\* its own login requests
OwnCookies(b) ==
  [state: Own(b) \cup {None}, pending: OwnStaged(b) \cup {None},
   session: Spent(b) \cup {None}]

OwnAnswer(b) ==
  [state: Own(b) \cup {None, Keep}, pending: OwnStaged(b) \cup {None, Keep},
   session: Spent(b) \cup {None, Keep}]

Sent(t) == tab[t].pc = "sent" /\ Cookies(t) \in OwnCookies(OwnerOf[t])

Answered(t) ==
  /\ tab[t].pc = "answered"
  /\ Cookies(t) \in OwnCookies(OwnerOf[t])
  /\ tab[t].reply.cookies \in OwnAnswer(OwnerOf[t])

Owned ==
  /\ jar = [b \in Browsers |-> jar[b]]
  /\ \A b \in Browsers : jar[b] \in OwnCookies(b)
  /\ tab = [t \in Tabs |-> tab[t]]
  /\ \A t \in Tabs : tab[t] = Idle \/ Sent(t) \/ Answered(t)

OwnInv == Requested /\ Owned

\* An answer that brings a browser a request state is the first to do so: no
\* jar, no other answer and no request in flight has it, and none consumed it.
Issues(t, i) == tab[t].pc = "answered" /\ tab[t].reply.cookies.state = i

IssuedOnce ==
  \A t \in Tabs, i \in States : Issues(t, i) =>
    /\ \A b \in Browsers : jar[b].state # i
    /\ \A u \in Tabs : tab[u] # Idle => Cookies(u).state # i
    /\ \A u \in Tabs \ {t} : ~Issues(u, i)
    /\ i \notin consumed

\* The answer to a confirmation takes the request state with what was staged.
TakesState ==
  \A t \in Tabs :
    (tab[t].pc = "answered" /\ tab[t].kind = "continue" /\ Cookies(t).pending # None)
      => tab[t].reply.cookies.state = None

ConsumedInv ==
  /\ consumed \subseteq States
  /\ IssuedOnce
  /\ TakesState
  /\ ConsumedStaysConsumed
-----------------------------------------------------------------------------
(* Login requests are kept *)

\* What a browser owns it goes on owning, and a spent credential stays spent.
KeepsRequests(before, after) ==
  /\ after \in Seq(LoginRequest)
  /\ Len(before) <= Len(after)
  /\ \A i \in 1..Len(before) :
       /\ after[i].browser = before[i].browser
       /\ before[i].mail = "used" => after[i].mail = "used"

LEMMA NewRequestKept ==
  ASSUME NEW before \in Seq(LoginRequest), NEW new \in LoginRequest
  PROVE  KeepsRequests(before, Append(before, new))
BY DEF KeepsRequests

LEMMA ChangedRequestKept ==
  ASSUME NEW before \in Seq(LoginRequest), NEW i \in 1..Len(before),
         NEW new \in LoginRequest, new.browser = before[i].browser,
         before[i].mail = "used" => new.mail = "used"
  PROVE  KeepsRequests(before, [before EXCEPT ![i] = new])
BY DEF KeepsRequests

LEMMA MailKept ==
  ASSUME Requested, NEW t \in Tabs, NEW mail \in {"live", "none"}, Mail(t, mail)
  PROVE  KeepsRequests(requests, requests')
<1> DEFINE new == [browser |-> OwnerOf[t], by |-> None, mail |-> mail]
<1>1. new \in LoginRequest
  BY OwnerOfAssumption DEF LoginRequest
<1>2. requests' = Append(requests, new)
  BY DEF Mail
<1> HIDE DEF new
<1> QED BY <1>1, <1>2, NewRequestKept DEF Requested

LEMMA VerifyKept ==
  ASSUME Requested, NEW b \in Browsers, NEW i \in States, Verify(b, i)
  PROVE  /\ KeepsRequests(requests, requests')
         /\ \E new \in LoginRequest :
              /\ requests' = [requests EXCEPT ![i] = new]
              /\ new.browser = requests[i].browser
              /\ new.mail = "used" /\ new.by = b
<1> DEFINE new == [requests[i] EXCEPT !.mail = "used", !.by = b]
<1>1. requests[i] \in LoginRequest /\ i \in 1..Len(requests)
  BY DEF Requested, States
<1>2. new \in LoginRequest /\ new.browser = requests[i].browser
      /\ new.mail = "used" /\ new.by = b
  BY <1>1 DEF LoginRequest
<1>3. requests' = [requests EXCEPT ![i] = new]
  BY <1>1 DEF Verify, Requested
<1> HIDE DEF new
<1>4. KeepsRequests(requests, requests')
  BY <1>1, <1>2, <1>3, ChangedRequestKept DEF Requested
<1> QED BY <1>2, <1>3, <1>4

LEMMA LinkExpiresKept ==
  ASSUME Requested, NEW i \in States, LinkExpires(i)
  PROVE  KeepsRequests(requests, requests')
<1> DEFINE new == [requests[i] EXCEPT !.mail = "expired"]
<1>1. requests[i] \in LoginRequest /\ i \in 1..Len(requests)
  BY DEF Requested, States
<1>2. new \in LoginRequest /\ new.browser = requests[i].browser
  BY <1>1 DEF LoginRequest
<1>3. requests[i].mail # "used" /\ requests' = [requests EXCEPT ![i] = new]
  BY DEF LinkExpires
<1> HIDE DEF new
<1> QED BY <1>1, <1>2, <1>3, ChangedRequestKept DEF Requested

\* The credential a confirmation spends is one of its browser's.
LEMMA StagedIsOwn ==
  ASSUME OwnInv, NEW t \in Tabs, tab[t].pc # "idle", StagedAccepted(Cookies(t))
  PROVE  /\ StagedIn(Cookies(t)).credential \in Own(OwnerOf[t])
         /\ StagedIn(Cookies(t)) \in OwnStaged(OwnerOf[t])
         /\ Cookies(t).pending # None
<1>1. Cookies(t) \in OwnCookies(OwnerOf[t])
  BY DEF OwnInv, Owned, Sent, Answered, Idle
<1>2. StagedIn(Cookies(t)) = Cookies(t).pending /\ Cookies(t).pending # None
  BY DEF StagedAccepted, StagedIn
<1> QED BY <1>1, <1>2 DEF OwnCookies, OwnStaged, Staged

LEMMA RequestsAreKept ==
  ASSUME OwnInv, [Next]_vars
  PROVE  KeepsRequests(requests, requests')
<1>0. requests \in Seq(LoginRequest) /\ KeepsRequests(requests, requests) /\ Requested
  BY DEF OwnInv, Requested, KeepsRequests
<1>1. ASSUME NEW t \in Tabs, Login(t) PROVE KeepsRequests(requests, requests')
  BY <1>0, <1>1, MailKept DEF Login
<1>2. ASSUME NEW t \in Tabs, Continue(t) PROVE KeepsRequests(requests, requests')
  <2>1. CASE UNCHANGED requests
    BY <1>0, <2>1
  <2>2. CASE /\ StagedAccepted(Cookies(t))
             /\ Verify(OwnerOf[t], StagedIn(Cookies(t)).credential)
    <3>1. StagedIn(Cookies(t)).credential \in States /\ OwnerOf[t] \in Browsers
      BY <1>2, <2>2, StagedIsOwn, OwnerOfAssumption DEF Own, Continue, Asks
    <3> QED BY <1>0, <2>2, <3>1, VerifyKept
  <2> QED BY <1>2, <2>1, <2>2 DEF Continue, ProviderRefuses
<1>3. ASSUME NEW i \in States, LinkExpires(i) PROVE KeepsRequests(requests, requests')
  BY <1>0, <1>3, LinkExpiresKept
<1>4. ASSUME NEW t \in Tabs, \/ AskLogin(t) \/ PressContinue(t) \/ PressLogout(t)
                              \/ VisitPage(t) \/ Confirm(t) \/ Logout(t) \/ Visit(t)
                              \/ Deliver(t) \/ Lose(t)
                              \/ \E link \in States : OpenLink(t, link)
      PROVE  UNCHANGED requests
  BY <1>4 DEF AskLogin, PressContinue, PressLogout, VisitPage, OpenLink, Send,
              Confirm, Logout, Visit, Deliver, Lose
<1>5. ASSUME NEW b \in Browsers, CookieExpires(b) PROVE UNCHANGED requests
  BY <1>5 DEF CookieExpires
<1> QED BY <1>0, <1>1, <1>2, <1>3, <1>4, <1>5 DEF Next, Handle, vars

LEMMA OwnGrows ==
  ASSUME OwnInv, [Next]_vars, NEW b
  PROVE  /\ States \subseteq States'
         /\ Own(b) \subseteq Own(b)' /\ Spent(b) \subseteq Spent(b)'
         /\ OwnCookies(b) \subseteq OwnCookies(b)'
         /\ OwnAnswer(b) \subseteq OwnAnswer(b)'
<1>1. KeepsRequests(requests, requests') /\ requests \in Seq(LoginRequest)
  BY RequestsAreKept DEF OwnInv, Requested
<1>2. States \subseteq States'
  BY <1>1 DEF KeepsRequests, States
<1>3. Own(b) \subseteq Own(b)' /\ Spent(b) \subseteq Spent(b)'
  BY <1>1, <1>2 DEF KeepsRequests, Own, Spent, States
<1>4. OwnStaged(b) \subseteq OwnStaged(b)'
  BY <1>3 DEF OwnStaged
<1> QED BY <1>2, <1>3, <1>4 DEF OwnCookies, OwnAnswer
-----------------------------------------------------------------------------
(* Cookies and answers stay with the browser whose requests they are of *)

LEMMA RequestedStays ==
  ASSUME OwnInv, [Next]_vars
  PROVE  Requested'
<1> USE DEF Requested
<1>0. /\ requests \in Seq(LoginRequest)
      /\ requests' \in Seq(LoginRequest) /\ KeepsRequests(requests, requests')
  BY RequestsAreKept DEF OwnInv, KeepsRequests
<1>1. ASSUME UNCHANGED requests, sessions' \subseteq sessions PROVE Requested'
  BY <1>1 DEF OwnInv, States
<1>2. ASSUME NEW t \in Tabs, Login(t) PROVE Requested'
  <2>1. UNCHANGED sessions
    BY <1>2 DEF Login
  <2>2. CASE UNCHANGED requests
    BY <1>1, <2>1, <2>2
  <2>3. ASSUME NEW mail, Mail(t, mail) PROVE Requested'
    <3>1. \A i \in States' : /\ i \in States => requests'[i] = requests[i]
                             /\ i \notin States => requests'[i].by = None
      BY <1>0, <2>3 DEF Mail, States
    <3>2. \A i \in States : i \in States'
      BY <1>0 DEF KeepsRequests, States
    <3> QED BY <1>0, <2>1, <3>1, <3>2 DEF OwnInv
  <2> QED BY <1>2, <2>2, <2>3 DEF Login
<1>3. ASSUME NEW t \in Tabs, Continue(t) PROVE Requested'
  <2>1. CASE UNCHANGED <<requests, sessions>>
    BY <1>1, <2>1
  <2>2. CASE /\ StagedAccepted(Cookies(t))
             /\ Verify(OwnerOf[t], StagedIn(Cookies(t)).credential)
    <3> DEFINE i == StagedIn(Cookies(t)).credential
               b == OwnerOf[t]
    <3>1. i \in States /\ requests[i].browser = b /\ b \in Browsers
      BY <1>3, <2>2, StagedIsOwn, OwnerOfAssumption DEF Own, Continue, Asks
    <3> HIDE DEF i, b
    <3>2. PICK new \in LoginRequest :
            /\ requests' = [requests EXCEPT ![i] = new]
            /\ new.browser = requests[i].browser
            /\ new.mail = "used" /\ new.by = b
      BY <2>2, <3>1, VerifyKept DEF OwnInv, i, b
    <3>3. i \in 1..Len(requests) /\ sessions' = sessions \cup {i}
      BY <2>2, <3>1 DEF States, Verify, i
    <3>4. States' = States
      BY <1>0, <3>2 DEF States
    <3>5. /\ requests'[i].by = b /\ requests'[i].browser = b
          /\ requests'[i].mail = "used"
          /\ \A j \in States \ {i} : requests'[j] = requests[j]
      BY <1>0, <3>1, <3>2, <3>3 DEF States
    <3> QED BY <1>0, <3>1, <3>2, <3>3, <3>4, <3>5 DEF OwnInv
  <2> QED BY <1>3, <2>1, <2>2 DEF Continue, ProviderRefuses
<1>4. ASSUME NEW i \in States, LinkExpires(i) PROVE Requested'
  <2>1. /\ requests[i] \in LoginRequest /\ requests[i].mail = "live"
        /\ requests' = [requests EXCEPT ![i].mail = "expired"] /\ sessions' = sessions
    BY <1>0, <1>4 DEF States, LinkExpires
  <2>2. /\ States' = States
        /\ \A j \in States : /\ requests'[j].by = requests[j].by
                             /\ requests'[j].browser = requests[j].browser
        /\ \A j \in States \ {i} : requests'[j].mail = requests[j].mail
    BY <1>0, <2>1 DEF States, LoginRequest
  <2> QED BY <1>0, <2>1, <2>2 DEF OwnInv
<1>5. ASSUME NEW t \in Tabs, \/ AskLogin(t) \/ PressContinue(t) \/ PressLogout(t)
                              \/ VisitPage(t) \/ Confirm(t) \/ Logout(t) \/ Visit(t)
                              \/ Deliver(t) \/ Lose(t)
                              \/ \E link \in States : OpenLink(t, link)
      PROVE  UNCHANGED requests /\ sessions' \subseteq sessions
  BY <1>5 DEF AskLogin, PressContinue, PressLogout, VisitPage, OpenLink, Send,
              Confirm, Logout, Visit, Deliver, Lose
<1>6. ASSUME NEW b \in Browsers, CookieExpires(b)
      PROVE  UNCHANGED requests /\ sessions' \subseteq sessions
  BY <1>6 DEF CookieExpires
<1> QED BY <1>1, <1>2, <1>3, <1>4, <1>5, <1>6 DEF Next, Handle, vars

\* A tab that goes on, with the others as they were.
TabsOwned ==
  /\ tab = [t \in Tabs |-> tab[t]]
  /\ \A t \in Tabs : tab[t] = Idle \/ Sent(t) \/ Answered(t)

JarsOwned ==
  /\ jar = [b \in Browsers |-> jar[b]]
  /\ \A b \in Browsers : jar[b] \in OwnCookies(b)

LEMMA OtherTabsOwned ==
  ASSUME OwnInv, [Next]_vars, NEW t \in Tabs, NEW rec,
         tab' = [tab EXCEPT ![t] = rec],
         \/ rec = Idle
         \/ rec.pc = "sent" /\ rec.cookies \in OwnCookies(OwnerOf[t])
         \/ /\ rec.pc = "answered"
            /\ rec.cookies \in OwnCookies(OwnerOf[t])
            /\ rec.reply.cookies \in OwnAnswer(OwnerOf[t])'
  PROVE  TabsOwned'
<1>1. \A u \in Tabs : /\ OwnCookies(OwnerOf[u]) \subseteq OwnCookies(OwnerOf[u])'
                      /\ OwnAnswer(OwnerOf[u]) \subseteq OwnAnswer(OwnerOf[u])'
  BY OwnGrows
<1>2. tab' = [u \in Tabs |-> tab'[u]]
  BY DEF OwnInv, Owned
<1>3. tab'[t] = rec /\ \A u \in Tabs \ {t} : tab'[u] = tab[u]
  BY DEF OwnInv, Owned
<1>4. ASSUME NEW u \in Tabs PROVE (tab[u] = Idle \/ Sent(u) \/ Answered(u))'
  <2>1. CASE u = t
    BY <1>1, <1>3, <2>1 DEF Sent, Answered, Cookies
  <2>2. CASE u # t
    BY <1>1, <1>3, <2>2 DEF Sent, Answered, Cookies, OwnInv, Owned
  <2> QED BY <2>1, <2>2
<1> QED BY <1>2, <1>4 DEF TabsOwned

\* An answer is owned when its cookies are.
LEMMA AnswerOwned ==
  ASSUME OwnInv, [Next]_vars, NEW t \in Tabs, tab[t].pc = "sent", NEW reply,
         Respond(t, reply), reply.cookies \in OwnAnswer(OwnerOf[t])'
  PROVE  TabsOwned'
<1> DEFINE rec == [pc |-> "answered", kind |-> tab[t].kind,
                   cookies |-> tab[t].cookies, reply |-> reply]
<1>1. tab' = [tab EXCEPT ![t] = rec]
  BY DEF Respond
<1>2. Cookies(t) \in OwnCookies(OwnerOf[t])
  BY DEF OwnInv, Owned, Sent, Answered, Idle
<1>3. /\ rec.pc = "answered" /\ rec.cookies = Cookies(t) /\ rec.reply = reply
  BY DEF Cookies
<1> HIDE DEF rec
<1> QED BY <1>1, <1>2, <1>3, OtherTabsOwned

\* A request has cookies of its jar.
LEMMA RequestOwned ==
  ASSUME OwnInv, NEW t \in Tabs, NEW kind, NEW read, NEW input
  PROVE  /\ Request(t, kind, read, input).pc = "sent"
         /\ Request(t, kind, read, input).cookies \in OwnCookies(OwnerOf[t])
<1>1. OwnerOf[t] \in Browsers
  BY OwnerOfAssumption
<1>2. jar[OwnerOf[t]] \in OwnCookies(OwnerOf[t])
  BY <1>1 DEF OwnInv, Owned
<1> QED BY <1>2 DEF Request, OwnCookies

LEMMA SendOwned ==
  ASSUME OwnInv, [Next]_vars, NEW t \in Tabs,
         \/ AskLogin(t) \/ PressContinue(t) \/ PressLogout(t) \/ VisitPage(t)
         \/ \E link \in States : OpenLink(t, link)
  PROVE  TabsOwned' /\ UNCHANGED jar
<1>2. ASSUME NEW rec, Send(t, rec), rec.pc = "sent",
             rec.cookies \in OwnCookies(OwnerOf[t])
      PROVE  TabsOwned' /\ UNCHANGED jar
  BY <1>2, OtherTabsOwned DEF Send
<1>3. CASE AskLogin(t) \/ PressContinue(t) \/ PressLogout(t) \/ VisitPage(t)
  BY <1>2, <1>3, RequestOwned DEF AskLogin, PressContinue, PressLogout, VisitPage
<1>4. CASE \E link \in States : OpenLink(t, link)
  BY <1>2, <1>4, RequestOwned DEF OpenLink
<1> QED BY <1>3, <1>4
LEMMA JarsKept ==
  ASSUME OwnInv, [Next]_vars, UNCHANGED jar
  PROVE  JarsOwned'
BY OwnGrows DEF OwnInv, Owned, JarsOwned

LEMMA LoginOwned ==
  ASSUME OwnInv, [Next]_vars, NEW t \in Tabs, Login(t)
  PROVE  TabsOwned'
<1> DEFINE b == OwnerOf[t]
<1>1. tab[t].pc = "sent"
  BY DEF Login, Asks
<1>2. ASSUME NEW status, Respond(t, Reply(Untouched, status)) PROVE TabsOwned'
  <2>1. Reply(Untouched, status).cookies \in OwnAnswer(b)'
    BY DEF Reply, Untouched, OwnAnswer
  <2> QED BY <1>1, <1>2, <2>1, AnswerOwned
<1>3. ASSUME NEW status, NEW mail \in {"live", "none"}, Mail(t, mail),
             Respond(t, Reply([Untouched EXCEPT !.state = Len(requests) + 1], status))
      PROVE  TabsOwned'
  <2>1. requests \in Seq(LoginRequest)
    BY DEF OwnInv, Requested
  <2>2. Len(requests) + 1 \in Own(b)'
    BY <1>3, <2>1 DEF Mail, Own, States
  <2>3. Reply([Untouched EXCEPT !.state = Len(requests) + 1], status).cookies =
          [state |-> Len(requests) + 1, pending |-> Keep, session |-> Keep]
    BY DEF Reply, Untouched
  <2>4. Reply([Untouched EXCEPT !.state = Len(requests) + 1], status).cookies
          \in OwnAnswer(b)'
    BY <2>2, <2>3 DEF OwnAnswer
  <2> QED BY <1>1, <1>3, <2>4, AnswerOwned
<1> QED BY <1>2, <1>3 DEF Login

LEMMA ConfirmOwned ==
  ASSUME OwnInv, [Next]_vars, NEW t \in Tabs, Confirm(t)
  PROVE  TabsOwned'
<1> DEFINE b == OwnerOf[t]  link == tab[t].input
<1>1. tab[t].pc = "sent" /\ Cookies(t) \in OwnCookies(b)
  BY DEF Confirm, Asks, OwnInv, Owned, Sent, Answered, Idle
<1>2. CASE ~StateAccepted(Cookies(t), link)
  <2>1. Reply(Untouched, "confirmation_error").cookies \in OwnAnswer(b)'
    BY DEF Reply, Untouched, OwnAnswer
  <2> QED BY <1>1, <1>2, <2>1, AnswerOwned DEF Confirm
<1>3. CASE StateAccepted(Cookies(t), link)
  <2>1. link \in Own(b)
    BY <1>1, <1>3 DEF StateAccepted, OwnCookies
  <2>2. Staged(link, link) \in OwnStaged(b)
    BY <2>1 DEF OwnStaged
  <2>3. Reply(Stage(Untouched, link), "continue").cookies =
          [state |-> Keep, pending |-> Staged(link, link), session |-> Keep]
    BY DEF Reply, Stage, Untouched
  <2> HIDE DEF link
  <2>4. Reply(Stage(Untouched, link), "continue").cookies \in OwnAnswer(b)
    BY <2>2, <2>3 DEF OwnAnswer
  <2>5. Respond(t, Reply(Stage(Untouched, link), "continue"))
    BY <1>3 DEF Confirm, link
  <2> QED BY <1>1, <2>4, <2>5, OwnGrows, AnswerOwned
<1> QED BY <1>2, <1>3

LEMMA ContinueOwned ==
  ASSUME OwnInv, [Next]_vars, NEW t \in Tabs, Continue(t)
  PROVE  TabsOwned'
<1> DEFINE b == OwnerOf[t]
           staged == StagedIn(Cookies(t))
           cleared == Taken(Untouched, staged)
<1>1. tab[t].pc = "sent"
  BY DEF Continue, Asks
<1>2. /\ cleared.state \in {None, Keep}
      /\ cleared = [state |-> cleared.state, pending |-> None, session |-> Keep]
  <2> HIDE DEF staged
  <2>1. cleared = [state |-> IF staged = None THEN Keep ELSE None,
                   pending |-> None, session |-> Keep]
    <3>1. CASE staged = None
      BY <3>1 DEF Taken, Untouched
    <3>2. CASE staged # None
      BY <3>2 DEF Taken, Untouched
    <3> QED BY <3>1, <3>2
  <2> HIDE DEF cleared
  <2> QED BY <2>1
<1> HIDE DEF cleared
<1>3. CASE Respond(t, Reply(cleared, "confirmation_error"))
  <2>1. Reply(cleared, "confirmation_error").cookies \in OwnAnswer(b)'
    BY <1>2 DEF Reply, OwnAnswer
  <2> QED BY <1>1, <1>3, <2>1, AnswerOwned
<1>4. CASE /\ StagedAccepted(Cookies(t)) /\ Verify(b, staged.credential)
           /\ Respond(t, Reply([cleared EXCEPT !.session = staged.credential],
                               "confirmed"))
  <2> DEFINE i == staged.credential
             reply == Reply([cleared EXCEPT !.session = i], "confirmed")
  <2>1. i \in Own(b) /\ i \in States /\ b \in Browsers
    BY <1>1, <1>4, StagedIsOwn, OwnerOfAssumption DEF Own
  <2> HIDE DEF i
  <2>2. requests'[i].mail = "used"
    <3>1. Verify(b, i)
      BY <1>4 DEF i
    <3> HIDE DEF b
    <3>2. PICK new \in LoginRequest :
            requests' = [requests EXCEPT ![i] = new] /\ new.mail = "used"
      BY <2>1, <3>1, VerifyKept DEF OwnInv
    <3> QED BY <2>1, <3>2 DEF OwnInv, Requested, States
  <2>4. i \in Spent(b)'
    BY <2>1, <2>2, OwnGrows DEF Spent
  <2>5. reply.cookies = [state |-> cleared.state, pending |-> None, session |-> i]
    BY <1>2 DEF Reply
  <2>6. reply.cookies \in OwnAnswer(b)'
    BY <1>2, <2>4, <2>5 DEF OwnAnswer
  <2>7. Respond(t, reply)
    BY <1>4 DEF i
  <2> HIDE DEF reply
  <2> QED BY <1>1, <2>6, <2>7, AnswerOwned
<1> QED BY <1>3, <1>4 DEF Continue, cleared

LEMMA LogoutOwned ==
  ASSUME OwnInv, [Next]_vars, NEW t \in Tabs, Logout(t)
  PROVE  TabsOwned'
<1>1. tab[t].pc = "sent"
  BY DEF Logout, Asks
<1>2. ASSUME NEW status, NEW cookies \in {Untouched, [Untouched EXCEPT !.session = None]},
             Respond(t, Reply(cookies, status))
      PROVE  TabsOwned'
  <2>1. Reply(cookies, status).cookies \in OwnAnswer(OwnerOf[t])'
    BY DEF Reply, Untouched, OwnAnswer
  <2> QED BY <1>1, <1>2, <2>1, AnswerOwned
<1> QED BY <1>2 DEF Logout

LEMMA VisitOwned ==
  ASSUME OwnInv, [Next]_vars, NEW t \in Tabs, Visit(t)
  PROVE  TabsOwned'
<1> DEFINE b == OwnerOf[t]
<1>1. tab[t].pc = "sent" /\ Cookies(t) \in OwnCookies(b)
  BY DEF Visit, Asks, OwnInv, Owned, Sent, Answered, Idle
<1>2. PICK session \in Refreshed(Cookies(t)) :
        Respond(t, Reply([Untouched EXCEPT !.session = session], "page"))
  BY DEF Visit
<1>3. session \in Spent(b) \cup {None, Keep}
  BY <1>1 DEF Refreshed, OwnCookies
<1>4. Reply([Untouched EXCEPT !.session = session], "page").cookies =
        [state |-> Keep, pending |-> Keep, session |-> session]
  BY DEF Reply, Untouched
<1>5. Reply([Untouched EXCEPT !.session = session], "page").cookies \in OwnAnswer(b)
  BY <1>3, <1>4 DEF OwnAnswer
<1> QED BY <1>1, <1>2, <1>5, OwnGrows, AnswerOwned

LEMMA DeliverOwned ==
  ASSUME OwnInv, [Next]_vars, NEW t \in Tabs, Deliver(t)
  PROVE  TabsOwned' /\ JarsOwned'
<1> DEFINE b == OwnerOf[t]  set == tab[t].reply.cookies
<1>1. b \in Browsers
  BY OwnerOfAssumption
<1>2. TabsOwned'
  BY OtherTabsOwned DEF Deliver
<1>3. set \in OwnAnswer(b)
  BY DEF Deliver, OwnInv, Owned, Sent, Answered, Idle
<1>4. jar[b] \in OwnCookies(b)
  BY <1>1 DEF OwnInv, Owned
<1> DEFINE new == [state |-> Kept(set.state, jar[b].state),
                   pending |-> Kept(set.pending, jar[b].pending),
                   session |-> Kept(set.session, jar[b].session)]
<1>5. new \in OwnCookies(b)
  BY <1>3, <1>4 DEF OwnCookies, OwnAnswer, Kept
<1>6. jar' = [jar EXCEPT ![b] = new]
  BY DEF Deliver
<1> HIDE DEF new
<1>7. JarsOwned'
  BY <1>1, <1>5, <1>6, OwnGrows DEF OwnInv, Owned, JarsOwned
<1> QED BY <1>2, <1>7

LEMMA CookieExpiresOwned ==
  ASSUME OwnInv, [Next]_vars, NEW b \in Browsers, CookieExpires(b)
  PROVE  JarsOwned'
<1>1. jar[b] \in OwnCookies(b)
  BY DEF OwnInv, Owned
<1>2. PICK cookie \in {"state", "pending"} : jar' = [jar EXCEPT ![b][cookie] = None]
  BY DEF CookieExpires
<1>3. [jar[b] EXCEPT ![cookie] = None] \in OwnCookies(b)
  <2>1. CASE cookie = "state"
    BY <1>1, <2>1 DEF OwnCookies
  <2>2. CASE cookie = "pending"
    BY <1>1, <2>2 DEF OwnCookies
  <2> QED BY <2>1, <2>2
<1> QED BY <1>2, <1>3, OwnGrows DEF OwnInv, Owned, JarsOwned

LEMMA OwnInvStays == OwnInv /\ [Next]_vars => OwnInv'
<1> SUFFICES ASSUME OwnInv, [Next]_vars PROVE OwnInv'
  OBVIOUS
<1>1. Requested'
  BY RequestedStays
<1> SUFFICES TabsOwned' /\ JarsOwned'
  BY <1>1 DEF OwnInv, Owned, TabsOwned, JarsOwned
<1>2. ASSUME UNCHANGED tab PROVE TabsOwned'
  BY <1>2, OwnGrows DEF OwnInv, Owned, TabsOwned, Sent, Answered, Cookies
<1>3. ASSUME NEW t \in Tabs, \/ AskLogin(t) \/ PressContinue(t) \/ PressLogout(t)
                              \/ VisitPage(t)
                              \/ \E link \in States : OpenLink(t, link)
      PROVE  TabsOwned' /\ JarsOwned'
  BY <1>3, SendOwned, JarsKept
<1>4. ASSUME NEW t \in Tabs, Handle(t)
      PROVE  TabsOwned' /\ JarsOwned'
  <2>1. UNCHANGED jar
    BY <1>4 DEF Handle, Login, Confirm, Continue, Logout, Visit
  <2> QED BY <1>4, <2>1, JarsKept, LoginOwned, ConfirmOwned, ContinueOwned,
             LogoutOwned, VisitOwned DEF Handle
<1>5. ASSUME NEW t \in Tabs, Lose(t) PROVE TabsOwned' /\ JarsOwned'
  BY <1>5, JarsKept, OtherTabsOwned DEF Lose
<1>6. ASSUME NEW b \in Browsers, CookieExpires(b) PROVE TabsOwned' /\ JarsOwned'
  BY <1>2, <1>6, CookieExpiresOwned DEF CookieExpires
<1>7. ASSUME NEW link \in States, LinkExpires(link) PROVE TabsOwned' /\ JarsOwned'
  BY <1>2, <1>7, JarsKept DEF LinkExpires
<1>8. CASE UNCHANGED vars
  BY <1>2, <1>8, JarsKept DEF vars
<1> QED BY <1>3, <1>4, <1>5, <1>6, <1>7, <1>8, DeliverOwned DEF Next

LEMMA InitOwned == Init => OwnInv
BY DEF Init, OwnInv, Requested, Owned, States, OwnCookies

\* Whoever opens, forwards or scans a mailed link, only the browser that asked
\* for it spends its credential or holds its session.
THEOREM OnlyTheAskerGetsIn == Spec => []OwnRequestOnly
<1>1. OwnInv => OwnRequestOnly
  BY DEF OwnInv, Requested, Owned, OwnRequestOnly, OwnCookies, Spent, Own
<1> QED BY <1>1, InitOwned, OwnInvStays, PTL DEF Spec
-----------------------------------------------------------------------------
(* What was consumed stays consumed *)

\* The request states a browser holds, sends and is sent are its own.
LEMMA StatesAreOwn ==
  ASSUME OwnInv
  PROVE  /\ None \notin States /\ Keep \notin States
         /\ \A b \in Browsers : jar[b].state \in Own(b) \cup {None}
         /\ \A t \in Tabs : tab[t] # Idle =>
              /\ Cookies(t).state \in Own(OwnerOf[t]) \cup {None}
              /\ Cookies(t).pending \in OwnStaged(OwnerOf[t]) \cup {None}
         /\ \A t \in Tabs : tab[t].pc = "answered" =>
              tab[t].reply.cookies.state \in Own(OwnerOf[t]) \cup {None, Keep}
         /\ \A t \in Tabs : tab[t].pc \in {"sent", "answered"} => tab[t] # Idle
<1>1. requests \in Seq(LoginRequest)
  BY DEF OwnInv, Requested
<1>2. None \notin States /\ Keep \notin States
  BY <1>1, MarkersAssumption DEF States
<1>3. \A b \in Browsers : jar[b].state \in Own(b) \cup {None}
  BY DEF OwnInv, Owned, OwnCookies
<1>4. \A t \in Tabs : tab[t] # Idle =>
        /\ Cookies(t).state \in Own(OwnerOf[t]) \cup {None}
        /\ Cookies(t).pending \in OwnStaged(OwnerOf[t]) \cup {None}
  BY DEF OwnInv, Owned, Sent, Answered, OwnCookies
<1>5. \A t \in Tabs : tab[t].pc = "answered" =>
        tab[t].reply.cookies.state \in Own(OwnerOf[t]) \cup {None, Keep}
  BY DEF OwnInv, Owned, Sent, Answered, OwnAnswer, Idle
<1>6. \A t \in Tabs : tab[t].pc \in {"sent", "answered"} => tab[t] # Idle
  BY DEF Idle
<1> QED BY <1>2, <1>3, <1>4, <1>5, <1>6

\* One tab goes on, and the jars and what was consumed stay.
LEMMA OneTabMoves ==
  ASSUME OwnInv, NEW t \in Tabs, NEW rec, tab' = [tab EXCEPT ![t] = rec]
  PROVE  tab'[t] = rec /\ \A u \in Tabs \ {t} : tab'[u] = tab[u]
BY DEF OwnInv, Owned

\* A request that is sent has the state its jar had, or none.
LEMMA SendConsumed ==
  ASSUME OwnInv, ConsumedInv, [Next]_vars, NEW t \in Tabs, NEW rec, Send(t, rec),
         rec.pc = "sent", rec.cookies.state \in {jar[OwnerOf[t]].state, None}
  PROVE  ConsumedInv'
<1>1. tab'[t] = rec /\ \A u \in Tabs \ {t} : tab'[u] = tab[u]
  BY OneTabMoves DEF Send
<1>2. UNCHANGED <<jar, requests, consumed>> /\ States' = States
  BY DEF Send, States
<1>3. OwnerOf[t] \in Browsers
  BY OwnerOfAssumption
<1>4. ASSUME NEW u \in Tabs, NEW i \in States, Issues(u, i)'
      PROVE  u # t /\ Issues(u, i) /\ rec.cookies.state # i
  BY <1>1, <1>2, <1>3, <1>4, StatesAreOwn DEF Issues, ConsumedInv, IssuedOnce
<1>5. IssuedOnce'
  BY <1>1, <1>2, <1>4 DEF ConsumedInv, IssuedOnce, Cookies
<1>6. TakesState'
  BY <1>1 DEF ConsumedInv, TakesState, Cookies
<1> QED BY <1>2, <1>5, <1>6 DEF ConsumedInv, ConsumedStaysConsumed

\* An answer brings no state, or the one of a login request just made.
LEMMA AnswerConsumed ==
  ASSUME OwnInv, ConsumedInv, [Next]_vars, NEW t \in Tabs, tab[t].pc = "sent",
         NEW reply, Respond(t, reply), UNCHANGED <<jar, consumed>>,
         reply.cookies.state \in {None, Keep} \cup (States' \ States),
         (tab[t].kind = "continue" /\ Cookies(t).pending # None) =>
           reply.cookies.state = None
  PROVE  ConsumedInv'
<1> DEFINE rec == [pc |-> "answered", kind |-> tab[t].kind,
                   cookies |-> tab[t].cookies, reply |-> reply]
<1>1. tab'[t] = rec /\ \A u \in Tabs \ {t} : tab'[u] = tab[u]
  BY OneTabMoves DEF Respond
<1>2. /\ rec.pc = "answered" /\ rec.reply = reply /\ rec.kind = tab[t].kind
      /\ rec.cookies = Cookies(t)
  BY DEF Cookies
<1> HIDE DEF rec
<1>3. \A u \in Tabs : tab[u] # Idle <=> tab'[u] # Idle
  BY <1>1, <1>2 DEF Idle
<1>4. \A u \in Tabs : tab[u] # Idle => Cookies(u)' = Cookies(u)
  BY <1>1, <1>2 DEF Cookies
<1>5. States \subseteq States' /\ None \notin States' /\ Keep \notin States'
  <2>1. requests' \in Seq(LoginRequest)
    BY RequestedStays DEF Requested
  <2>2. None \notin States' /\ Keep \notin States'
    BY <2>1, MarkersAssumption DEF States
  <2> QED BY <2>2, OwnGrows
<1>6. ASSUME NEW u \in Tabs, NEW i \in States', Issues(u, i)'
      PROVE  \/ u # t /\ i \in States /\ Issues(u, i)
             \/ u = t /\ i \in States' \ States
  <2>1. CASE u = t
    BY <1>1, <1>2, <1>5, <1>6, <2>1 DEF Issues
  <2>2. CASE u # t
    <3>1. Issues(u, i)
      BY <1>1, <1>6, <2>2 DEF Issues
    <3>2. i \in Own(OwnerOf[u]) \cup {None, Keep}
      BY <3>1, StatesAreOwn DEF Issues
    <3>3. i \in States
      BY <1>5, <1>6, <3>2 DEF Own
    <3> QED BY <2>2, <3>1, <3>3
  <2> QED BY <2>1, <2>2
<1>7. ASSUME NEW i \in States' \ States
      PROVE  /\ \A b \in Browsers : jar[b].state # i
             /\ \A u \in Tabs : tab[u] # Idle => Cookies(u).state # i
             /\ \A u \in Tabs \ {t} : ~Issues(u, i)
             /\ i \notin consumed
  BY <1>5, <1>7, StatesAreOwn DEF Own, Issues, ConsumedInv
<1>8. IssuedOnce'
  BY <1>1, <1>3, <1>4, <1>6, <1>7 DEF ConsumedInv, IssuedOnce, Issues
<1>9. TakesState'
  BY <1>1, <1>2, <1>4 DEF ConsumedInv, TakesState, Cookies
<1> QED BY <1>5, <1>8, <1>9 DEF ConsumedInv, ConsumedStaysConsumed

\* A tab that falls idle without its answer takes nothing back.
LEMMA LoseConsumed ==
  ASSUME OwnInv, ConsumedInv, NEW t \in Tabs, Lose(t)
  PROVE  ConsumedInv'
<1>1. tab'[t] = Idle /\ \A u \in Tabs \ {t} : tab'[u] = tab[u]
  BY OneTabMoves DEF Lose
<1>2. UNCHANGED <<jar, requests, consumed>> /\ States' = States
  BY DEF Lose, States
<1>3. IssuedOnce' /\ TakesState'
  BY <1>1, <1>2 DEF ConsumedInv, IssuedOnce, TakesState, Issues, Cookies, Idle
<1> QED BY <1>2, <1>3 DEF ConsumedInv, ConsumedStaysConsumed

\* The answer that takes a state clears the state of its jar, and no other
\* jar has the same.
LEMMA DeliverConsumed ==
  ASSUME OwnInv, ConsumedInv, NEW t \in Tabs, Deliver(t)
  PROVE  ConsumedInv'
<1> DEFINE b == OwnerOf[t]
           set == tab[t].reply.cookies
           took == tab[t].kind = "continue" /\ set.pending = None
                     /\ Cookies(t).pending # None
<1>1. tab'[t] = Idle /\ \A u \in Tabs \ {t} : tab'[u] = tab[u]
  BY OneTabMoves DEF Deliver
<1>2. UNCHANGED requests /\ States' = States /\ b \in Browsers /\ tab[t] # Idle
      /\ tab[t].pc = "answered"
  BY OwnerOfAssumption DEF Deliver, States, Idle
<1>3. /\ jar'[b].state = Kept(set.state, jar[b].state)
      /\ \A c \in Browsers \ {b} : jar'[c] = jar[c]
  BY <1>2 DEF Deliver, OwnInv, Owned
<1>4. /\ took => consumed' = consumed \cup ({Cookies(t).state} \ {None})
      /\ ~took => consumed' = consumed
  BY DEF Deliver
<1>5. took => set.state = None /\ jar'[b].state = None
  BY <1>2, <1>3, MarkersAssumption DEF ConsumedInv, TakesState, Kept
<1>6. /\ Cookies(t).state \in Own(b) \cup {None}
      /\ set.state \in Own(b) \cup {None, Keep}
      /\ None \notin States /\ Keep \notin States
  BY <1>2, StatesAreOwn
<1>7. consumed' \subseteq States'
  BY <1>2, <1>4, <1>6 DEF ConsumedInv, Own
<1> HIDE DEF took
<1>8. ConsumedStaysConsumed'
  <2>1. ASSUME NEW c \in Browsers, c # b PROVE jar'[c].state \notin consumed'
    <3>1. jar'[c].state \in Own(c) \cup {None} /\ jar'[c].state \notin consumed
      BY <1>3, <2>1, StatesAreOwn DEF ConsumedInv, ConsumedStaysConsumed
    <3>2. jar'[c].state \notin {Cookies(t).state} \ {None}
      BY <1>6, <2>1, <3>1 DEF Own
    <3> QED BY <1>4, <3>1, <3>2
  <2>2. jar'[b].state \notin consumed'
    <3>1. CASE took
      BY <1>2, <1>5, <1>6, <1>7, <3>1
    <3>2. CASE ~took /\ set.state = Keep
      BY <1>2, <1>3, <1>4, <3>2 DEF Kept, ConsumedInv, ConsumedStaysConsumed
    <3>3. CASE ~took /\ set.state = None
      BY <1>2, <1>3, <1>6, <1>7, <3>3, MarkersAssumption DEF Kept
    <3>4. CASE ~took /\ set.state \in Own(b)
      <4>1. set.state \in States /\ Issues(t, set.state) /\ set.state # Keep
        BY <1>2, <1>6, <3>4 DEF Own, Issues
      <4>2. set.state \notin consumed
        BY <4>1 DEF ConsumedInv, IssuedOnce
      <4> QED BY <1>3, <1>4, <3>4, <4>1, <4>2 DEF Kept
    <3> QED BY <1>6, <3>1, <3>2, <3>3, <3>4
  <2> QED BY <2>1, <2>2 DEF ConsumedStaysConsumed
<1>9. IssuedOnce'
  <2> SUFFICES ASSUME NEW u \in Tabs, NEW i \in States, Issues(u, i)'
               PROVE  /\ \A c \in Browsers : jar'[c].state # i
                      /\ \A v \in Tabs : tab'[v] # Idle => Cookies(v)'.state # i
                      /\ \A v \in Tabs \ {u} : ~Issues(v, i)'
                      /\ i \notin consumed'
    BY <1>2 DEF IssuedOnce
  <2>1. u # t /\ Issues(u, i)
    BY <1>1 DEF Issues, Idle
  <2>2. /\ \A c \in Browsers : jar[c].state # i
        /\ \A v \in Tabs : tab[v] # Idle => Cookies(v).state # i
        /\ \A v \in Tabs \ {u} : ~Issues(v, i)
        /\ i \notin consumed
    BY <2>1 DEF ConsumedInv, IssuedOnce
  <2>3. set.state # i /\ Cookies(t).state # i
    BY <1>2, <2>1, <2>2 DEF Issues
  <2>4. jar'[b].state # i
    BY <1>2, <1>3, <2>2, <2>3 DEF Kept
  <2>5. i \notin consumed'
    BY <1>4, <2>2, <2>3
  <2>6. \A v \in Tabs : tab'[v] # Idle => Cookies(v)'.state # i
    BY <1>1, <2>2 DEF Cookies
  <2>7. \A v \in Tabs \ {u} : ~Issues(v, i)'
    BY <1>1, <2>2 DEF Issues, Idle
  <2> QED BY <1>3, <2>2, <2>4, <2>5, <2>6, <2>7
<1>10. TakesState'
  BY <1>1 DEF ConsumedInv, TakesState, Cookies, Idle
<1> QED BY <1>7, <1>8, <1>9, <1>10 DEF ConsumedInv

LEMMA CookieExpiresConsumed ==
  ASSUME OwnInv, ConsumedInv, NEW b \in Browsers, CookieExpires(b)
  PROVE  ConsumedInv'
<1>1. UNCHANGED <<tab, requests, consumed>> /\ States' = States
  BY DEF CookieExpires, States
<1>2. \A c \in Browsers : jar'[c].state \in {jar[c].state, None}
  <2>1. PICK cookie \in {"state", "pending"} : jar' = [jar EXCEPT ![b][cookie] = None]
    BY DEF CookieExpires
  <2>2. jar[b] \in OwnCookies(b)
    BY DEF OwnInv, Owned
  <2>3. jar'[b].state \in {jar[b].state, None}
    <3>1. CASE cookie = "state"
      BY <2>1, <2>2, <3>1 DEF OwnInv, Owned, OwnCookies
    <3>2. CASE cookie = "pending"
      BY <2>1, <2>2, <3>2 DEF OwnInv, Owned, OwnCookies
    <3> QED BY <3>1, <3>2
  <2> QED BY <2>1, <2>3 DEF OwnInv, Owned
<1>3. None \notin States
  BY StatesAreOwn
<1>4. IssuedOnce'
  BY <1>1, <1>2, <1>3 DEF ConsumedInv, IssuedOnce, Issues, Cookies
<1>5. TakesState'
  BY <1>1 DEF ConsumedInv, TakesState, Cookies
<1> QED BY <1>1, <1>2, <1>3, <1>4, <1>5 DEF ConsumedInv, ConsumedStaysConsumed

LEMMA HandleConsumed ==
  ASSUME OwnInv, ConsumedInv, [Next]_vars, NEW t \in Tabs, Handle(t)
  PROVE  ConsumedInv'
<1>1. tab[t].pc = "sent" /\ UNCHANGED <<jar, consumed>>
  BY DEF Handle, Login, Confirm, Continue, Logout, Visit, Asks
<1>2. CASE Login(t)
  <2>1. tab[t].kind # "continue"
    BY <1>2 DEF Login, Asks
  <2>2. ASSUME NEW status, Respond(t, Reply(Untouched, status)) PROVE ConsumedInv'
    <3>1. Reply(Untouched, status).cookies.state = Keep
      BY DEF Reply, Untouched
    <3> QED BY <1>1, <2>1, <2>2, <3>1, AnswerConsumed
  <2>3. ASSUME NEW status, NEW mail \in {"live", "none"}, Mail(t, mail),
               Respond(t, Reply([Untouched EXCEPT !.state = Len(requests) + 1], status))
        PROVE  ConsumedInv'
    <3>1. Len(requests) + 1 \in States' \ States
      BY <2>3 DEF Mail, States, OwnInv, Requested
    <3>2. Reply([Untouched EXCEPT !.state = Len(requests) + 1], status).cookies.state
            = Len(requests) + 1
      BY DEF Reply, Untouched
    <3> QED BY <1>1, <2>1, <2>3, <3>1, <3>2, AnswerConsumed
  <2> QED BY <1>2, <2>2, <2>3 DEF Login
<1>3. CASE Confirm(t)
  <2>1. tab[t].kind # "continue"
    BY <1>3 DEF Confirm, Asks
  <2>2. PICK reply : /\ Respond(t, reply)
                     /\ reply.cookies \in {Untouched, Stage(Untouched, tab[t].input)}
    BY <1>3 DEF Confirm, Reply
  <2>3. reply.cookies.state = Keep
    BY <2>2 DEF Untouched, Stage
  <2> QED BY <1>1, <2>1, <2>2, <2>3, AnswerConsumed
<1>4. CASE Continue(t)
  <2> DEFINE staged == StagedIn(Cookies(t))
             cleared == Taken(Untouched, staged)
  <2>1. cleared.state = IF staged = None THEN Keep ELSE None
    BY DEF Taken, Untouched
  <2>2. Cookies(t).pending # None => staged # None
    <3>1. Cookies(t).pending \in OwnStaged(OwnerOf[t]) \cup {None} /\ None \notin States
      BY <1>1, StatesAreOwn
    <3> QED BY <3>1 DEF OwnStaged, Own, Staged, StagedIn
  <2>3. PICK reply : /\ Respond(t, reply)
                     /\ \/ reply.cookies = cleared
                        \/ reply.cookies = [cleared EXCEPT !.session = staged.credential]
    BY <1>4 DEF Continue, Reply
  <2>4. reply.cookies.state = cleared.state
    BY <2>3 DEF Taken, Untouched
  <2> HIDE DEF cleared, staged
  <2> QED BY <1>1, <2>1, <2>2, <2>3, <2>4, AnswerConsumed
<1>5. CASE Logout(t)
  <2>1. tab[t].kind # "continue"
    BY <1>5 DEF Logout, Asks
  <2>2. PICK reply : /\ Respond(t, reply)
                     /\ reply.cookies \in {Untouched, [Untouched EXCEPT !.session = None]}
    BY <1>5 DEF Logout, Reply
  <2>3. reply.cookies.state = Keep
    BY <2>2 DEF Untouched
  <2> QED BY <1>1, <2>1, <2>2, <2>3, AnswerConsumed
<1>6. CASE Visit(t)
  <2>1. tab[t].kind # "continue"
    BY <1>6 DEF Visit, Asks
  <2>2. PICK session : Respond(t, Reply([Untouched EXCEPT !.session = session], "page"))
    BY <1>6 DEF Visit
  <2>3. Reply([Untouched EXCEPT !.session = session], "page").cookies.state = Keep
    BY DEF Reply, Untouched
  <2> QED BY <1>1, <2>1, <2>2, <2>3, AnswerConsumed
<1> QED BY <1>2, <1>3, <1>4, <1>5, <1>6 DEF Handle

LEMMA ConsumedInvStays == OwnInv /\ ConsumedInv /\ [Next]_vars => ConsumedInv'
<1> SUFFICES ASSUME OwnInv, ConsumedInv, [Next]_vars PROVE ConsumedInv'
  OBVIOUS
<1>1. ASSUME UNCHANGED <<jar, tab, consumed>>, States' = States PROVE ConsumedInv'
  BY <1>1 DEF ConsumedInv, IssuedOnce, TakesState, ConsumedStaysConsumed, Issues,
              Cookies
<1>2. ASSUME NEW t \in Tabs, NEW kind, NEW read, NEW input,
             Send(t, Request(t, kind, read, input))
      PROVE  ConsumedInv'
  <2>1. /\ Request(t, kind, read, input).pc = "sent"
        /\ Request(t, kind, read, input).cookies.state
             \in {jar[OwnerOf[t]].state, None}
    BY DEF Request
  <2> QED BY <1>2, <2>1, SendConsumed
<1>3. ASSUME NEW t \in Tabs, \/ AskLogin(t) \/ PressContinue(t) \/ PressLogout(t)
                              \/ VisitPage(t)
                              \/ \E link \in States : OpenLink(t, link)
      PROVE  ConsumedInv'
  BY <1>2, <1>3 DEF AskLogin, PressContinue, PressLogout, VisitPage, OpenLink
<1>4. ASSUME NEW link \in States, LinkExpires(link) PROVE ConsumedInv'
  <2>1. requests \in Seq(LoginRequest) /\ UNCHANGED <<jar, tab, consumed>>
        /\ requests' = [requests EXCEPT ![link].mail = "expired"]
    BY <1>4 DEF LinkExpires, OwnInv, Requested
  <2>2. States' = States
    BY <2>1 DEF States
  <2> QED BY <1>1, <2>1, <2>2
<1>5. CASE UNCHANGED vars
  BY <1>1, <1>5 DEF vars, States
<1> QED BY <1>3, <1>4, <1>5, HandleConsumed, DeliverConsumed, LoseConsumed,
           CookieExpiresConsumed DEF Next

LEMMA InitConsumed == Init => ConsumedInv
BY MarkersAssumption
DEF Init, ConsumedInv, IssuedOnce, TakesState, ConsumedStaysConsumed, Issues, Idle,
    States

\* Once an answer has taken a request state from its browser, no answer of
\* another tab, however late, brings it back.
THEOREM TakenForGood == Spec => []ConsumedStaysConsumed
<1>1. ConsumedInv => ConsumedStaysConsumed
  BY DEF ConsumedInv
<1> QED BY <1>1, InitOwned, OwnInvStays, InitConsumed, ConsumedInvStays, PTL DEF Spec
-----------------------------------------------------------------------------
(* A sign-out claims no more than happened *)

\* The session a browser was told is ended does not come back: a session begins
\* with the only use of its credential.
LEMMA EndedStaysEnded ==
  ASSUME OwnInv, [Next]_vars, NEW t \in Tabs, tab[t].pc = "answered",
         Cookies(t).session \notin sessions
  PROVE  Cookies(t).session \notin sessions'
<1>1. Cookies(t).session \in Spent(OwnerOf[t]) \cup {None} /\ None \notin States
  BY StatesAreOwn DEF OwnInv, Owned, Sent, Answered, Idle, OwnCookies
<1>2. ASSUME NEW u \in Tabs, Continue(u) PROVE Cookies(t).session \notin sessions'
  <2>1. CASE UNCHANGED sessions
    BY <2>1
  <2>2. CASE /\ StagedAccepted(Cookies(u))
             /\ Verify(OwnerOf[u], StagedIn(Cookies(u)).credential)
    <3> DEFINE i == StagedIn(Cookies(u)).credential
    <3>1. i \in States /\ requests[i].mail = "live" /\ sessions' = sessions \cup {i}
      BY <1>2, <2>2, StagedIsOwn DEF Own, Continue, Asks, Verify
    <3> HIDE DEF i
    <3>2. Cookies(t).session # i
      BY <1>1, <3>1 DEF Spent
    <3> QED BY <3>1, <3>2
  <2> QED BY <1>2, <2>1, <2>2 DEF Continue, ProviderRefuses
<1>3. ASSUME NEW u \in Tabs, \/ AskLogin(u) \/ PressContinue(u) \/ PressLogout(u)
                              \/ VisitPage(u) \/ Login(u) \/ Confirm(u) \/ Logout(u)
                              \/ Visit(u) \/ Deliver(u) \/ Lose(u)
                              \/ \E link \in States : OpenLink(u, link)
      PROVE  sessions' \subseteq sessions
  BY <1>3 DEF AskLogin, PressContinue, PressLogout, VisitPage, OpenLink, Send,
              Login, Confirm, Logout, Visit, Deliver, Lose
<1>4. ASSUME NEW b \in Browsers, CookieExpires(b) PROVE UNCHANGED sessions
  BY <1>4 DEF CookieExpires
<1>5. ASSUME NEW i \in States, LinkExpires(i) PROVE UNCHANGED sessions
  BY <1>5 DEF LinkExpires
<1> QED BY <1>2, <1>3, <1>4, <1>5 DEF Next, Handle, vars

LEMMA AnswerGiven ==
  ASSUME OwnInv, NEW t \in Tabs, NEW reply, Respond(t, reply)
  PROVE  tab'[t] = [pc |-> "answered", kind |-> tab[t].kind,
                    cookies |-> tab[t].cookies, reply |-> reply]
BY OneTabMoves DEF Respond

\* Every handler answers.
LEMMA HandlersAnswer ==
  ASSUME NEW t \in Tabs, Handle(t)
  PROVE  \E reply : Respond(t, reply)
<1>1. CASE Login(t)
  BY <1>1 DEF Login
<1>2. CASE Confirm(t)
  BY <1>2 DEF Confirm
<1>3. CASE Continue(t)
  BY <1>3 DEF Continue
<1>4. CASE Logout(t)
  BY <1>4 DEF Logout
<1>5. CASE Visit(t)
  BY <1>5 DEF Visit
<1> QED BY <1>1, <1>2, <1>3, <1>4, <1>5 DEF Handle

\* The tabs with an answer got it now, or had it before.
LEMMA AnswersAreGiven ==
  ASSUME OwnInv, [Next]_vars, NEW t \in Tabs, tab'[t].pc = "answered",
         tab'[t] # tab[t]
  PROVE  Handle(t)
<1>1. ASSUME NEW u \in Tabs, \/ AskLogin(u) \/ PressContinue(u) \/ PressLogout(u)
                              \/ VisitPage(u) \/ Deliver(u) \/ Lose(u)
                              \/ \E link \in States : OpenLink(u, link)
      PROVE  FALSE
  <2>1. PICK rec : tab' = [tab EXCEPT ![u] = rec] /\ rec.pc # "answered"
    BY <1>1 DEF AskLogin, PressContinue, PressLogout, VisitPage, OpenLink, Send,
                Request, Deliver, Lose, Idle
  <2> QED BY <2>1, OneTabMoves
<1>2. ASSUME NEW u \in Tabs, u # t, Handle(u) PROVE FALSE
  <2>1. PICK reply : Respond(u, reply)
    BY <1>2, HandlersAnswer
  <2>2. PICK rec : tab' = [tab EXCEPT ![u] = rec]
    BY <2>1 DEF Respond
  <2> QED BY <1>2, <2>2, OneTabMoves
<1>3. ASSUME NEW b \in Browsers, CookieExpires(b) PROVE UNCHANGED tab
  BY <1>3 DEF CookieExpires
<1>4. ASSUME NEW i \in States, LinkExpires(i) PROVE UNCHANGED tab
  BY <1>4 DEF LinkExpires
<1> QED BY <1>1, <1>2, <1>3, <1>4 DEF Next, vars

LEMMA SignOutStaysHonest == OwnInv /\ SignOutIsHonest /\ [Next]_vars => SignOutIsHonest'
<1> SUFFICES ASSUME OwnInv, SignOutIsHonest, [Next]_vars, NEW t \in Tabs,
                    (tab[t].pc = "answered" /\ tab[t].kind = "logout"
                       /\ tab[t].reply.status = "signed_out")'
             PROVE  Cookies(t)'.session \notin sessions'
  BY DEF SignOutIsHonest
<1>1. CASE tab'[t] = tab[t]
  BY <1>1, EndedStaysEnded DEF SignOutIsHonest, Cookies
<1>2. CASE tab'[t] # tab[t]
  <2>1. Handle(t)
    BY <1>2, AnswersAreGiven
  <2>2. PICK reply : tab'[t] = [pc |-> "answered", kind |-> tab[t].kind,
                                cookies |-> tab[t].cookies, reply |-> reply]
    <3>1. PICK reply : Respond(t, reply)
      BY <2>1, HandlersAnswer
    <3> QED BY <3>1, AnswerGiven
  <2>3. tab[t].kind = "logout" /\ Cookies(t)' = Cookies(t) /\ tab'[t].reply = reply
    BY <2>2 DEF Cookies
  <2>4. Logout(t)
    BY <2>1, <2>3 DEF Handle, Login, Confirm, Continue, Visit, Asks
  <2> DEFINE session == Cookies(t).session
  <2>5. PICK ended \in BOOLEAN, cleared \in BOOLEAN :
          /\ IF ended THEN sessions' = sessions \ {session} ELSE UNCHANGED sessions
          /\ IF SignedOut(ended /\ cleared)
             THEN Respond(t, Reply([Untouched EXCEPT !.session = None],
                                   "signed_out"))
             ELSE Respond(t, Reply(Untouched, "logout_error"))
    BY <2>4 DEF Logout
  <2>6. CASE ended
    BY <2>3, <2>5, <2>6
  <2>7. CASE ~ended
    <3>1. Respond(t, Reply(Untouched, "logout_error"))
      BY <2>5, <2>7 DEF SignedOut
    <3> DEFINE refusal == Reply(Untouched, "logout_error")
    <3>2. refusal.status = "logout_error"
      BY DEF Reply
    <3> HIDE DEF refusal
    <3>3. tab'[t].reply.status = "logout_error"
      <4>1. Respond(t, refusal)
        BY <3>1 DEF refusal
      <4>2. tab'[t] = [pc |-> "answered", kind |-> tab[t].kind,
                       cookies |-> tab[t].cookies, reply |-> refusal]
        BY <4>1, AnswerGiven
      <4> QED BY <3>2, <4>2
    <3> QED BY <3>3
  <2> QED BY <2>6, <2>7
<1> QED BY <1>1, <1>2

\* A browser that is told signed_out holds no live session from the cookie it
\* sent, and none of that number begins afterwards.
THEOREM SignedOutMeansEnded == Spec => []SignOutIsHonest
<1>1. Init => SignOutIsHonest
  BY DEF Init, SignOutIsHonest, Idle
<1> QED BY <1>1, InitOwned, OwnInvStays, SignOutStaysHonest, PTL DEF Spec
=============================================================================
