------------------------------ MODULE AuthFlow -------------------------------
(***************************************************************************)
(* Magic-link sign-in and sign-out (src/src/lib/auth, src/src/app/login,    *)
(* src/src/app/auth, src/src/app/settings): requests and answers of several *)
(* tabs over the cookie jar of their browser, and the provider's single-use *)
(* credentials.                                                             *)
(*                                                                          *)
(* A request carries the cookies its browser had when it was sent; the      *)
(* cookies of its answer reach the jar when the answer does, in any order   *)
(* with those of other tabs, or never.  Anybody may open a mailed link: a   *)
(* mail scanner is a browser with an empty jar.                             *)
(*                                                                          *)
(* A request state is the number of its login request; the mailed           *)
(* credential and the session it buys have the same number.  A code and a   *)
(* token hash are told apart by nothing below, nor is where a sign-in       *)
(* leads to.                                                                *)
(***************************************************************************)
EXTENDS Naturals, Sequences, FiniteSets

CONSTANTS
  Browsers,     \* cookie jars
  Tabs,         \* tabs, each with one request at a time
  OwnerOf,      \* the browser of a tab
  Uses,         \* the kinds of request made in each tab
  Learners,     \* the browsers whose learner wants to get in
  Forms,        \* what is entered at /login, from where
  MaxRequests,  \* bound on login requests
  MaxFaults,    \* bound on lost answers, provider errors and expiries
  None,         \* an absent cookie
  Keep          \* a cookie the answer does not set

ASSUME OwnerOfAssumption == OwnerOf \in [Tabs -> Browsers]
Kinds == {"login", "confirm", "continue", "logout", "visit"}

ASSUME UsesAssumption == Uses \in [Tabs -> SUBSET Kinds] /\ Learners \subseteq Browsers
ASSUME FormsAssumption ==
  Forms \subseteq {"known", "unknown", "invalid_email", "other_host"}
ASSUME MarkersAssumption == None # Keep /\ {None, Keep} \cap Nat = {}

VARIABLES
  jar,        \* the cookies of each browser
  tab,        \* the request of each tab, until its answer arrives or is lost
  requests,   \* the login requests answered: who asked, what came of the mail
  sessions,   \* the sessions alive at the provider
  consumed,   \* ghost: the request states an answer has taken from their jar
  faults      \* ghost: how much has gone wrong

vars == <<jar, tab, requests, sessions, consumed, faults>>

States == 1..Len(requests)

\* The credentials a browser staged to be confirmed, with their request state
Staged(credential, state) == [credential |-> credential, state |-> state]

\* An answer: the cookies it sets and the status of its redirect
Reply(cookies, status) == [cookies |-> cookies, status |-> status]

Untouched == [state |-> Keep, pending |-> Keep, session |-> Keep]
Idle == [pc |-> "idle"]

Cookies(t) == tab[t].cookies
Asks(t, kind) == tab[t].pc = "sent" /\ tab[t].kind = kind
Respond(t, reply) ==
  tab' = [tab EXCEPT ![t] = [pc |-> "answered", kind |-> @.kind,
                             cookies |-> @.cookies, reply |-> reply]]

Fault == faults < MaxFaults /\ faults' = faults + 1

-----------------------------------------------------------------------------
(* The middleware runs before every handler: the provider's client may write *)
(* the session's cookie again, and removes one whose session has ended.  It  *)
(* is modelled at a page of its own, Visit, which any tab may ask for beside *)
(* the requests of the others.                                              *)

Refreshed(cookies) ==
  IF cookies.session = None THEN {Keep}
  ELSE IF cookies.session \in sessions THEN {Keep, cookies.session} ELSE {None}

Visit(t) ==
  /\ Asks(t, "visit")
  /\ \E session \in Refreshed(Cookies(t)) :
       Respond(t, Reply([Untouched EXCEPT !.session = session], "page"))
  /\ UNCHANGED <<jar, requests, sessions, consumed, faults>>

-----------------------------------------------------------------------------
(* requestMagicLinkAction *)

\* signInWithOtp: a mail for an address the provider knows, or an error nobody
\* is told of
Mail(t, mail) ==
  requests' = Append(requests, [browser |-> OwnerOf[t], by |-> None, mail |-> mail])

\* The state cookie is set before the address is looked at
Login(t) ==
  /\ Asks(t, "login")
  /\ \/ /\ tab[t].input = "other_host"
        /\ Respond(t, Reply(Untouched, "canonical_host"))
        /\ UNCHANGED <<requests, faults>>
     \/ /\ tab[t].input # "other_host"
        /\ \/ Mail(t, "live") /\ tab[t].input = "known" /\ UNCHANGED faults
           \/ Mail(t, "none") /\ IF tab[t].input = "known" THEN Fault
                                 ELSE UNCHANGED faults
        /\ Respond(t, Reply([Untouched EXCEPT !.state = Len(requests) + 1],
             IF tab[t].input = "invalid_email" THEN "invalid_email" ELSE "sent"))
  /\ UNCHANGED <<jar, sessions, consumed>>

-----------------------------------------------------------------------------
(* GET /auth/confirm *)

\* mutant of StateAccepted: any state the application made is good
StateWasMade(cookies, state) == state \in States

\* requestStatesMatch
StateAccepted(cookies, state) == state # None /\ cookies.state = state

\* mutant of Stage: the request state is not staged with the credential
StageCredential(set, link) == [set EXCEPT !.pending = Staged(link, None)]

\* stagePendingMagicLinkConfirmation
Stage(set, link) == [set EXCEPT !.pending = Staged(link, link)]

Confirm(t) ==
  /\ Asks(t, "confirm")
  /\ IF StateAccepted(Cookies(t), tab[t].input)
     THEN Respond(t, Reply(Stage(Untouched, tab[t].input), "continue"))
     ELSE Respond(t, Reply(Untouched, "confirmation_error"))
  /\ UNCHANGED <<jar, requests, sessions, consumed, faults>>

-----------------------------------------------------------------------------
(* completeMagicLinkAction *)

\* mutant of Taken: the request state stays in the browser
TakenPending(set, staged) == [set EXCEPT !.pending = None]

\* takePendingMagicLinkConfirmation takes what is staged and, when something
\* is, the request state of the browser, whichever that is
Taken(set, staged) ==
  IF staged = None THEN [set EXCEPT !.pending = None]
  ELSE [set EXCEPT !.pending = None, !.state = None]

\* readStagedMagicLinkConfirmation: a confirmation without its state is none
StagedIn(cookies) ==
  IF cookies.pending = None \/ cookies.pending.state = None THEN None
  ELSE cookies.pending

\* The provider takes a live credential once, and starts a session
Verify(b, credential) ==
  \/ /\ requests[credential].mail = "live"
     /\ requests' = [requests EXCEPT ![credential].mail = "used",
                                     ![credential].by = b]
     /\ sessions' = sessions \cup {credential}
     /\ UNCHANGED faults

ProviderRefuses(credential) ==
  /\ \/ requests[credential].mail # "live" /\ UNCHANGED faults
     \/ Fault
  /\ UNCHANGED <<requests, sessions>>

StagedAccepted(cookies) ==
  IF StagedIn(cookies) = None THEN FALSE
  ELSE StateAccepted(cookies, StagedIn(cookies).state)

Continue(t) ==
  LET staged == StagedIn(Cookies(t))
      cleared == Taken(Untouched, staged) IN
  /\ Asks(t, "continue")
  /\ \/ /\ ~StagedAccepted(Cookies(t))
        /\ Respond(t, Reply(cleared, "confirmation_error"))
        /\ UNCHANGED <<requests, sessions, faults>>
     \/ /\ StagedAccepted(Cookies(t))
        /\ \/ /\ Verify(OwnerOf[t], staged.credential)
              /\ Respond(t, Reply([cleared EXCEPT !.session = staged.credential],
                                  "confirmed"))
           \/ /\ ProviderRefuses(staged.credential)
              /\ Respond(t, Reply(cleared, "confirmation_error"))
  /\ UNCHANGED <<jar, consumed>>

-----------------------------------------------------------------------------
(* logoutAction *)

\* mutant of SignedOut: the browser forgets the session whatever the provider said
SignedOutAnyway(ok) == TRUE

\* signOutSupabaseSession: a missing session is no failure
SignedOut(ok) == ok

Logout(t) ==
  LET session == Cookies(t).session IN
  /\ Asks(t, "logout")
  /\ \E ended, cleared \in BOOLEAN :
       /\ ended \/ session \in sessions
       /\ IF ended THEN sessions' = sessions \ {session} ELSE UNCHANGED sessions
       /\ IF ended /\ cleared THEN UNCHANGED faults ELSE Fault
       /\ IF SignedOut(ended /\ cleared)
          THEN Respond(t, Reply([Untouched EXCEPT !.session = None],
                                "signed_out"))
          ELSE Respond(t, Reply(Untouched, "logout_error"))
  /\ UNCHANGED <<jar, requests, consumed>>

Handle(t) == Login(t) \/ Confirm(t) \/ Continue(t) \/ Logout(t) \/ Visit(t)

-----------------------------------------------------------------------------
(* The browser *)

Send(t, request) ==
  /\ tab[t] = Idle /\ request.kind \in Uses[t]
  /\ tab' = [tab EXCEPT ![t] = request]
  /\ UNCHANGED <<jar, requests, sessions, consumed, faults>>

\* A request with its form or link and the cookies its handler reads
Request(t, kind, read, input) ==
  [pc |-> "sent", kind |-> kind, input |-> input,
   cookies |-> [cookie \in {"state", "pending", "session"} |->
                  IF cookie \in read THEN jar[OwnerOf[t]][cookie] ELSE None]]

\* Logins sent and answered stay within the bound
Logins == Len(requests) + Cardinality({t \in Tabs : Asks(t, "login")})

AskLogin(t) == \E form \in Forms :
  /\ Logins < MaxRequests
  /\ Send(t, Request(t, "login", {}, form))
OpenLink(t, link) ==
  /\ requests[link].mail # "none"
  /\ Send(t, Request(t, "confirm", {"state"}, link))
PressContinue(t) == Send(t, Request(t, "continue", {"state", "pending"}, None))
PressLogout(t) == Send(t, Request(t, "logout", {"session"}, None))

\* Without a session the middleware changes nothing
VisitPage(t) ==
  /\ jar[OwnerOf[t]].session # None
  /\ Send(t, Request(t, "visit", {"session"}, None))

Kept(cookie, old) == IF cookie = Keep THEN old ELSE cookie

\* The answer arrives: its cookies go into the jar together
Deliver(t) ==
  LET b == OwnerOf[t]  set == tab[t].reply.cookies IN
  /\ tab[t].pc = "answered"
  /\ jar' = [jar EXCEPT ![b] = [state |-> Kept(set.state, @.state),
                                pending |-> Kept(set.pending, @.pending),
                                session |-> Kept(set.session, @.session)]]
  /\ consumed' = consumed \cup
       (IF tab[t].kind = "continue" /\ set.pending = None /\ Cookies(t).pending # None
        THEN {Cookies(t).state} \ {None} ELSE {})
  /\ tab' = [tab EXCEPT ![t] = Idle]
  /\ UNCHANGED <<requests, sessions, faults>>

\* The tab is closed, navigates elsewhere, or the connection breaks
Lose(t) ==
  /\ tab[t].pc # "idle" /\ Fault
  /\ tab' = [tab EXCEPT ![t] = Idle]
  /\ UNCHANGED <<jar, requests, sessions, consumed>>

\* Ten minutes pass; the provider's credential has a life of its own
CookieExpires(b) ==
  /\ Fault
  /\ \E cookie \in {"state", "pending"} :
       jar[b][cookie] # None /\ jar' = [jar EXCEPT ![b][cookie] = None]
  /\ UNCHANGED <<tab, requests, sessions, consumed>>

LinkExpires(link) ==
  /\ Fault /\ requests[link].mail = "live"
  /\ requests' = [requests EXCEPT ![link].mail = "expired"]
  /\ UNCHANGED <<jar, tab, sessions, consumed>>

-----------------------------------------------------------------------------
Init ==
  /\ jar = [b \in Browsers |-> [state |-> None, pending |-> None, session |-> None]]
  /\ tab = [t \in Tabs |-> Idle]
  /\ requests = << >>
  /\ sessions = {}
  /\ consumed = {}
  /\ faults = 0

Next ==
  \/ \E t \in Tabs : \/ AskLogin(t) \/ PressContinue(t) \/ PressLogout(t)
                     \/ VisitPage(t) \/ Handle(t) \/ Deliver(t) \/ Lose(t)
                     \/ \E link \in States : OpenLink(t, link)
  \/ \E b \in Browsers : CookieExpires(b)
  \/ \E link \in States : LinkExpires(link)

Spec == Init /\ [][Next]_vars

\* The server answers and the network delivers; a learner with a link for the
\* request of their browser opens it, and confirms what is staged.  Tabs may be
\* busy with other pages every now and then, so the learner's steps are strong.
OpenOwnLink(b) == \E t \in Tabs, link \in States :
  /\ OwnerOf[t] = b /\ jar[b].state = link /\ jar[b].pending = None
  /\ OpenLink(t, link)
ConfirmStaged(b) == \E t \in Tabs :
  OwnerOf[t] = b /\ jar[b].pending # None /\ PressContinue(t)

FairSpec ==
  /\ Spec
  /\ \A t \in Tabs : WF_vars(Handle(t)) /\ WF_vars(Deliver(t))
  /\ \A b \in Learners : SF_vars(OpenOwnLink(b)) /\ SF_vars(ConfirmStaged(b))
-----------------------------------------------------------------------------
(* Correctness *)

\* A credential is spent, and a session held, only by the browser that asked
\* for the link, whoever opened it where (request-state.ts, "this browser" on
\* /auth/continue).
OwnRequestOnly ==
  /\ \A i \in States : requests[i].by \in {None, requests[i].browser}
  /\ \A b \in Browsers : jar[b].session # None =>
       requests[jar[b].session].browser = b

\* "Only the deliberate confirmation POST consumes the app state", and it does
\* so for good: once the browser has the answer, no later answer of another
\* tab brings that state back.
ConsumedStaysConsumed == \A b \in Browsers : jar[b].state \notin consumed

\* "does not claim success": a browser told signed_out has no session alive at
\* the provider for the cookie it sent.
SignOutIsHonest ==
  \A t \in Tabs :
    (tab[t].pc = "answered" /\ tab[t].kind = "logout"
       /\ tab[t].reply.status = "signed_out") =>
      Cookies(t).session \notin sessions

\* A learner who has the link for the request of their browser gets in, or
\* loses the request: it expired, was consumed, or another tab asked again.
SignInCompletes ==
  \A b \in Learners, i \in 1..MaxRequests :
    (jar[b].state = i /\ requests[i].mail = "live") ~>
      (jar[b].state # i \/ requests[i].mail # "live")
==============================================================================
