----------------------------- MODULE VfsAdapter -----------------------------
(***************************************************************************)
(* The VFS adapter of one worker process: the browser sessions it keeps    *)
(* per case (runtime/), the calls jobs make on it (vfs-provider-adapter.ts *)
(* with the page objects of pages/ and the detectors of detection/), the   *)
(* login observer, and as much of the provider's portal as they rely on.   *)
(*                                                                         *)
(* Jobs of one case run one after the other; jobs of different cases       *)
(* interleave at the awaits of the adapter.  A tab holds one booking draft *)
(* of the portal.  With Chrome attached over CDP (the default) all cases   *)
(* get the first tab of one shared browser context.  Texts, selectors and  *)
(* the choice of centre and visa category are left out.                    *)
(***************************************************************************)
EXTENDS Naturals, Sequences, FiniteSetsExt, SequencesExt

CONSTANTS Cases,
          Applicants,
          Party,      \* [Cases -> Seq(Applicants)]: who travels with a case
          Room,       \* [Days -> Nat]: for how many applicants a day has room
          MaxTabs,    \* bound on the browser tabs ever opened
          MaxEvents   \* bound on what the portal and the human do unasked

Days == DOMAIN Room
NoDay == 0
Tabs == 1..MaxTabs
NoTab == 0
Nobody == "nobody"

ASSUME PartyAssumption ==
  /\ Party \in [Cases -> Seq(Applicants)]
  /\ \A c \in Cases : Len(Party[c]) > 0
  /\ Nobody \notin Applicants
ASSUME DaysAssumption == IsFiniteSet(Days) /\ Days \subseteq Nat \ {NoDay}
ASSUME BoundsAssumption == MaxTabs \in Nat /\ MaxEvents \in Nat

VARIABLES
  mode,      \* the browser is reached over "cdp" or by "launch"; "local": over
             \* CDP, for routes of a portal on the same machine, whose days
             \* are a list of slots and not a calendar
  session,   \* sessions of the VfsBrowserSessionManager: the tab of a case
  tab,       \* the tabs and the booking draft in each
  days,      \* the days the portal still has
  at,        \* where the automation of each case is
  slot,      \* the day the last availability check found for a case
  observer,  \* startAuthObserver is watching the login of a case
  events     \* what the portal and the human did unasked so far

vars == <<mode, session, tab, days, at, slot, observer, events>>

-----------------------------------------------------------------------------
(* The portal's pages                                                      *)

Gone    == {"none", "closed"}
Entry   == {"blank", "login"}
Details == {"form", "summary"}
Booking == {"calendar", "services", "review", "payment", "confirmed"}
Where   == Gone \cup Entry \cup {"home", "criteria"} \cup Details \cup Booking

\* listed: the applicants saved; typed: whom the form shows; shown: the days
\* the calendar showed when it was rendered; by: the cases that moved the
\* draft; clean: one unbroken entry of applicants made it
Draft(w, who) == [where |-> w, listed |-> <<>>, typed |-> Nobody, day |-> NoDay,
                  shown |-> {}, by |-> who, clean |-> TRUE, asked |-> FALSE]

Tab == [where : Where, listed : Seq(Applicants), typed : Applicants \cup {Nobody},
        day : Days \cup {NoDay}, shown : SUBSET Days, by : SUBSET Cases,
        clean : BOOLEAN, asked : BOOLEAN]     \* asked: a human challenge is up

\* The calls of an adapter and, indented in the code, their steps
Waiting == {"human", "handoff", "ended", "failed", "confirmed"}
Calls   == {"authenticate", "inspectRoute", "checkAvailability", "beginBooking",
            "addApplicants", "selectAppointment", "getPaymentState", "resume",
            "paid", "getConfirmation"}
Entering == {"fill", "save", "summary"}
Inside  == Entering \cup {"signIn", "criteria", "details", "read", "forward"}

\* No job of the case holds its lock
Between == Waiting \cup {"authenticate", "checkAvailability", "beginBooking", "resume"}

\* step; applicant i of the entry; the step after it; the call a human resumes at
Place == [step : Waiting \cup Calls \cup Inside, i : Nat, then : Calls \cup {"read"},
          back : Calls \cup {"ended"}]
Start == [step |-> "authenticate", i |-> 0, then |-> "authenticate", back |-> "authenticate"]

TypeOK ==
  /\ mode \in {"cdp", "launch", "local"}
  /\ session \in [Cases -> Tabs \cup {NoTab}]
  /\ DOMAIN tab = Tabs /\ \A t \in Tabs : tab[t] \in Tab
  /\ days \subseteq Days
  /\ DOMAIN at = Cases /\ \A c \in Cases : at[c] \in Place
  /\ slot \in [Cases -> Days \cup {NoDay}]
  /\ observer \in [Cases -> BOOLEAN]
  /\ events \in 0..MaxEvents

Init ==
  /\ mode \in {"cdp", "launch", "local"}
  /\ session = [c \in Cases |-> NoTab]
  /\ tab = [t \in Tabs |-> Draft("none", {})]
  /\ days \in SUBSET Days
  /\ at = [c \in Cases |-> Start]
  /\ slot = [c \in Cases |-> NoDay]
  /\ observer = [c \in Cases |-> FALSE]
  /\ events = 0

-----------------------------------------------------------------------------
(* Helpers                                                                 *)

On(c)        == tab[session[c]]
Is(c, place) == session[c] # NoTab /\ On(c).where \in place
At(c, step)  == at[c].step = step
Go(c, step)  ==
  at' = [at EXCEPT ![c] = [(IF step \in Entering THEN @ ELSE Start) EXCEPT !.step = step]]
Ask(c, back) == at' = [at EXCEPT ![c] = [Start EXCEPT !.step = "human", !.back = back]]

Set(t, draft) == tab' = [tab EXCEPT ![t] = draft]
\* A click of case c's automation that brings its tab to w
Move(c, w) == Set(session[c], [On(c) EXCEPT !.where = w, !.by = @ \cup {c}])

\* The portal takes a click or ignores it
Click(c, w) == Move(c, w) \/ UNCHANGED tab

Open      == {t \in Tabs : tab[t].where \notin Gone}
Challenged(c) == Is(c, Where \ Gone) /\ On(c).asked

\* isSessionAuthenticated: a live tab past the login; the portal's header shows
\* the link to sign out everywhere there
LoggedIn(c) == Is(c, Where \ (Gone \cup Entry))

-----------------------------------------------------------------------------
(* VfsBrowserSessionManager and the factory                                *)

\* The tab a new session gets.  Over CDP: the first of the shared context.
\* Launched: a tab of a new browser, which the profile directory that all cases
\* share allows once
Unused == {t \in Tabs : tab[t].where = "none"}
NextTab ==
  CASE Open = {}        -> IF Unused = {} THEN {} ELSE {Min(Unused)}
    [] mode = "launch"  -> {}
    [] OTHER            -> {Min(Open)}

\* getOrCreateSession and the navigation to the login page that follows it: the
\* portal shows the login or the dashboard, and a draft in the tab is dropped
OpenLogin(c) ==
  \E t \in IF session[c] # NoTab THEN {session[c]} \cap Open ELSE NextTab :
    /\ session' = [session EXCEPT ![c] = t]
    /\ \E w \in IF tab[t].where \in Gone \cup Entry THEN {"login"} ELSE {"login", "home"} :
         Set(t, Draft(w, {}))

-----------------------------------------------------------------------------
(* Logging in                                                              *)

\* Mutant: the login page is opened again although the session is there.
ReopenLogin(c) ==
  /\ At(c, "authenticate")
  /\ OpenLogin(c)
  /\ Go(c, "signIn")
  /\ UNCHANGED <<mode, days, slot, observer, events>>

\* authenticate opens the login: no session yet, or a local portal to log in to
FirstLogin(c) ==
  /\ At(c, "authenticate")
  /\ session[c] = NoTab \/ (mode = "local" /\ ~LoggedIn(c))
  /\ OpenLogin(c)
  /\ Go(c, "signIn")
  /\ UNCHANGED <<mode, days, slot, observer, events>>

\* The browser cannot be had: the job throws until its attempts are used up
NoBrowser(c) ==
  /\ At(c, "authenticate")
  /\ \/ session[c] = NoTab /\ mode = "launch" /\ Open # {}
     \/ Is(c, Gone) /\ mode = "local"
  /\ Go(c, "ended")
  /\ UNCHANGED <<mode, session, tab, days, slot, observer, events>>

\* authenticate, with a session: done if it is logged in, else wait for that
AgainLogin(c) ==
  /\ At(c, "authenticate")
  /\ session[c] # NoTab
  /\ LoggedIn(c) \/ mode # "local"
  /\ Go(c, IF LoggedIn(c) THEN "inspectRoute" ELSE "signIn")
  /\ UNCHANGED <<mode, session, tab, days, slot, observer, events>>

\* autoClickSignIn: the credentials are filled in and the button clicked; the
\* portal lets the account in or asks for a code.  The observer does it as well
ClickSignIn(c) ==
  /\ (At(c, "signIn") /\ mode # "local") \/ observer[c]
  /\ Is(c, {"login"})
  /\ ~On(c).asked
  /\ \/ Move(c, "home")
     \/ Set(session[c], [On(c) EXCEPT !.asked = TRUE])
  /\ UNCHANGED <<mode, session, days, at, slot, observer, events>>

\* 120 seconds of looking: the login is seen, or a human is asked for it
AwaitSignIn(c) ==
  /\ At(c, "signIn")
  /\ mode # "local"
  /\ IF LoggedIn(c) THEN Go(c, "inspectRoute") ELSE Ask(c, "authenticate")
  /\ UNCHANGED <<mode, session, tab, days, slot, observer, events>>

\* The profile of the case's route cannot be parsed: the case fails before a
\* session is looked for
RefuseRoute(c) ==
  /\ At(c, "authenticate")
  /\ session[c] = NoTab
  /\ Go(c, "failed")
  /\ UNCHANGED <<mode, session, tab, days, slot, observer, events>>

\* LoginPage.login: nothing to do on the dashboard; on the login form the portal
\* takes the credentials, asks for more or does not answer in time; on any other
\* page the form is not found
LoginForm(c) ==
  IF Is(c, {"login"})
    THEN Click(c, "home") \/ Set(session[c], [On(c) EXCEPT !.asked = TRUE])
    ELSE UNCHANGED tab

\* LoginForm between two looks for a challenge; without one the answer is
\* SUCCESS, logged in or not, and an error is tried again
LocalSignIn(c) ==
  /\ At(c, "signIn")
  /\ mode = "local"
  /\ IF Challenged(c)
       THEN Ask(c, "authenticate") /\ UNCHANGED tab
       ELSE /\ LoginForm(c)
            /\ IF Is(c, Where) /\ tab'[session[c]].asked
                 THEN Ask(c, "authenticate")
                 ELSE Go(c, IF Is(c, {"login", "home"}) THEN "inspectRoute" ELSE "authenticate")
  /\ UNCHANGED <<mode, session, days, slot, observer, events>>

\* processPrepareLogin: a job of its own, for a login the operator makes by hand
PrepareLogin(c) ==
  /\ events < MaxEvents
  /\ at[c].step \in Between
  /\ OpenLogin(c)
  /\ observer' = [observer EXCEPT ![c] = TRUE]
  /\ events' = events + 1
  /\ UNCHANGED <<mode, days, at, slot>>

\* startAuthObserver stops: it saw the login, the tab was closed, 25 minutes are over
ObserverStops(c) ==
  /\ observer[c]
  /\ observer' = [observer EXCEPT ![c] = FALSE]
  /\ UNCHANGED <<mode, session, tab, days, at, slot, events>>

-----------------------------------------------------------------------------
(* inspectRoute                                                            *)

\* startNewBooking: the click is taken or ignored, or the button is not found
StartNewBooking(c) ==
  \/ Go(c, "criteria") /\ (Set(session[c], Draft("criteria", {c})) \/ UNCHANGED tab)
  \/ Go(c, "failed") /\ UNCHANGED tab

\* The dashboard starts a new booking; any other page is taken as it is
InspectRoute(c) ==
  /\ At(c, "inspectRoute")
  /\ CASE session[c] = NoTab \/ Is(c, Gone) -> Go(c, "failed") /\ UNCHANGED tab
       [] Challenged(c) -> Ask(c, "authenticate") /\ UNCHANGED tab
       [] Is(c, {"home"}) /\ ~Challenged(c) -> StartNewBooking(c)
       [] OTHER -> Go(c, "criteria") /\ UNCHANGED tab
  /\ UNCHANGED <<mode, session, days, slot, observer, events>>

\* selectRouteCriteria: lists that are not there are skipped, and then whatever
\* Continue button the page has is clicked
NextOf(w) == CASE w = "criteria" -> "form"
               [] w = "summary"  -> "calendar"
               [] w = "services" -> "review"
               [] OTHER          -> w

Rendered(draft) ==
  IF draft.where = "calendar" THEN [draft EXCEPT !.shown = days] ELSE draft

PressContinue(c) ==
  Set(session[c], IF NextOf(On(c).where) = On(c).where THEN On(c)
                  ELSE Rendered([On(c) EXCEPT !.where = NextOf(@), !.by = @ \cup {c}]))

Criteria(c) ==
  /\ At(c, "criteria")
  /\ \/ /\ IF Is(c, Where \ Gone) THEN PressContinue(c) ELSE UNCHANGED tab
        /\ Go(c, "details")
     \/ Go(c, "failed") /\ UNCHANGED tab
  /\ UNCHANGED <<mode, session, days, slot, observer, events>>

Entry1(step, then) == [Start EXCEPT !.step = step, !.i = 1, !.then = then]

\* The summary is handled and the form filled in, if the page is one of them
EnterDetails(c, then) ==
  /\ CASE Is(c, {"summary"}) -> at' = [at EXCEPT ![c] = Entry1("summary", then)]
       [] Is(c, {"form"})    -> at' = [at EXCEPT ![c] = Entry1("fill", then)]
       [] OTHER              -> Go(c, then)
  /\ IF Is(c, {"form"})
       THEN Set(session[c], [On(c) EXCEPT !.clean = @ /\ On(c).listed = <<>>,
                                          !.by = @ \cup {c}])
       ELSE UNCHANGED tab

InspectDetails(c) ==
  /\ At(c, "details")
  /\ EnterDetails(c, "checkAvailability")
  /\ UNCHANGED <<mode, session, days, slot, observer, events>>

-----------------------------------------------------------------------------
(* ApplicantDetailsPage                                                    *)

\* What a throw inside the entry of applicants comes to in each call
BreakOff(c) ==
  Go(c, CASE at[c].then = "checkAvailability" -> "failed"
          [] at[c].then = "read"              -> "ended"
          [] OTHER                            -> at[c].then)

\* Type applicant i; the form may have gone, and then the entry breaks off
Fill(c) ==
  /\ At(c, "fill")
  /\ IF Is(c, {"form"})
       THEN /\ Set(session[c], [On(c) EXCEPT !.typed = Party[c][at[c].i], !.by = @ \cup {c}])
            /\ Go(c, "save")
       ELSE /\ BreakOff(c)
            /\ IF Is(c, Details \cup Booking)
                 THEN Set(session[c], [On(c) EXCEPT !.clean = FALSE])
                 ELSE UNCHANGED tab
  /\ UNCHANGED <<mode, session, days, slot, observer, events>>

\* The portal takes a Save of the typed applicant k times
Saved(c, k, w) ==
  [On(c) EXCEPT !.listed = @ \o [n \in 1..k |-> On(c).typed], !.where = w,
                !.typed = Nobody, !.by = @ \cup {c}]
Filled(c) == Is(c, {"form"}) /\ On(c).typed # Nobody

\* Mutant: Save is clicked on a form that lost what was typed.
SaveBlind(c) ==
  /\ At(c, "save")
  /\ at[c].i < Len(Party[c])
  /\ IF Is(c, {"form"}) THEN Set(session[c], Saved(c, 1, "form")) ELSE UNCHANGED tab
  /\ at' = [at EXCEPT ![c].step = "fill", ![c].i = @ + 1]
  /\ UNCHANGED <<mode, session, days, slot, observer, events>>

\* Save of all but the last: the portal shows an empty form or the summary
SaveAndNext(c) ==
  /\ At(c, "save")
  /\ at[c].i < Len(Party[c])
  /\ IF Filled(c)
       THEN \/ \E w \in Details : Set(session[c], Saved(c, 1, w))
            \/ Set(session[c], [On(c) EXCEPT !.clean = FALSE])
       ELSE UNCHANGED tab
  /\ at' = [at EXCEPT ![c].step = "fill", ![c].i = @ + 1]
  /\ UNCHANGED <<mode, session, days, slot, observer, events>>

\* Save of the last is clicked twice; the portal takes none, one or both
SaveLast(c) ==
  /\ At(c, "save")
  /\ at[c].i = Len(Party[c])
  /\ IF Filled(c)
       THEN \/ \E k \in 1..2 : /\ Set(session[c], Saved(c, k, "summary"))
                               /\ Go(c, "summary")
            \/ UNCHANGED tab /\ Go(c, at[c].then)
       ELSE UNCHANGED tab /\ Go(c, IF Is(c, {"summary"}) THEN "summary" ELSE at[c].then)
  /\ UNCHANGED <<mode, session, days, slot, observer, events>>

\* Mutant: the first entry is removed instead of the last.
RemoveHead(c) ==
  /\ At(c, "summary")
  /\ IF Is(c, {"summary"}) /\ Len(On(c).listed) > Len(Party[c])
       THEN Set(session[c], [On(c) EXCEPT !.listed = Tail(@), !.by = @ \cup {c}])
            /\ UNCHANGED at
       ELSE /\ IF Is(c, Where \ Gone) THEN PressContinue(c) ELSE UNCHANGED tab
            /\ Go(c, at[c].then)
  /\ UNCHANGED <<mode, session, days, slot, observer, events>>

\* handleSummaryPage: remove from the end what is too much, then Continue
Summary(c) ==
  /\ At(c, "summary")
  /\ IF Is(c, {"summary"}) /\ Len(On(c).listed) > Len(Party[c])
       THEN /\ Set(session[c], [On(c) EXCEPT !.listed = Front(@), !.by = @ \cup {c}])
            /\ UNCHANGED at
       ELSE /\ \/ Is(c, Where \ Gone) /\ PressContinue(c)
               \/ UNCHANGED tab
            /\ Go(c, at[c].then)
  /\ UNCHANGED <<mode, session, days, slot, observer, events>>

-----------------------------------------------------------------------------
(* checkAvailability                                                       *)

CheckAvailability(c) ==
  /\ At(c, "checkAvailability")
  /\ CASE session[c] = NoTab \/ Is(c, Gone) -> Go(c, "ended") /\ UNCHANGED tab
       [] Challenged(c) -> Ask(c, "checkAvailability") /\ UNCHANGED tab
       [] OTHER -> EnterDetails(c, "read")
  /\ UNCHANGED <<mode, session, days, slot, observer, events>>

\* Save is clicked once more on a form; no calendar ends the round with an error,
\* which nobody follows up
ReadElsewhere(c) ==
  /\ At(c, "read")
  /\ ~Is(c, {"calendar"})
  /\ IF Filled(c)
       THEN \E k \in 0..2 :
              Set(session[c], Saved(c, k, IF k = 0 THEN "form" ELSE "summary"))
       ELSE UNCHANGED tab
  /\ Go(c, "ended")
  /\ UNCHANGED <<mode, session, days, slot, observer, events>>

\* matchAvailability, on the notices of a calendar: the earliest day with room
\* for the group.  A calendar without notices: its first day
Found(c) ==
  LET fits == {d \in On(c).shown : Room[d] >= Len(Party[c])}
  IN  {Min(On(c).shown)} \cup IF fits = {} THEN {} ELSE {Min(fits)}

\* NO_SLOT is asked again later, of the same page; a group too large is not
ReadCalendar(c) ==
  /\ At(c, "read")
  /\ Is(c, {"calendar"})
  /\ \/ /\ On(c).shown = {}
        /\ Go(c, "checkAvailability")
        /\ UNCHANGED slot
     \/ /\ On(c).shown # {}
        /\ \E d \in Found(c) : slot' = [slot EXCEPT ![c] = d]
        /\ Go(c, "beginBooking")
     \/ /\ On(c).shown # {}
        /\ \A d \in On(c).shown : Room[d] < Len(Party[c])
        /\ Go(c, "ended")
        /\ UNCHANGED slot
  /\ UNCHANGED <<mode, session, tab, days, observer, events>>

-----------------------------------------------------------------------------
(* The booking job: beginBooking to getPaymentState                        *)

\* beginBooking does nothing on the portal, and its answer is not looked at
BeginBooking(c) ==
  /\ At(c, "beginBooking")
  /\ Go(c, "addApplicants")
  /\ UNCHANGED <<mode, session, tab, days, slot, observer, events>>

\* Past the form nothing is entered; an error counts as done
AddApplicants(c) ==
  /\ At(c, "addApplicants")
  /\ IF Challenged(c) THEN Ask(c, "ended") /\ UNCHANGED tab
     ELSE EnterDetails(c, "selectAppointment")
  /\ UNCHANGED <<mode, session, days, slot, observer, events>>

\* Mutant: the first day of the calendar whatever was found.
FirstOf(c) == IF On(c).shown # {} THEN Min(On(c).shown) ELSE NoDay

\* The day that was found, else the first the calendar has.  In a list the
\* selector of the day matches any item, and the first match is taken
PickDay(c) ==
  IF slot[c] \in On(c).shown /\ mode # "local" THEN slot[c]
  ELSE IF On(c).shown # {} THEN Min(On(c).shown) ELSE NoDay

\* selectSlot; the portal goes on only with a day it still has.  A challenge or
\* an error is answered and not looked at
SelectAppointment(c) ==
  /\ At(c, "selectAppointment")
  /\ IF Is(c, {"calendar"}) /\ ~Challenged(c)
       THEN LET d == PickDay(c)
            IN  \/ /\ d \in days
                   /\ Set(session[c], [On(c) EXCEPT !.day = d, !.where = "services",
                                                    !.by = @ \cup {c}])
                \/ UNCHANGED tab
       ELSE UNCHANGED tab
  /\ Go(c, IF Challenged(c) THEN "getPaymentState" ELSE "forward")
  /\ UNCHANGED <<mode, session, days, slot, observer, events>>

\* Continue on the services page, then Proceed on the review page; the portal
\* may ignore either
GoForward(c) ==
  IF Is(c, {"services", "review"})
    THEN \/ Move(c, "payment")
         \/ Move(c, "review")
         \/ UNCHANGED tab
    ELSE UNCHANGED tab

Forward(c) ==
  /\ At(c, "forward")
  /\ GoForward(c)
  /\ Go(c, "getPaymentState")
  /\ UNCHANGED <<mode, session, days, slot, observer, events>>

\* PaymentPageDetector: the page of the payment, and the review with its button
\* that says so.  ConfirmationPageDetector: the booking is confirmed
PaymentShown(draft)      == draft.where \in {"review", "payment"}
ConfirmationShown(draft) == draft.where = "confirmed"

\* Whatever the page then is, the job hands the payment over to a human
GetPaymentState(c) ==
  /\ At(c, "getPaymentState")
  /\ \/ Challenged(c) /\ Ask(c, "getPaymentState") /\ UNCHANGED tab
     \/ ~Challenged(c) /\ GoForward(c) /\ Go(c, "handoff")
  /\ UNCHANGED <<mode, session, days, slot, observer, events>>

-----------------------------------------------------------------------------
(* The session-resume job                                                  *)

\* resume: a page that is logged in is left alone; else it is reloaded, and the
\* challenge may be there still
ResumeCall(c) ==
  /\ At(c, "resume")
  /\ IF Challenged(c) /\ ~LoggedIn(c) THEN Ask(c, at[c].back)
     ELSE Go(c, IF at[c].back = "getPaymentState" THEN "handoff" ELSE at[c].back)
  /\ UNCHANGED <<mode, session, tab, days, slot, observer, events>>

\* A second resume job finds the case at its payment and looks at it again
PaidCall(c) ==
  /\ At(c, "paid")
  /\ IF Challenged(c) THEN UNCHANGED tab ELSE GoForward(c)
  /\ Go(c, IF session[c] = NoTab \/ Challenged(c) THEN "handoff"
           ELSE IF PaymentShown(tab'[session[c]]) THEN "handoff" ELSE "getConfirmation")
  /\ UNCHANGED <<mode, session, days, slot, observer, events>>

GetConfirmation(c) ==
  /\ At(c, "getConfirmation")
  /\ Go(c, IF session[c] # NoTab /\ ConfirmationShown(On(c)) THEN "confirmed" ELSE "ended")
  /\ UNCHANGED <<mode, session, tab, days, slot, observer, events>>

-----------------------------------------------------------------------------
(* The worker process                                                      *)

\* Where the job of a case is when another worker takes it up: the session map
\* is empty, and only a login or a job still in its queue goes on
Recovered(place) ==
  LET step == IF place.step \in Entering THEN place.then ELSE place.step
  IN  IF step \in Waiting \cup {"beginBooking", "resume"} THEN place
      ELSE [Start EXCEPT !.step =
              CASE step \in {"authenticate", "signIn", "inspectRoute", "criteria", "details"}
                                                          -> "authenticate"
                [] step = "checkAvailability" /\ step # place.step -> "authenticate"
                [] step \in {"checkAvailability", "read"} -> "checkAvailability"
                [] OTHER                                  -> "ended"]

\* A crash leaves the tabs of an attached Chrome open; closeAll of an orderly
\* stop closes them, as does the end of a launched browser
RestartWorker ==
  /\ events < MaxEvents
  /\ \E closed \in {{}, Open} :
       /\ mode = "launch" => closed = Open
       /\ tab' = [t \in Tabs |-> IF t \in closed THEN Draft("closed", {}) ELSE tab[t]]
  /\ session' = [c \in Cases |-> NoTab]
  /\ observer' = [c \in Cases |-> FALSE]
  /\ at' = [c \in Cases |-> Recovered(at[c])]
  /\ events' = events + 1
  /\ UNCHANGED <<mode, days, slot>>

-----------------------------------------------------------------------------
(* The human and the portal                                                *)

\* What they do when it is asked for
Helps ==
  /\ \E t \in Open :
       \/ tab[t].where = "login" /\ Set(t, Draft("home", {}))
       \/ tab[t].asked /\ Set(t, [tab[t] EXCEPT !.asked = FALSE])
       \/ tab[t].where = "payment" /\ Set(t, [tab[t] EXCEPT !.where = "confirmed"])
  /\ UNCHANGED <<mode, session, days, at, slot, observer, events>>

\* resumeAutomation, and the second resume job of a case that was handed over
Resumes ==
  /\ \E c \in Cases : \/ At(c, "human") /\ at' = [at EXCEPT ![c].step = "resume"]
                      \/ At(c, "handoff") /\ Go(c, "paid")
  /\ UNCHANGED <<mode, session, tab, days, slot, observer, events>>

\* What comes unasked: a tab is closed or brought back to the dashboard, the
\* account is logged out, a challenge comes up, a day is taken or opened, which
\* a calendar on show takes over or not
Interferes ==
  /\ events < MaxEvents
  /\ events' = events + 1
  /\ \/ /\ \E t \in Open :
             \/ Set(t, Draft("closed", {}))
             \/ tab[t].where \notin Entry /\ \E w \in {"home", "login"} : Set(t, Draft(w, {}))
             \/ Set(t, [tab[t] EXCEPT !.asked = TRUE])
        /\ UNCHANGED days
     \/ /\ \E d \in Days : days' = (days \ {d}) \cup ({d} \ days)
        /\ \/ UNCHANGED tab
           \/ tab' = [t \in Tabs |-> [tab[t] EXCEPT !.shown =
                                       IF tab[t].where = "calendar" THEN days' ELSE @]]
  /\ UNCHANGED <<mode, session, at, slot, observer>>

Login(c)  == RefuseRoute(c) \/ FirstLogin(c) \/ NoBrowser(c) \/ AgainLogin(c)
             \/ AwaitSignIn(c) \/ LocalSignIn(c)
Enters(c) == Fill(c) \/ SaveAndNext(c) \/ SaveLast(c) \/ Summary(c)
Finds(c)  == InspectRoute(c) \/ Criteria(c) \/ InspectDetails(c)
             \/ CheckAvailability(c) \/ ReadElsewhere(c) \/ ReadCalendar(c)
Books(c)  == BeginBooking(c) \/ AddApplicants(c) \/ SelectAppointment(c)
             \/ Forward(c) \/ GetPaymentState(c)
Checks(c) == ResumeCall(c) \/ PaidCall(c) \/ GetConfirmation(c)

\* The next step of the job of a case
Automation(c) == Login(c) \/ Enters(c) \/ Finds(c) \/ Books(c) \/ Checks(c)

Next ==
  \/ \E c \in Cases : \/ Automation(c)
                      \/ ClickSignIn(c)
                      \/ PrepareLogin(c)
                      \/ ObserverStops(c)
  \/ RestartWorker
  \/ Helps
  \/ Resumes
  \/ Interferes

Spec == Init /\ [][Next]_vars

-----------------------------------------------------------------------------
(* Properties                                                              *)

\* A booking that one case brought to the calendar or further lists the party of
\* that case, each traveller once and in order: the Saves that count twice are
\* taken back on the summary page.  It needs an entry that was not broken off
\* on the way, which a party of one does not
PartyBooked ==
  \A t \in Tabs : \A c \in Cases :
    tab[t].where \in Booking /\ tab[t].by = {c} /\ (tab[t].clean \/ Len(Party[c]) = 1)
      => tab[t].listed = Party[c]

\* The appointment that is booked for a case is the day its check reported,
\* unless the calendar had lost that day when it was rendered again.  (Of a list
\* of slots the first is booked, whichever was reported.)
DayMovedOnlyIfGone ==
  \A c \in Cases :
    mode # "local" /\ Is(c, Booking) /\ On(c).by = {c} /\ On(c).day # NoDay
      => On(c).day = slot[c] \/ slot[c] \notin On(c).shown

\* Automation does not undo what it has entered: a step of a job that has its
\* session leaves the draft of the tab, unless a local portal logged it out
OwnDraftKept ==
  [][\A c \in Cases :
       session[c] # NoTab /\ at'[c] # at[c] /\ On(c).listed # <<>> /\ session' = session
         => On(c)'.listed # <<>>]_vars

=============================================================================
