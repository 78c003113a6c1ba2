------------------------- MODULE VfsAdapterProofs --------------------------
(***************************************************************************)
(* Proofs about VfsAdapter, for any cases, parties, days, tabs and bounds: *)
(* a booking that one case made lists its party, its day is the one that   *)
(* was found, and a job does not drop what it has entered.                 *)
(*                                                                         *)
(* The argument: the tabs are shared, so of a draft that several cases     *)
(* moved, or nobody, nothing is claimed.  What a case knows of a draft     *)
(* that it alone moved follows its own steps: before applicant i is saved, *)
(* the first i - 1 are listed; a Save that counts twice leaves too many at *)
(* the end, and the summary takes those back.  A step of anybody else adds *)
(* itself to those that moved the draft, or starts one that nobody moved,  *)
(* or changes nothing that is known of it.                                 *)
(***************************************************************************)
EXTENDS VfsAdapter, SequenceTheorems, WellFoundedInduction, TLAPS

\* A set of numbers that is not empty has a least one.
LEMMA Least ==
  ASSUME NEW S \in SUBSET Nat, S # {}
  PROVE  Min(S) \in S
<1>1. S \subseteq Nat
  OBVIOUS
<1>2. PICK x \in S : \A y \in S : ~ (<<y, x>> \in OpToRel(<, Nat))
  BY <1>1, NatLessThanWellFounded, WFMin
<1>3. \A y \in S : ~ (y < x)
  BY <1>1, <1>2 DEF OpToRel
<1>4. \A y \in S : x =< y
  BY <1>1, <1>3
<1>5. QED
  BY <1>4 DEF Min

\* A traveller that is not the last is followed by another one.
LEMMA NextOne ==
  ASSUME NEW n \in Nat, NEW i \in 1..n, i < n
  PROVE  n # 1 /\ i + 1 \in 1..n
OBVIOUS

USE PartyAssumption, DaysAssumption, BoundsAssumption

-----------------------------------------------------------------------------
(* The invariant                                                           *)

\* What a draft may be: one before the form is empty; one that no case moved is
\* not on its way; a day is chosen on the calendar, which is left with it.
Early == Gone \cup Entry \cup {"home"}
Fresh(d) == d.where \in Early \cup {"criteria"} => d.listed = <<>> /\ d.typed = Nobody
Moved(d) == d.by = {} => d.where \in Early
Dated(d) == d.day # NoDay => d.where \in Booking \ {"calendar"}
DraftOk(d) == d \in Tab /\ Fresh(d) /\ Moved(d) /\ Dated(d)

\* An entry is at one of its applicants and goes on with one of three calls; a
\* human is asked for by three calls, or for nothing that goes on.
PlaceOk(c, p) ==
  /\ p \in Place
  /\ p.step \in {"fill", "save"} => p.i \in 1..Len(Party[c])
  /\ p.step \in Entering => p.then \in {"checkAvailability", "read", "selectAppointment"}
  /\ p.back \in {"authenticate", "checkAvailability", "getPaymentState", "ended"}

\* The automation of a case has not come to the form yet.
Before(p) ==
  \/ p.step \in {"authenticate", "signIn", "inspectRoute", "criteria"}
  \/ p.step \in {"human", "resume"} /\ p.back = "authenticate"

\* The entry was not broken off, or could not be.
Good(c, d) == d.clean \/ Len(Party[c]) = 1

\* Listed are the first n of the party; all of them, and maybe more.
Lists(d, c, n) == Len(d.listed) = n /\ \A j \in 1..n : d.listed[j] = Party[c][j]
ListsAll(d, c) ==
  /\ Len(d.listed) >= Len(Party[c])
  /\ \A j \in 1..Len(Party[c]) : d.listed[j] = Party[c][j]

\* What the job of a case at place p knows of a draft that it alone moved.
FormKnown(c, d, p) ==
  /\ p.step \in {"fill", "save"} /\ Good(c, d) => Lists(d, c, p.i - 1)
  /\ p.step = "save" => d.typed = Party[c][p.i]
  /\ p.step \notin {"fill", "save"} /\ Good(c, d) /\ d.typed # Nobody =>
       d.typed = Party[c][Len(Party[c])] /\ Lists(d, c, Len(Party[c]) - 1)
  /\ Len(Party[c]) = 1 => d.listed = <<>>
SummaryKnown(c, d, p) ==
  /\ p.step # "save"
  /\ p.step = "fill" => Len(Party[c]) # 1
  /\ p.step # "fill" /\ Good(c, d) => ListsAll(d, c)
Known(c, d, p) ==
  d.by = {c} =>
    /\ Before(p) => d.where \notin Details \cup Booking
    /\ d.where = "form" => FormKnown(c, d, p)
    /\ d.where = "summary" => SummaryKnown(c, d, p)

\* The booking of a case lists its party; its day is the one that was found.
Booked(c, d) ==
  d.by = {c} /\ d.where \in Booking /\ Good(c, d) => d.listed = Party[c]
DayKept(c, d, s) ==
  d.where \in Booking /\ d.by = {c} /\ d.day # NoDay => d.day = s \/ s \notin d.shown

Typed ==
  /\ mode \in {"cdp", "launch", "local"}
  /\ session \in [Cases -> Tabs \cup {NoTab}]
  /\ tab \in [Tabs -> Tab] /\ at \in [Cases -> Place]
  /\ days \subseteq Days
  /\ slot \in [Cases -> Days \cup {NoDay}]
  /\ observer \in [Cases -> BOOLEAN]
  /\ events \in 0..MaxEvents
DraftsInv == \A t \in Tabs : DraftOk(tab[t])
PlacesInv == \A c \in Cases : PlaceOk(c, at[c])
BookedInv == \A t \in Tabs, c \in Cases : Booked(c, tab[t])
KnownInv ==
  \A c \in Cases : session[c] # NoTab =>
    Known(c, On(c), at[c]) /\ (mode # "local" => DayKept(c, On(c), slot[c]))

AdapterInv == Typed /\ DraftsInv /\ PlacesInv /\ BookedInv /\ KnownInv

-----------------------------------------------------------------------------
(* Numbers and drafts                                                      *)

\* A page that is rendered again, a challenge, or the end of an unbroken entry
\* changes nothing of what is known of a draft.
Same(e, d) ==
  /\ d.listed = e.listed /\ d.typed = e.typed /\ d.day = e.day /\ d.by = e.by
  /\ d.clean => e.clean
  /\ d.where = e.where \/ {d.where, e.where} \subseteq Booking \ {"calendar"}
  /\ d.shown = e.shown \/ e.day = NoDay

\* So whatever is known of the one draft is known of the other.
LEMMA SameKeeps ==
  ASSUME NEW c, NEW d, NEW e, NEW p, NEW s, Same(e, d)
  PROVE  /\ Known(c, e, p) => Known(c, d, p)
         /\ Booked(c, e) => Booked(c, d)
         /\ DayKept(c, e, s) => DayKept(c, d, s)
         /\ DraftOk(e) /\ d \in Tab => DraftOk(d)
<1>1. Good(c, d) => Good(c, e)
  BY DEF Same, Good
<1>2. d.where \in {"form", "summary"} \cup Early \cup {"criteria"} => e.where = d.where
  BY DEF Same, Booking, Early, Gone, Entry
<1>3. d.where \in Booking <=> e.where \in Booking
  BY DEF Same
<1>4. ASSUME Known(c, e, p), d.by = {c} PROVE Known(c, d, p)
  <2>1. e.by = {c}
    BY <1>4 DEF Same
  <2>2. FormKnown(c, e, p) => FormKnown(c, d, p)
    BY <1>1 DEF Same, FormKnown, Lists
  <2>3. SummaryKnown(c, e, p) => SummaryKnown(c, d, p)
    BY <1>1 DEF Same, SummaryKnown, ListsAll
  <2>4. d.where \in Details <=> e.where \in Details
    BY DEF Same, Details, Booking
  <2>5. QED
    BY <1>2, <1>3, <1>4, <2>1, <2>2, <2>3, <2>4 DEF Known
<1>5. Booked(c, e) => Booked(c, d)
  BY <1>1, <1>3 DEF Booked, Same
<1>6. DayKept(c, e, s) => DayKept(c, d, s)
  BY <1>3 DEF DayKept, Same
<1>7. ASSUME DraftOk(e), d \in Tab PROVE DraftOk(d)
  <2>1. Fresh(d)
    BY <1>2, <1>7 DEF Fresh, Same, DraftOk
  <2>2. d.where \in Early <=> e.where \in Early
    BY DEF Same, Booking, Early, Gone, Entry
  <2>3. Moved(d)
    BY <1>7, <2>2 DEF Moved, Same, DraftOk
  <2>4. Dated(d)
    BY <1>7 DEF Dated, Same, DraftOk
  <2>5. QED
    BY <1>7, <2>1, <2>3, <2>4 DEF DraftOk
<1>8. QED
  BY <1>4, <1>5, <1>6, <1>7 DEF Known

\* Of a draft that others moved too, or nobody, nothing is known.
LEMMA Foreign ==
  ASSUME NEW c, NEW d, NEW p, NEW s, d.by # {c}
  PROVE  Known(c, d, p) /\ Booked(c, d) /\ DayKept(c, d, s)
BY DEF Known, Booked, DayKept

\* A new draft.
LEMMA NewDraft ==
  ASSUME NEW w \in Early \cup {"criteria"}, NEW who \in SUBSET Cases,
         who = {} => w \in Early
  PROVE  DraftOk(Draft(w, who)) /\ Draft(w, who).by = who /\ Draft(w, who).where = w
BY DEF DraftOk, Draft, Tab, Fresh, Moved, Dated, Early, Gone, Entry, Where

\* Between the entries the step of a job may change.
LEMMA PlaceChange ==
  ASSUME NEW c, NEW d, NEW p, NEW q, Known(c, d, p),
         p.step \notin {"fill", "save"}, q.step \notin {"fill", "save"},
         Before(q) => Before(p)
  PROVE  Known(c, d, q)
BY DEF Known, FormKnown, SummaryKnown
-----------------------------------------------------------------------------
(* Steps                                                                   *)

\* What everybody else knows stays true, when the drafts others may know of are
\* replaced by new ones or by drafts that are the same to them.
LEMMA OthersKeep ==
  ASSUME AdapterInv, NEW own \in SUBSET Cases,
         \A t \in Tabs : DraftOk(tab'[t]),
         \A t \in Tabs, c \in Cases \ own : Same(tab[t], tab'[t]) \/ tab'[t].by # {c},
         \A c \in Cases \ own : \/ session'[c] \in {NoTab, session[c]}
                                \/ tab'[session'[c]].by # {c},
         \A c \in Cases \ own : at'[c] = at[c] /\ slot'[c] = slot[c],
         session' \in [Cases -> Tabs \cup {NoTab}], mode' = mode
  PROVE  \A c \in Cases \ own :
           /\ \A t \in Tabs : Booked(c, tab'[t])
           /\ session'[c] # NoTab =>
                /\ Known(c, On(c)', at'[c])
                /\ mode' # "local" => DayKept(c, On(c)', slot'[c])
<1> SUFFICES ASSUME NEW c \in Cases \ own
             PROVE  /\ \A t \in Tabs : Booked(c, tab'[t])
                    /\ session'[c] # NoTab =>
                         /\ Known(c, On(c)', at'[c])
                         /\ mode' # "local" => DayKept(c, On(c)', slot'[c])
  OBVIOUS
<1>1. ASSUME NEW t \in Tabs PROVE Booked(c, tab'[t])
  <2>1. CASE tab'[t].by # {c}
    BY <2>1, Foreign
  <2>2. CASE Same(tab[t], tab'[t])
    BY <2>2, SameKeeps DEF AdapterInv, BookedInv
  <2>3. QED
    BY <2>1, <2>2
<1>2. ASSUME session'[c] # NoTab
      PROVE  /\ Known(c, On(c)', at'[c])
             /\ mode' # "local" => DayKept(c, On(c)', slot'[c])
  <2>1. session'[c] \in Tabs /\ On(c)' = tab'[session'[c]]
    BY <1>2 DEF On
  <2>2. CASE On(c)'.by # {c}
    BY <2>2, Foreign
  <2>3. CASE session'[c] = session[c] /\ Same(On(c), On(c)')
    <3>1. Known(c, On(c), at[c]) /\ (mode # "local" => DayKept(c, On(c), slot[c]))
      BY <1>2, <2>3 DEF AdapterInv, KnownInv
    <3>2. Known(c, On(c)', at[c])
      BY <2>3, <3>1, SameKeeps
    <3>3. mode # "local" => DayKept(c, On(c)', slot[c])
      BY <2>3, <3>1, SameKeeps
    <3>4. QED
      BY <3>2, <3>3
  <2>4. QED
    BY <1>2, <2>1, <2>2, <2>3 DEF On
<1>3. QED
  BY <1>1, <1>2

\* A step of one case moves it to place p.
Placed(c, p) == at' = [at EXCEPT ![c] = p] /\ PlaceOk(c, p)
Rest == UNCHANGED <<mode, session, days, observer, events>>

\* The draft d is the one of case c now, or the same as before to the others.
OwnDraft(c, d) ==
  /\ DraftOk(d) /\ (Same(On(c), d) \/ c \in d.by \/ d.by = {})
  /\ Booked(c, d)

\* A step of one case that writes its draft and its place: the invariant holds again
\* when the new draft and what the job knows of it fit.
LEMMA DraftedStep ==
  ASSUME AdapterInv, NEW c \in Cases, NEW p, NEW d, NEW s \in Days \cup {NoDay},
         session[c] # NoTab, Set(session[c], d), OwnDraft(c, d),
         Placed(c, p), Known(c, d, p), mode # "local" => DayKept(c, d, s),
         slot' = [slot EXCEPT ![c] = s], Rest
  PROVE  AdapterInv'
<1>1. Typed /\ session[c] \in Tabs /\ d \in Tab /\ p \in Place
  BY DEF AdapterInv, Typed, OwnDraft, DraftOk, Placed, PlaceOk
<1>2. Typed'
  BY <1>1 DEF Typed, Placed, Rest, Set
<1>3. On(c)' = d /\ \A t \in Tabs : t # session[c] => tab'[t] = tab[t]
  BY <1>1 DEF On, Set, Rest, Typed
<1>4. DraftsInv'
  BY <1>1, <1>3 DEF DraftsInv, AdapterInv, OwnDraft, Set, Typed
<1>5. at'[c] = p /\ slot'[c] = s /\ \A b \in Cases \ {c} : at'[b] = at[b] /\ slot'[b] = slot[b]
  BY <1>1 DEF Placed, Typed
<1>6. PlacesInv'
  BY <1>1, <1>5 DEF PlacesInv, AdapterInv, Placed
<1>7. \A t \in Tabs, b \in Cases \ {c} : Same(tab[t], tab'[t]) \/ tab'[t].by # {b}
  <2> SUFFICES ASSUME NEW t \in Tabs, NEW b \in Cases \ {c}
               PROVE  Same(tab[t], tab'[t]) \/ tab'[t].by # {b}
    OBVIOUS
  <2>1. CASE t # session[c]
    BY <1>3, <2>1 DEF Same
  <2>2. CASE t = session[c]
    <3>1. tab'[t] = d /\ tab[t] = On(c)
      BY <1>1, <2>2 DEF Set, On, Typed
    <3>2. CASE c \in d.by \/ d.by = {}
      BY <3>1, <3>2
    <3>3. QED
      BY <3>1, <3>2 DEF OwnDraft
  <2>3. QED
    BY <2>1, <2>2
<1>8. \A b \in Cases \ {c} :
           /\ \A t \in Tabs : Booked(b, tab'[t])
           /\ session'[b] # NoTab =>
                /\ Known(b, On(b)', at'[b])
                /\ mode' # "local" => DayKept(b, On(b)', slot'[b])
  <2>1. /\ \A t \in Tabs : DraftOk(tab'[t])
        /\ session' \in [Cases -> Tabs \cup {NoTab}] /\ mode' = mode
        /\ \A b \in Cases \ {c} : session'[b] = session[b]
    BY <1>2, <1>4 DEF DraftsInv, Typed, Rest
  <2>2. \A b \in Cases \ {c} : \/ session'[b] \in {NoTab, session[b]}
                                \/ tab'[session'[b]].by # {b}
    BY <2>1
  <2>3. \A b \in Cases \ {c} : at'[b] = at[b] /\ slot'[b] = slot[b]
    BY <1>5
  <2>4. QED
    BY <1>7, <2>1, <2>2, <2>3, OthersKeep
<1>9. /\ \A t \in Tabs : Booked(c, tab'[t])
      /\ Known(c, On(c)', at'[c])
      /\ mode' # "local" => DayKept(c, On(c)', slot'[c])
  <2>1. \A t \in Tabs : tab'[t] = tab[t] \/ tab'[t] = d
    BY <1>1, <1>3 DEF Set, Typed
  <2>2. \A t \in Tabs : Booked(c, tab'[t])
    BY <2>1 DEF OwnDraft, AdapterInv, BookedInv
  <2>3. QED
    BY <1>3, <1>5, <2>2 DEF Rest
<1>10. BookedInv' /\ KnownInv'
  BY <1>8, <1>9 DEF BookedInv, KnownInv
<1>11. QED
  BY <1>2, <1>4, <1>6, <1>10 DEF AdapterInv

\* The same without a change of the draft, or with a new day found.
LEMMA PlacedStep ==
  ASSUME AdapterInv, NEW c \in Cases, NEW p, NEW s \in Days \cup {NoDay},
         UNCHANGED tab, Placed(c, p), slot' = [slot EXCEPT ![c] = s], Rest,
         session[c] # NoTab =>
           Known(c, On(c), p) /\ (mode # "local" => DayKept(c, On(c), s))
  PROVE  AdapterInv'
<1>1. CASE session[c] # NoTab
  <2>1. session[c] \in Tabs /\ tab \in [Tabs -> Tab] /\ On(c) = tab[session[c]]
    BY <1>1 DEF AdapterInv, Typed, On
  <2>2. Set(session[c], On(c))
    BY <2>1 DEF Set
  <2>3. OwnDraft(c, On(c))
    BY <2>1 DEF OwnDraft, AdapterInv, DraftsInv, BookedInv, Same
  <2>4. QED
    BY <1>1, <2>2, <2>3, DraftedStep
<1>2. CASE session[c] = NoTab
  <2>1. Typed /\ p \in Place
    BY DEF AdapterInv, Placed, PlaceOk
  <2>2. Typed'
    BY <2>1 DEF Typed, Placed, Rest
  <2>3. at'[c] = p /\ \A b \in Cases \ {c} : at'[b] = at[b] /\ slot'[b] = slot[b]
    BY <2>1 DEF Placed, Typed
  <2>4. DraftsInv' /\ BookedInv'
    BY DEF AdapterInv, DraftsInv, BookedInv
  <2>5. PlacesInv'
    BY <2>3 DEF AdapterInv, PlacesInv, Placed
  <2>6. KnownInv'
    BY <1>2, <2>3 DEF AdapterInv, KnownInv, Rest, On
  <2>7. QED
    BY <2>2, <2>4, <2>5, <2>6 DEF AdapterInv
<1>3. QED
  BY <1>1, <1>2

\* Go to a step that is not one of an entry.
Just(step) == [Start EXCEPT !.step = step]
Plain == Waiting \cup Calls \cup (Inside \ Entering)

\* It is a place a job may be at, and before the form only if its step is.
LEMMA JustFits ==
  ASSUME NEW step \in Plain
  PROVE  /\ \A c : PlaceOk(c, Just(step))
         /\ Just(step).step = step /\ step \notin {"fill", "save"}
         /\ Before(Just(step)) <=> step \in {"authenticate", "signIn", "inspectRoute", "criteria",
                                           "human", "resume"}
BY DEF PlaceOk, Just, Plain, Start, Place, Waiting, Calls, Inside, Entering, Before

\* Go leads there.
LEMMA Goes ==
  ASSUME NEW c \in Cases, NEW step \in Plain, Go(c, step)
  PROVE  Placed(c, Just(step))
<1>1. step \notin Entering
  BY DEF Plain, Waiting, Calls, Inside, Entering
<1>2. QED
  BY <1>1, JustFits DEF Go, Placed, Just

\* A human is asked for.
LEMMA Asks ==
  ASSUME NEW c \in Cases, NEW back \in {"authenticate", "checkAvailability", "getPaymentState", "ended"},
         Ask(c, back)
  PROVE  /\ Placed(c, [Start EXCEPT !.step = "human", !.back = back])
         /\ Before([Start EXCEPT !.step = "human", !.back = back]) <=> back = "authenticate"
BY DEF Placed, PlaceOk, Ask, Start, Place, Waiting, Calls, Inside, Entering, Before

\* A job goes on between entries and leaves its draft.
LEMMA PassStep ==
  ASSUME AdapterInv, NEW c \in Cases, NEW p, Placed(c, p), UNCHANGED <<tab, slot>>, Rest,
         at[c].step \notin {"fill", "save"}, p.step \notin {"fill", "save"},
         Before(p) => Before(at[c])
  PROVE  AdapterInv'
<1>1. slot' = [slot EXCEPT ![c] = slot[c]] /\ slot[c] \in Days \cup {NoDay}
  BY DEF AdapterInv, Typed
<1>2. session[c] # NoTab =>
        Known(c, On(c), p) /\ (mode # "local" => DayKept(c, On(c), slot[c]))
  BY PlaceChange DEF AdapterInv, KnownInv
<1>3. QED
  BY <1>1, <1>2, PlacedStep

\* So it does when it goes to a step of no entry,
LEMMA GoStep ==
  ASSUME AdapterInv, NEW c \in Cases, NEW step \in Plain, Go(c, step),
         UNCHANGED <<tab, slot>>, Rest, at[c].step \notin {"fill", "save"},
         Before(Just(step)) => Before(at[c])
  PROVE  AdapterInv'
<1>1. Placed(c, Just(step)) /\ Just(step).step \notin {"fill", "save"}
  BY Goes, JustFits
<1>2. QED
  BY <1>1, PassStep

\* or asks for a human.
LEMMA AskStep ==
  ASSUME AdapterInv, NEW c \in Cases,
         NEW back \in {"authenticate", "checkAvailability", "getPaymentState", "ended"}, Ask(c, back),
         UNCHANGED <<tab, slot>>, Rest, at[c].step \notin {"fill", "save"},
         back = "authenticate" => Before(at[c])
  PROVE  AdapterInv'
<1> DEFINE p == [Start EXCEPT !.step = "human", !.back = back]
<1>1. Placed(c, p) /\ (Before(p) <=> back = "authenticate")
  BY Asks
<1>2. p.step \notin {"fill", "save"}
  BY DEF Start
<1> HIDE DEF p
<1>3. QED
  BY <1>1, <1>2, PassStep

\* A draft on its way that a case moves alone with the next click was its own.
LEMMA Mine ==
  ASSUME NEW c, NEW e, DraftOk(e), e.where \notin Early, e.by \cup {c} = {c}
  PROVE  e.by = {c}
BY DEF DraftOk, Moved

\* The draft of a case that has a session.
LEMMA Own ==
  ASSUME AdapterInv, NEW c \in Cases, session[c] # NoTab
  PROVE  /\ session[c] \in Tabs /\ On(c) = tab[session[c]]
         /\ On(c) \in Tab /\ DraftOk(On(c)) /\ Known(c, On(c), at[c]) /\ Booked(c, On(c))
         /\ mode # "local" => DayKept(c, On(c), slot[c])
         /\ slot[c] \in Days \cup {NoDay} /\ slot = [slot EXCEPT ![c] = slot[c]]
BY DEF AdapterInv, Typed, DraftsInv, KnownInv, BookedInv, On

\* The pages after the calendar.
LEMMA ForwardStep ==
  ASSUME AdapterInv, NEW c \in Cases, GoForward(c), NEW p, Placed(c, p), UNCHANGED slot, Rest,
         at[c].step \notin {"fill", "save"}, p.step \notin {"fill", "save"}, ~Before(p)
  PROVE  AdapterInv'
<1>1. CASE UNCHANGED tab
  BY <1>1, PassStep
<1>2. ASSUME NEW w \in {"payment", "review"}, Move(c, w), Is(c, {"services", "review"})
      PROVE  AdapterInv'
  <2> DEFINE e == On(c)
             d == [e EXCEPT !.where = w, !.by = @ \cup {c}]
  <2>1. session[c] # NoTab /\ e.where \in {"services", "review"} /\ Set(session[c], d)
    BY <1>2 DEF Is, Move
  <2>2. /\ e \in Tab /\ DraftOk(e) /\ Booked(c, e) /\ slot[c] \in Days \cup {NoDay}
        /\ mode # "local" => DayKept(c, e, slot[c])
    BY <2>1, Own
  <2> HIDE DEF e
  <2>3. /\ d \in Tab /\ c \in d.by /\ d.where = w /\ d.listed = e.listed /\ d.clean = e.clean
        /\ d.day = e.day /\ d.shown = e.shown /\ d.by = e.by \cup {c}
    BY <2>2 DEF Tab, Where, Booking
  <2> HIDE DEF d
  <2>4. DraftOk(d)
    BY <2>3 DEF DraftOk, Fresh, Moved, Dated, Early, Gone, Entry, Booking
  <2>5. d.by = {c} => e.by = {c}
    BY <2>1, <2>2, <2>3, Mine DEF Early, Gone, Entry
  <2>6. Booked(c, d)
    BY <2>1, <2>2, <2>3, <2>5 DEF Booked, Good, Booking
  <2>7. mode # "local" => DayKept(c, d, slot[c])
    BY <2>1, <2>2, <2>3, <2>5 DEF DayKept, Booking
  <2>8. Known(c, d, p)
    BY <2>3 DEF Known
  <2>9. slot' = [slot EXCEPT ![c] = slot[c]]
    BY DEF AdapterInv, Typed
  <2>10. OwnDraft(c, d)
    BY <2>3, <2>4, <2>6 DEF OwnDraft
  <2>11. QED
    BY <2>1, <2>2, <2>7, <2>8, <2>9, <2>10, DraftedStep
<1>3. QED
  BY <1>1, <1>2 DEF GoForward

-----------------------------------------------------------------------------
(* The entry of applicants                                                 *)

\* Saving k times.
LEMMA Repeated ==
  ASSUME NEW A, NEW s \in Seq(A), NEW x \in A, NEW k \in 0..2, NEW r,
         r = s \o [n \in 1..k |-> x]
  PROVE  /\ r \in Seq(A) /\ Len(r) = Len(s) + k
         /\ \A j \in 1..Len(s) : r[j] = s[j]
         /\ \A j \in 1..k : r[Len(s) + j] = x
<1>1. [n \in 1..k |-> x] \in Seq(A) /\ Len([n \in 1..k |-> x]) = k
  OBVIOUS
<1>2. r \in Seq(A) /\ Len(r) = Len(s) + k
  BY <1>1
<1>3. \A j \in 1..Len(s) : r[j] = s[j]
  BY <1>1
<1>4. \A j \in 1..k : r[Len(s) + j] = x
  BY <1>1
<1>5. QED
  BY <1>2, <1>3, <1>4

\* The draft after a click that leads to w and changes nothing of the list.
LEMMA SavedDraft ==
  ASSUME AdapterInv, NEW c \in Cases, session[c] # NoTab, Filled(c), NEW k \in 0..2,
         NEW w \in Details, NEW d, d = Saved(c, k, w)
  PROVE  /\ DraftOk(d) /\ OwnDraft(c, d) /\ d.where = w /\ d.typed = Nobody
         /\ d.clean = On(c).clean /\ d.by = On(c).by \cup {c} /\ (d.by = {c} => On(c).by = {c})
         /\ Len(d.listed) = Len(On(c).listed) + k
         /\ \A j \in 1..Len(On(c).listed) : d.listed[j] = On(c).listed[j]
         /\ \A j \in 1..k : d.listed[Len(On(c).listed) + j] = On(c).typed
         /\ \A s : DayKept(c, d, s)
<1> DEFINE e == On(c)
           r == e.listed \o [n \in 1..k |-> e.typed]
<1>1. d = [e EXCEPT !.listed = r, !.where = w, !.typed = Nobody, !.by = @ \cup {c}]
  BY DEF Saved
<1>2. e \in Tab /\ DraftOk(e) /\ e.where = "form" /\ e.typed # Nobody
  BY Own DEF Filled, Is
<1>3. e.listed \in Seq(Applicants) /\ e.typed \in Applicants
  BY <1>2 DEF Tab
<1>4. /\ r \in Seq(Applicants) /\ Len(r) = Len(e.listed) + k
      /\ \A j \in 1..Len(e.listed) : r[j] = e.listed[j]
      /\ \A j \in 1..k : r[Len(e.listed) + j] = e.typed
  <2>1. r = e.listed \o [n \in 1..k |-> e.typed]
    OBVIOUS
  <2>2. k \in 0..2
    OBVIOUS
  <2> HIDE DEF r, e
  <2>3. QED
    BY ONLY <1>3, <2>1, <2>2, Repeated
<1> HIDE DEF r, e
<1>5. /\ d \in Tab /\ c \in d.by /\ d.where = w /\ d.listed = r /\ d.clean = e.clean
      /\ d.typed = Nobody /\ d.day = e.day /\ d.by = e.by \cup {c}
  <2>1. /\ e \in Tab /\ r \in Seq(Applicants) /\ w \in Where /\ c \in Cases
        /\ d = [e EXCEPT !.listed = r, !.where = w, !.typed = Nobody, !.by = @ \cup {c}]
    BY <1>1, <1>2, <1>4 DEF Where
  <2>2. QED
    BY ONLY <2>1 DEF Tab
<1>6. DraftOk(d)
  BY <1>2, <1>5 DEF DraftOk, Fresh, Moved, Dated, Early, Gone, Entry, Booking, Details
<1>7. d.by = {c} => e.by = {c}
  BY <1>2, <1>5, Mine DEF Early, Gone, Entry
<1>8. Booked(c, d) /\ \A s : DayKept(c, d, s)
  BY <1>5 DEF Booked, DayKept, Booking, Details
<1>9. OwnDraft(c, d)
  BY <1>5, <1>6, <1>8 DEF OwnDraft
<1>10. QED
  BY <1>4, <1>5, <1>6, <1>7, <1>8, <1>9 DEF e

\* Continue on the criteria, the summary, the services.
LEMMA PressStep ==
  ASSUME AdapterInv, NEW c \in Cases, session[c] # NoTab, PressContinue(c),
         NEW p, Placed(c, p), UNCHANGED slot, Rest,
         at[c].step \notin {"fill", "save"}, p.step \notin {"fill", "save"}, ~Before(p),
         On(c).where = "summary" /\ On(c).by = {c} /\ Good(c, On(c)) =>
           On(c).listed = Party[c]
  PROVE  AdapterInv'
<1> DEFINE e == On(c)
           m == [e EXCEPT !.where = NextOf(@), !.by = @ \cup {c}]
<1>1. e \in Tab /\ DraftOk(e) /\ Known(c, e, at[c]) /\ Booked(c, e)
  BY Own
<1>2. slot' = [slot EXCEPT ![c] = slot[c]] /\ slot[c] \in Days \cup {NoDay}
  BY Own
<1>3. mode # "local" => DayKept(c, e, slot[c])
  BY Own
<1>4. ASSUME NextOf(e.where) = e.where PROVE AdapterInv'
  <2>1. Set(session[c], e)
    BY <1>4 DEF PressContinue
  <2>2. OwnDraft(c, e)
    BY <1>1 DEF OwnDraft, Same
  <2>3. Known(c, e, p)
    BY <1>1, PlaceChange
  <2>4. QED
    BY <1>2, <1>3, <2>1, <2>2, <2>3, DraftedStep
<1>5. ASSUME NextOf(e.where) # e.where PROVE AdapterInv'
  <2> DEFINE d == Rendered(m)
  <2>1. Set(session[c], d)
    BY <1>5 DEF PressContinue
  <2>2. e.where \in {"criteria", "summary", "services"}
    BY <1>5 DEF NextOf
  <2>3. NextOf(e.where) \in {"form", "calendar", "review"}
    BY <2>2 DEF NextOf
  <2> HIDE DEF e
  <2>4. /\ m \in Tab /\ m.where = NextOf(e.where) /\ m.by = e.by \cup {c}
        /\ m.listed = e.listed /\ m.typed = e.typed /\ m.day = e.day /\ m.clean = e.clean
        /\ m.shown = e.shown
    BY <1>1, <2>3 DEF Tab, Where, Details, Booking
  <2> HIDE DEF m
  <2>5. /\ d \in Tab /\ d.where = NextOf(e.where) /\ d.by = e.by \cup {c} /\ c \in d.by
        /\ d.listed = e.listed /\ d.typed = e.typed /\ d.day = e.day /\ d.clean = e.clean
        /\ d.where # "calendar" => d.shown = e.shown
    BY <2>4 DEF Rendered, Tab, AdapterInv, Typed
  <2> HIDE DEF d
  <2>6. DraftOk(d)
    BY <1>1, <2>2, <2>3, <2>5 DEF DraftOk, Fresh, Moved, Dated, Early, Gone, Entry, Booking, NextOf
  <2>7. d.by = {c} => e.by = {c}
    BY <1>1, <2>2, <2>5, Mine DEF Early, Gone, Entry, DraftOk, Moved
  <2>8. Booked(c, d)
    BY <1>1, <2>2, <2>5, <2>7 DEF Booked, Good, NextOf, Booking, e
  <2>9. mode # "local" => DayKept(c, d, slot[c])
    BY <1>1, <1>3, <2>2, <2>5, <2>7 DEF DayKept, NextOf, Booking, DraftOk, Dated
  <2>10. Known(c, d, p)
    <3>1. CASE e.where = "criteria"
      <4>1. d.listed = <<>> /\ d.typed = Nobody /\ d.where = "form"
        BY <1>1, <2>5, <3>1 DEF DraftOk, Fresh, NextOf
      <4>2. FormKnown(c, d, p)
        BY <4>1 DEF FormKnown
      <4>3. QED
        BY <4>1, <4>2 DEF Known
    <3>2. CASE e.where # "criteria"
      BY <2>2, <2>5, <3>2 DEF Known, NextOf
    <3>3. QED
      BY <3>1, <3>2
  <2>11. OwnDraft(c, d)
    BY <2>5, <2>6, <2>8 DEF OwnDraft
  <2>12. QED
    BY <1>2, <2>1, <2>9, <2>10, <2>11, DraftedStep
<1>6. QED
  BY <1>4, <1>5

\* An entry begins, or the page has neither form nor summary.
LEMMA EnterStep ==
  ASSUME AdapterInv, NEW c \in Cases,
         NEW then \in {"checkAvailability", "read", "selectAppointment"},
         EnterDetails(c, then), UNCHANGED slot, Rest, at[c].step \notin {"fill", "save"}
  PROVE  AdapterInv'
<1>1. CASE Is(c, {"form"})
  <2> DEFINE e == On(c)
             d == [e EXCEPT !.clean = @ /\ e.listed = <<>>, !.by = @ \cup {c}]
             p == Entry1("fill", then)
  <2>1. session[c] # NoTab /\ e.where = "form" /\ Set(session[c], d) /\ at' = [at EXCEPT ![c] = p]
    BY <1>1 DEF EnterDetails, Is
  <2>2. /\ e \in Tab /\ DraftOk(e) /\ Known(c, e, at[c])
        /\ slot' = [slot EXCEPT ![c] = slot[c]] /\ slot[c] \in Days \cup {NoDay}
    BY <2>1, Own
  <2> HIDE DEF e
  <2>3. /\ d \in Tab /\ c \in d.by /\ d.where = "form" /\ d.listed = e.listed
        /\ d.clean = (e.clean /\ e.listed = <<>>) /\ d.day = e.day /\ d.by = e.by \cup {c}
    BY <2>1, <2>2 DEF Tab
  <2> HIDE DEF d
  <2>4. DraftOk(d)
    BY <2>1, <2>2, <2>3 DEF DraftOk, Fresh, Moved, Dated, Early, Gone, Entry, Booking
  <2>5. d.by = {c} => e.by = {c}
    BY <2>1, <2>2, <2>3, Mine DEF Early, Gone, Entry
  <2>6. p.step = "fill" /\ p.i = 1 /\ p.then = then /\ p.back = "authenticate" /\ p \in Place
    BY DEF Entry1, Start, Place, Entering, Inside, Calls, Waiting
  <2> HIDE DEF p
  <2>7. Placed(c, p)
    BY <2>1, <2>6 DEF Placed, PlaceOk
  <2>8. Len(Party[c]) = 1 /\ e.by = {c} => e.listed = <<>>
    BY <2>1, <2>2 DEF Known, FormKnown
  <2>9. d.by = {c} => FormKnown(c, d, p)
    <3>1. d.by = {c} /\ Good(c, d) => d.listed = <<>>
      BY <2>3, <2>5, <2>8 DEF Good
    <3>2. d.listed = <<>> => Lists(d, c, 0)
      BY DEF Lists
    <3>3. d.by = {c} /\ Len(Party[c]) = 1 => d.listed = <<>>
      BY <2>3, <2>5, <2>8
    <3>4. p.i - 1 = 0
      BY <2>6
    <3>5. QED
      BY <2>6, <3>1, <3>2, <3>3, <3>4 DEF FormKnown
  <2>10. Known(c, d, p)
    BY <2>3, <2>6, <2>9 DEF Known, Before
  <2>11. OwnDraft(c, d) /\ DayKept(c, d, slot[c])
    BY <2>3, <2>4 DEF OwnDraft, Booked, DayKept, Booking
  <2>12. QED
    BY <2>1, <2>2, <2>7, <2>10, <2>11, DraftedStep
<1>2. CASE Is(c, {"summary"})
  <2> DEFINE p == Entry1("summary", then)
  <2>1. at' = [at EXCEPT ![c] = p] /\ UNCHANGED tab
    BY <1>2 DEF EnterDetails, Is
  <2>2. p.step = "summary" /\ p.then = then /\ p.back = "authenticate" /\ p \in Place
    BY DEF Entry1, Start, Place, Entering, Inside, Calls, Waiting
  <2> HIDE DEF p
  <2>3. Placed(c, p) /\ ~Before(p)
    BY <2>1, <2>2 DEF Placed, PlaceOk, Before
  <2>4. QED
    BY <2>1, <2>2, <2>3, PassStep
<1>3. CASE ~Is(c, {"form"}) /\ ~Is(c, {"summary"})
  <2>1. UNCHANGED tab /\ Go(c, then) /\ then \in Plain
    BY <1>3 DEF EnterDetails, Plain, Calls, Waiting, Inside, Entering
  <2>2. ~Before(Just(then))
    BY <2>1, JustFits
  <2>3. QED
    BY <2>1, <2>2, GoStep
<1>4. QED
  BY <1>1, <1>2, <1>3

-----------------------------------------------------------------------------
(* The actions                                                             *)

\* A login is opened in a tab that exists.
LEMMA NextTabs == NextTab \subseteq Tabs
<1>1. Unused \in SUBSET Tabs /\ Open \in SUBSET Tabs /\ Tabs \in SUBSET Nat
  BY DEF Unused, Open, Tabs
<1>2. Unused # {} => Min(Unused) \in Tabs
  BY <1>1, Least
<1>3. Open # {} => Min(Open) \in Tabs
  BY <1>1, Least
<1>4. CASE Open = {}
  BY <1>2, <1>4 DEF NextTab
<1>5. CASE Open # {}
  BY <1>3, <1>5 DEF NextTab
<1>6. QED
  BY <1>4, <1>5

\* Opening a login replaces a draft by one that no case moved.
LEMMA LoginStep ==
  ASSUME AdapterInv, NEW c \in Cases, OpenLogin(c), NEW p, Placed(c, p),
         UNCHANGED <<mode, days, slot>>,
         observer' \in [Cases -> BOOLEAN], events' \in 0..MaxEvents
  PROVE  AdapterInv'
<1>1. PICK t \in Tabs : session' = [session EXCEPT ![c] = t]
                       /\ \E w \in {"login", "home"} : Set(t, Draft(w, {}))
  BY NextTabs DEF OpenLogin, Open
<1>2. PICK w \in {"login", "home"} : Set(t, Draft(w, {}))
  BY <1>1
<1> DEFINE d == Draft(w, {})
<1>3. DraftOk(d) /\ d.by = {}
  BY NewDraft DEF Early, Entry
<1> HIDE DEF d
<1>4. Typed /\ d \in Tab /\ p \in Place
  BY <1>3 DEF AdapterInv, DraftOk, Placed, PlaceOk
<1>5. tab' = [tab EXCEPT ![t] = d]
  BY <1>2 DEF Set, d
<1>6. Typed'
  BY <1>1, <1>4, <1>5 DEF Typed, Placed
<1>7. /\ tab'[t] = d /\ session'[c] = t /\ at'[c] = p /\ slot' = slot
      /\ \A u \in Tabs : u # t => tab'[u] = tab[u]
      /\ \A b \in Cases \ {c} : session'[b] = session[b] /\ at'[b] = at[b]
  BY <1>1, <1>4, <1>5 DEF Typed, Placed
<1>8. DraftsInv' /\ PlacesInv'
  BY <1>3, <1>7 DEF DraftsInv, PlacesInv, AdapterInv, Placed
<1>9. /\ \A u \in Tabs : DraftOk(tab'[u])
      /\ \A u \in Tabs, b \in Cases \ {c} : Same(tab[u], tab'[u]) \/ tab'[u].by # {b}
  BY <1>3, <1>7, <1>8 DEF DraftsInv, Same
<1>10. /\ \A b \in Cases \ {c} : \/ session'[b] \in {NoTab, session[b]}
                                 \/ tab'[session'[b]].by # {b}
       /\ \A b \in Cases \ {c} : at'[b] = at[b] /\ slot'[b] = slot[b]
       /\ session' \in [Cases -> Tabs \cup {NoTab}] /\ mode' = mode
  BY <1>6, <1>7 DEF Typed
<1>11. \A b \in Cases \ {c} :
           /\ \A u \in Tabs : Booked(b, tab'[u])
           /\ session'[b] # NoTab =>
                /\ Known(b, On(b)', at'[b])
                /\ mode' # "local" => DayKept(b, On(b)', slot'[b])
  BY <1>9, <1>10, OthersKeep
<1>12. Booked(c, d) /\ Known(c, d, at'[c]) /\ DayKept(c, d, slot'[c]) /\ On(c)' = d
  BY <1>3, <1>7, Foreign DEF On
<1>13. \A u \in Tabs : Booked(c, tab'[u])
  BY <1>7, <1>12 DEF AdapterInv, BookedInv
<1>14. BookedInv' /\ KnownInv'
  BY <1>11, <1>12, <1>13 DEF BookedInv, KnownInv
<1>15. QED
  BY <1>6, <1>8, <1>14 DEF AdapterInv

\* The automation looks at the portal or is done; the human signs in.
LEMMA QuietSteps ==
  ASSUME AdapterInv, NEW c \in Cases,
         \/ RefuseRoute(c) \/ NoBrowser(c) \/ AgainLogin(c) \/ AwaitSignIn(c)
         \/ BeginBooking(c) \/ GetConfirmation(c) \/ ResumeCall(c)
  PROVE  AdapterInv'
<1> USE DEF Plain, Waiting, Calls, Inside, Entering, Rest, At
<1>1. CASE RefuseRoute(c)
  <2>1. ~Before(Just("failed"))
    BY JustFits
  <2>2. QED
    BY <1>1, <2>1, GoStep DEF RefuseRoute
<1>2. CASE NoBrowser(c)
  <2>1. ~Before(Just("ended"))
    BY JustFits
  <2>2. QED
    BY <1>2, <2>1, GoStep DEF NoBrowser
<1>3. CASE AgainLogin(c)
  <2>1. Before(at[c])
    BY <1>3 DEF AgainLogin, Before
  <2>2. QED
    BY <1>3, <2>1, GoStep DEF AgainLogin
<1>4. CASE AwaitSignIn(c)
  <2>1. Before(at[c])
    BY <1>4 DEF AwaitSignIn, Before
  <2>2. CASE LoggedIn(c)
    BY <1>4, <2>1, <2>2, GoStep DEF AwaitSignIn
  <2>3. CASE ~LoggedIn(c)
    BY <1>4, <2>1, <2>3, AskStep DEF AwaitSignIn
  <2>4. QED
    BY <2>2, <2>3
<1>5. CASE BeginBooking(c)
  <2>1. ~Before(Just("addApplicants"))
    BY JustFits
  <2>2. QED
    BY <1>5, <2>1, GoStep DEF BeginBooking
<1>6. CASE GetConfirmation(c)
  <2>1. ~Before(Just("ended")) /\ ~Before(Just("confirmed"))
    BY JustFits
  <2>2. QED
    BY <1>6, <2>1, GoStep DEF GetConfirmation
<1>7. CASE ResumeCall(c)
  <2> DEFINE back == at[c].back
  <2>1. /\ back \in {"authenticate", "checkAvailability", "getPaymentState", "ended"}
        /\ at[c].step = "resume"
    BY <1>7 DEF AdapterInv, PlacesInv, PlaceOk, ResumeCall
  <2>2. back = "authenticate" => Before(at[c])
    BY <2>1 DEF Before
  <2>3. CASE Challenged(c) /\ ~LoggedIn(c)
    BY <1>7, <2>1, <2>2, <2>3, AskStep DEF ResumeCall
  <2>4. CASE ~(Challenged(c) /\ ~LoggedIn(c))
    <3>1. PICK step \in {"authenticate", "checkAvailability", "handoff", "ended"} :
            Go(c, step) /\ (step = "authenticate" => back = "authenticate")
      BY <1>7, <2>1, <2>4 DEF ResumeCall
    <3>2. Before(Just(step)) => step = "authenticate"
      BY JustFits
    <3>3. QED
      BY <1>7, <2>1, <2>2, <3>1, <3>2, GoStep DEF ResumeCall
  <2>5. QED
    BY <2>3, <2>4
<1>8. QED
  BY <1>1, <1>2, <1>3, <1>4, <1>5, <1>6, <1>7

\* The login is opened.
LEMMA OpeningSteps ==
  ASSUME AdapterInv, NEW c \in Cases, FirstLogin(c) \/ PrepareLogin(c)
  PROVE  AdapterInv'
<1>1. CASE FirstLogin(c)
  <2>1. Placed(c, Just("signIn"))
    BY <1>1, Goes DEF FirstLogin, Plain, Inside, Entering
  <2>2. observer' \in [Cases -> BOOLEAN] /\ events' \in 0..MaxEvents
    BY <1>1 DEF FirstLogin, AdapterInv, Typed
  <2>3. QED
    BY <1>1, <2>1, <2>2, LoginStep DEF FirstLogin
<1>2. CASE PrepareLogin(c)
  <2>1. Placed(c, at[c])
    BY <1>2 DEF PrepareLogin, Placed, AdapterInv, PlacesInv, Typed
  <2>2. observer' \in [Cases -> BOOLEAN] /\ events' \in 0..MaxEvents
    BY <1>2 DEF PrepareLogin, AdapterInv, Typed
  <2>3. QED
    BY <1>2, <2>1, <2>2, LoginStep DEF PrepareLogin
<1>3. QED
  BY <1>1, <1>2

\* The observer stops watching.
LEMMA ObserverStep ==
  ASSUME AdapterInv, NEW c \in Cases, ObserverStops(c)
  PROVE  AdapterInv'
<1>1. Typed'
  BY DEF ObserverStops, AdapterInv, Typed
<1>2. DraftsInv' /\ PlacesInv' /\ BookedInv' /\ KnownInv'
  BY DEF ObserverStops, AdapterInv, DraftsInv, PlacesInv, BookedInv, KnownInv, On
<1>3. QED
  BY <1>1, <1>2 DEF AdapterInv

\* A draft that is the same to everybody.
LEMMA SameStep ==
  ASSUME AdapterInv, NEW c \in Cases, session[c] # NoTab, NEW d \in Tab, Same(On(c), d),
         Set(session[c], d), NEW p, Placed(c, p), Known(c, On(c), p), UNCHANGED slot, Rest
  PROVE  AdapterInv'
<1>1. /\ DraftOk(On(c)) /\ Booked(c, On(c)) /\ (mode # "local" => DayKept(c, On(c), slot[c]))
      /\ slot' = [slot EXCEPT ![c] = slot[c]] /\ slot[c] \in Days \cup {NoDay}
  BY Own
<1>2. DraftOk(d) /\ Booked(c, d) /\ Known(c, d, p)
  BY <1>1, SameKeeps
<1>3. mode # "local" => DayKept(c, d, slot[c])
  BY <1>1, SameKeeps
<1>4. OwnDraft(c, d)
  BY <1>2 DEF OwnDraft
<1>5. QED
  BY <1>1, <1>2, <1>3, <1>4, DraftedStep

\* A challenge comes up.
LEMMA AskedStep ==
  ASSUME AdapterInv, NEW c \in Cases, session[c] # NoTab,
         Set(session[c], [On(c) EXCEPT !.asked = TRUE]),
         NEW p, Placed(c, p), Known(c, On(c), p), UNCHANGED slot, Rest
  PROVE  AdapterInv'
<1> DEFINE e == On(c)
           d == [e EXCEPT !.asked = TRUE]
<1>1. e \in Tab
  BY Own
<1> HIDE DEF e
<1>2. d \in Tab /\ Same(e, d)
  BY <1>1 DEF Tab, Same
<1> HIDE DEF d
<1>3. Set(session[c], d) /\ Same(On(c), d)
  BY <1>2 DEF d, e
<1>4. QED
  BY <1>2, <1>3, SameStep

\* The portal lets the account in.
LEMMA HomeStep ==
  ASSUME AdapterInv, NEW c \in Cases, Is(c, {"login"}), Move(c, "home"),
         NEW p, Placed(c, p), UNCHANGED slot, Rest
  PROVE  AdapterInv'
<1> DEFINE e == On(c)
           d == [e EXCEPT !.where = "home", !.by = @ \cup {c}]
<1>1. session[c] # NoTab /\ e.where = "login" /\ Set(session[c], d)
  BY DEF Is, Move
<1>2. e \in Tab /\ DraftOk(e) /\ slot' = [slot EXCEPT ![c] = slot[c]] /\ slot[c] \in Days \cup {NoDay}
  BY <1>1, Own
<1> HIDE DEF e
<1>3. /\ d \in Tab /\ d.where = "home" /\ c \in d.by /\ d.listed = e.listed
      /\ d.typed = e.typed /\ d.day = e.day
  BY <1>2 DEF Tab, Where
<1> HIDE DEF d
<1>4. DraftOk(d)
  BY <1>1, <1>2, <1>3 DEF DraftOk, Fresh, Moved, Dated, Early, Entry, Booking
<1>5. Known(c, d, p) /\ Booked(c, d) /\ DayKept(c, d, slot[c])
  BY <1>3 DEF Known, Booked, DayKept, Details, Booking
<1>6. OwnDraft(c, d)
  BY <1>3, <1>4, <1>5 DEF OwnDraft
<1>7. QED
  BY <1>1, <1>2, <1>5, <1>6, DraftedStep

\* autoClickSignIn and LoginPage.login.
LEMMA SignInSteps ==
  ASSUME AdapterInv, NEW c \in Cases, ClickSignIn(c) \/ LocalSignIn(c)
  PROVE  AdapterInv'
<1>1. CASE ClickSignIn(c)
  <2>1. Placed(c, at[c]) /\ Rest /\ UNCHANGED slot
    BY <1>1 DEF ClickSignIn, Placed, AdapterInv, PlacesInv, Typed, Rest
  <2>2. session[c] # NoTab /\ Is(c, {"login"})
    BY <1>1 DEF ClickSignIn, Is
  <2>3. Known(c, On(c), at[c])
    BY <2>2, Own
  <2>4. CASE Move(c, "home")
    BY <2>1, <2>2, <2>4, HomeStep
  <2>5. CASE Set(session[c], [On(c) EXCEPT !.asked = TRUE])
    BY <2>1, <2>2, <2>3, <2>5, AskedStep
  <2>6. QED
    BY <1>1, <2>4, <2>5 DEF ClickSignIn
<1>2. CASE LocalSignIn(c)
  <2>1. Before(at[c]) /\ at[c].step \notin {"fill", "save"} /\ Rest /\ UNCHANGED slot
    BY <1>2 DEF LocalSignIn, At, Before, Rest
  <2>2. PICK p : Placed(c, p) /\ p.step \notin {"fill", "save"}
    <3>1. CASE \E back \in {"authenticate"} : Ask(c, back)
      <4> DEFINE p == [Start EXCEPT !.step = "human", !.back = "authenticate"]
      <4>1. Placed(c, p) /\ p.step = "human"
        BY <3>1, Asks DEF Start
      <4>2. QED
        BY <4>1
    <3>2. CASE \E step \in {"inspectRoute", "authenticate"} : Go(c, step)
      <4>1. PICK step \in {"inspectRoute", "authenticate"} : Go(c, step)
        BY <3>2
      <4>2. step \in Plain
        BY DEF Plain, Calls
      <4>3. Placed(c, Just(step)) /\ Just(step).step \notin {"fill", "save"}
        BY <4>1, <4>2, Goes, JustFits
      <4>4. QED
        BY <4>3
    <3>3. QED
      BY <1>2, <3>1, <3>2 DEF LocalSignIn
  <2>3. session[c] # NoTab => Known(c, On(c), p)
    BY <2>1, <2>2, Own, PlaceChange
  <2>4. CASE UNCHANGED tab
    BY <2>1, <2>2, <2>4, PassStep
  <2>5. CASE Is(c, {"login"}) /\ Move(c, "home")
    BY <2>1, <2>2, <2>5, HomeStep
  <2>6. CASE Is(c, {"login"}) /\ Set(session[c], [On(c) EXCEPT !.asked = TRUE])
    BY <2>1, <2>2, <2>3, <2>6, AskedStep DEF Is
  <2>7. QED
    BY <1>2, <2>4, <2>5, <2>6 DEF LocalSignIn, LoginForm, Click
<1>3. QED
  BY <1>1, <1>2

\* inspectRoute up to the form.
LEMMA RouteSteps ==
  ASSUME AdapterInv, NEW c \in Cases, InspectRoute(c) \/ Criteria(c)
  PROVE  AdapterInv'
<1> USE DEF Plain, Waiting, Calls, Inside, Entering, Rest, At
<1>1. CASE InspectRoute(c)
  <2>1. Before(at[c]) /\ at[c].step = "inspectRoute" /\ Rest /\ UNCHANGED slot
    BY <1>1 DEF InspectRoute, Before
  <2>2. CASE \E step \in {"failed", "criteria"} : Go(c, step) /\ UNCHANGED tab
    BY <2>1, <2>2, GoStep
  <2>3. CASE Ask(c, "authenticate") /\ UNCHANGED tab
    BY <2>1, <2>3, AskStep
  <2>4. CASE Is(c, {"home"}) /\ Go(c, "criteria") /\ Set(session[c], Draft("criteria", {c}))
    <3> DEFINE d == Draft("criteria", {c})
    <3>1. DraftOk(d) /\ d.by = {c} /\ d.where = "criteria"
      BY NewDraft
    <3>2. Set(session[c], d) /\ session[c] # NoTab
      BY <2>4 DEF Is
    <3> HIDE DEF d
    <3>3. slot' = [slot EXCEPT ![c] = slot[c]] /\ slot[c] \in Days \cup {NoDay}
      BY <2>1, <3>2, Own
    <3>4. Placed(c, Just("criteria"))
      BY <2>4, Goes
    <3>5. Known(c, d, Just("criteria")) /\ Booked(c, d) /\ DayKept(c, d, slot[c])
      BY <3>1 DEF Known, Booked, DayKept, Details, Booking
    <3>6. OwnDraft(c, d)
      BY <3>1, <3>5 DEF OwnDraft
    <3>7. QED
      BY <2>1, <3>2, <3>3, <3>4, <3>5, <3>6, DraftedStep
  <2>5. QED
    BY <1>1, <2>2, <2>3, <2>4 DEF InspectRoute, StartNewBooking
<1>2. CASE Criteria(c)
  <2>1. Before(at[c]) /\ at[c].step = "criteria" /\ Rest /\ UNCHANGED slot
    BY <1>2 DEF Criteria, Before
  <2>2. ~Before(Just("failed")) /\ ~Before(Just("details")) /\ Just("details").step = "details"
    BY JustFits
  <2>3. CASE \E step \in {"failed", "details"} : Go(c, step) /\ UNCHANGED tab
    BY <2>1, <2>2, <2>3, GoStep
  <2>4. CASE Is(c, Where \ Gone) /\ PressContinue(c) /\ Go(c, "details")
    <3>1. session[c] # NoTab /\ Placed(c, Just("details"))
      BY <2>4, Goes DEF Is
    <3>2. ~(On(c).where = "summary" /\ On(c).by = {c})
      BY <2>1, <3>1, Own DEF Known, Details
    <3>3. QED
      BY <2>1, <2>2, <2>4, <3>1, <3>2, PressStep
  <2>5. QED
    BY <1>2, <2>3, <2>4 DEF Criteria
<1>3. QED
  BY <1>1, <1>2

\* The applicants are entered or skipped.
LEMMA DetailSteps ==
  ASSUME AdapterInv, NEW c \in Cases,
         InspectDetails(c) \/ CheckAvailability(c) \/ AddApplicants(c)
  PROVE  AdapterInv'
<1> USE DEF Plain, Waiting, Calls, Inside, Entering, Rest, At
<1>1. CASE InspectDetails(c)
  BY <1>1, EnterStep DEF InspectDetails
<1>2. CASE CheckAvailability(c)
  <2>1. at[c].step = "checkAvailability" /\ Rest /\ UNCHANGED slot
    BY <1>2 DEF CheckAvailability
  <2>2. CASE Go(c, "ended") /\ UNCHANGED tab
    <3>1. ~Before(Just("ended"))
      BY JustFits
    <3>2. QED
      BY <2>1, <2>2, <3>1, GoStep
  <2>3. CASE Ask(c, "checkAvailability") /\ UNCHANGED tab
    BY <2>1, <2>3, AskStep
  <2>4. CASE EnterDetails(c, "read")
    BY <2>1, <2>4, EnterStep
  <2>5. QED
    BY <1>2, <2>2, <2>3, <2>4 DEF CheckAvailability
<1>3. CASE AddApplicants(c)
  <2>1. at[c].step = "addApplicants" /\ Rest /\ UNCHANGED slot
    BY <1>3 DEF AddApplicants
  <2>2. CASE Ask(c, "ended") /\ UNCHANGED tab
    BY <2>1, <2>2, AskStep
  <2>3. CASE EnterDetails(c, "selectAppointment")
    BY <2>1, <2>3, EnterStep
  <2>4. QED
    BY <1>3, <2>2, <2>3 DEF AddApplicants
<1>4. QED
  BY <1>1, <1>2, <1>3

-----------------------------------------------------------------------------
(* The steps of an entry                                                   *)

\* An entry goes on: with the same traveller, with the next one, or past it.
LEMMA EntryPlaces ==
  ASSUME AdapterInv, NEW c \in Cases, at[c].step \in Entering
  PROVE  /\ PlaceOk(c, at[c]) /\ at[c].i \in Nat /\ DOMAIN at = Cases
         /\ at[c].then \in {"checkAvailability", "read", "selectAppointment"}
         /\ at[c].then \in Plain /\ ~Before(Just(at[c].then)) /\ ~Before(at[c])
         /\ at[c].step \in {"fill", "save"} => at[c].i \in 1..Len(Party[c])
<1>1. PlaceOk(c, at[c]) /\ DOMAIN at = Cases
  BY DEF AdapterInv, PlacesInv, Typed
<1>2. at[c].then \in {"checkAvailability", "read", "selectAppointment"}
  BY <1>1 DEF PlaceOk
<1>3. at[c].then \in Plain
  BY <1>2 DEF Plain, Calls, Waiting, Inside, Entering
<1>4. ~Before(Just(at[c].then)) /\ ~Before(at[c])
  BY <1>2, <1>3, JustFits DEF Before, Entering
<1>5. QED
  BY <1>1, <1>2, <1>3, <1>4 DEF PlaceOk, Place

\* The party of a case is a sequence of at least one traveller.
LEMMA Travellers ==
  ASSUME NEW c \in Cases
  PROVE  /\ Party[c] \in Seq(Applicants) /\ Len(Party[c]) \in Nat \ {0}
         /\ \A j \in 1..Len(Party[c]) : Party[c][j] \in Applicants
  OBVIOUS

\* Applicant i is typed in.
LEMMA FillForm ==
  ASSUME AdapterInv, NEW c \in Cases, Fill(c), Is(c, {"form"})
  PROVE  AdapterInv'
<1> DEFINE e == On(c)
           x == Party[c][at[c].i]
           d == [e EXCEPT !.typed = x, !.by = @ \cup {c}]
           p == [at[c] EXCEPT !.step = "save"]
<1>1. at[c].step = "fill" /\ session[c] # NoTab /\ e.where = "form" /\ Set(session[c], d)
  BY DEF Fill, Is, At
<1>2. /\ e \in Tab /\ DraftOk(e) /\ Known(c, e, at[c])
      /\ slot' = [slot EXCEPT ![c] = slot[c]] /\ slot[c] \in Days \cup {NoDay} /\ Rest
  BY <1>1, Own DEF Fill, Rest
<1>3. PlaceOk(c, at[c]) /\ at[c].i \in 1..Len(Party[c])
  BY <1>1, EntryPlaces DEF Entering
<1>4. x \in Applicants
  BY <1>3, Travellers
<1>5. at' = [at EXCEPT ![c] = p]
  BY DEF Fill, Go, Entering
<1>6. p.step = "save" /\ p.i = at[c].i /\ PlaceOk(c, p)
  <2>1. /\ p \in Place /\ p.step = "save" /\ p.i = at[c].i /\ p.then = at[c].then
        /\ p.back = at[c].back
    BY <1>3 DEF PlaceOk, Place, Entering, Inside
  <2>2. QED
    BY <1>1, <1>3, <2>1 DEF PlaceOk, Entering
<1>7. Placed(c, p)
  BY <1>5, <1>6 DEF Placed
<1> HIDE DEF e, p
<1>8. /\ d \in Tab /\ c \in d.by /\ d.where = "form" /\ d.listed = e.listed /\ d.typed = x
      /\ d.clean = e.clean /\ d.day = e.day /\ d.by = e.by \cup {c}
  BY <1>1, <1>2, <1>4 DEF Tab
<1> HIDE DEF d
<1>9. DraftOk(d)
  BY <1>1, <1>2, <1>8 DEF DraftOk, Fresh, Moved, Dated, Early, Gone, Entry, Booking
<1>10. d.by = {c} => e.by = {c}
  BY <1>1, <1>2, <1>8, Mine DEF Early, Gone, Entry
<1>11. d.by = {c} => FormKnown(c, d, p)
  BY <1>1, <1>2, <1>6, <1>8, <1>10 DEF Known, FormKnown, Lists, Good
<1>12. Known(c, d, p) /\ Booked(c, d) /\ DayKept(c, d, slot[c])
  BY <1>6, <1>8, <1>11 DEF Known, Booked, DayKept, Before, Booking
<1>13. OwnDraft(c, d)
  BY <1>8, <1>9, <1>12 DEF OwnDraft
<1>14. QED
  BY <1>1, <1>2, <1>7, <1>12, <1>13, DraftedStep

\* The form has gone: the entry breaks off.
LEMMA FillBreaks ==
  ASSUME AdapterInv, NEW c \in Cases, Fill(c), ~Is(c, {"form"})
  PROVE  AdapterInv'
<1>1. at[c].step = "fill" /\ UNCHANGED slot /\ Rest
  BY DEF Fill, Rest, At
<1>2. /\ ~Before(Just("failed")) /\ ~Before(Just("ended")) /\ "failed" \in Plain /\ "ended" \in Plain
      /\ ~Before(Just(at[c].then)) /\ at[c].then \in Plain
  BY <1>1, JustFits, EntryPlaces DEF Plain, Waiting, Entering
<1>3. PICK step \in Plain : Go(c, step) /\ ~Before(Just(step))
  BY <1>2 DEF Fill, BreakOff
<1>4. Placed(c, Just(step)) /\ Just(step).step \notin {"fill", "save"}
  BY <1>3, Goes, JustFits
<1> DEFINE p == Just(step)
<1> HIDE DEF p
<1>5. Placed(c, p) /\ p.step \notin {"fill", "save"} /\ ~Before(p)
  BY <1>3, <1>4 DEF p
<1>6. CASE Is(c, Details \cup Booking)
  <2> DEFINE e == On(c)
             d == [e EXCEPT !.clean = FALSE]
  <2>1. session[c] # NoTab /\ e.where \in {"summary"} \cup Booking /\ Set(session[c], d)
    BY <1>6 DEF Fill, Is, Details
  <2>2. /\ e \in Tab /\ DraftOk(e) /\ Known(c, e, at[c]) /\ Booked(c, e)
        /\ mode # "local" => DayKept(c, e, slot[c])
        /\ slot' = [slot EXCEPT ![c] = slot[c]] /\ slot[c] \in Days \cup {NoDay}
    BY <1>1, <2>1, Own
  <2>3. Same(On(c), d)
    BY <2>2 DEF Same, Tab
  <2> HIDE DEF e
  <2>4. /\ d \in Tab /\ d.where = e.where /\ d.by = e.by /\ Same(e, d) /\ d.clean = FALSE
    BY <2>2, <2>3 DEF Tab, e
  <2> HIDE DEF d
  <2>5. DraftOk(d) /\ Booked(c, d)
    BY <2>2, <2>4, SameKeeps
  <2>6. mode # "local" => DayKept(c, d, slot[c])
    BY <2>2, <2>4, SameKeeps
  <2>7. d.by = {c} /\ d.where = "summary" => ~Good(c, d)
    BY <1>1, <2>2, <2>4 DEF Known, SummaryKnown, Good
  <2>8. Known(c, d, p)
    BY <1>5, <2>1, <2>4, <2>7 DEF Known, SummaryKnown, Booking
  <2>9. OwnDraft(c, d)
    BY <2>3, <2>5 DEF OwnDraft
  <2>10. QED
    BY <1>1, <1>5, <2>1, <2>2, <2>6, <2>8, <2>9, DraftedStep
<1>7. CASE ~Is(c, Details \cup Booking)
  <2>1. UNCHANGED tab
    BY <1>7 DEF Fill
  <2>2. session[c] # NoTab => Known(c, On(c), p)
    BY <1>7 DEF Known, Is, Details
  <2>3. session[c] # NoTab => (mode # "local" => DayKept(c, On(c), slot[c]))
    BY Own
  <2>4. slot' = [slot EXCEPT ![c] = slot[c]] /\ slot[c] \in Days \cup {NoDay}
    BY <1>1 DEF AdapterInv, Typed
  <2>5. QED
    BY <1>1, <1>5, <2>1, <2>2, <2>3, <2>4, PlacedStep
<1>8. QED
  BY <1>6, <1>7

\* A Save is clicked and what is not saved stays as it is.
LEMMA SaveNext ==
  ASSUME AdapterInv, NEW c \in Cases, SaveAndNext(c)
  PROVE  AdapterInv'
<1> DEFINE e == On(c)
           i == at[c].i
           p == [at[c] EXCEPT !.step = "fill", !.i = @ + 1]
<1>1. at[c].step = "save" /\ i < Len(Party[c]) /\ UNCHANGED slot /\ Rest
  BY DEF SaveAndNext, Rest, At
<1>2. /\ PlaceOk(c, at[c]) /\ i \in 1..Len(Party[c]) /\ i \in Nat /\ DOMAIN at = Cases
      /\ Len(Party[c]) \in Nat /\ Len(Party[c]) # 1 /\ i + 1 \in 1..Len(Party[c])
  <2>1. PlaceOk(c, at[c]) /\ i \in 1..Len(Party[c]) /\ i \in Nat /\ DOMAIN at = Cases
    BY <1>1, EntryPlaces DEF Entering
  <2>2. Len(Party[c]) \in Nat
    BY Travellers
  <2> HIDE DEF i
  <2>3. i < Len(Party[c])
    BY <1>1
  <2>4. i \in 1..Len(Party[c])
    BY <2>1
  <2>5. Len(Party[c]) # 1 /\ i + 1 \in 1..Len(Party[c])
    BY <2>2, <2>3, <2>4, NextOne
  <2>6. QED
    BY <2>1, <2>2, <2>5
<1>3. at' = [at EXCEPT ![c] = p]
  BY <1>2 DEF SaveAndNext
<1>4. p.step = "fill" /\ p.i = i + 1 /\ PlaceOk(c, p)
  <2>1. at[c] \in Place /\ i + 1 \in Nat
    BY <1>2 DEF PlaceOk
  <2>2. /\ p \in Place /\ p.step = "fill" /\ p.i = i + 1 /\ p.then = at[c].then
        /\ p.back = at[c].back
    BY <2>1 DEF Place, Entering, Inside
  <2>3. QED
    BY <1>1, <1>2, <2>2 DEF PlaceOk, Entering
<1>5. Placed(c, p) /\ ~Before(p)
  BY <1>3, <1>4 DEF Placed, Before
<1>6. slot' = [slot EXCEPT ![c] = slot[c]] /\ slot[c] \in Days \cup {NoDay}
  BY <1>1 DEF AdapterInv, Typed
<1> HIDE DEF e, i, p
<1>7. ASSUME session[c] # NoTab
      PROVE  /\ e \in Tab /\ DraftOk(e) /\ Known(c, e, at[c]) /\ Booked(c, e)
             /\ mode # "local" => DayKept(c, e, slot[c])
  BY <1>7, Own DEF e
<1>8. ASSUME NEW w \in Details, Filled(c), Set(session[c], Saved(c, 1, w)) PROVE AdapterInv'
  <2> DEFINE d == Saved(c, 1, w)
  <2>1. session[c] # NoTab /\ e.where = "form"
    BY <1>8 DEF Filled, Is, e
  <2>2. /\ OwnDraft(c, d) /\ d.where = w /\ d.typed = Nobody /\ d.clean = e.clean
        /\ (d.by = {c} => e.by = {c}) /\ Len(d.listed) = Len(e.listed) + 1
        /\ \A j \in 1..Len(e.listed) : d.listed[j] = e.listed[j]
        /\ \A j \in 1..1 : d.listed[Len(e.listed) + j] = e.typed
        /\ DayKept(c, d, slot[c])
    <3>1. d = Saved(c, 1, w) /\ 1 \in 0..2
      OBVIOUS
    <3> HIDE DEF d
    <3>2. QED
      BY <1>8, <2>1, <3>1, SavedDraft DEF e
  <2> HIDE DEF d
  <2>3. e.by = {c} => FormKnown(c, e, at[c])
    BY <1>7, <2>1 DEF Known
  <2>4. d.by = {c} /\ Good(c, d) => Lists(d, c, i)
    <3> SUFFICES ASSUME d.by = {c}, Good(c, d) PROVE Lists(d, c, i)
      OBVIOUS
    <3>1. Good(c, e)
      BY <2>2 DEF Good
    <3>2. Lists(e, c, i - 1) /\ e.typed = Party[c][i]
      BY <1>1, <2>2, <2>3, <3>1 DEF FormKnown, i
    <3>3. Len(e.listed) = i - 1 /\ Len(d.listed) = i
      BY <1>2, <2>2, <3>2 DEF Lists
    <3>4. ASSUME NEW j \in 1..i PROVE d.listed[j] = Party[c][j]
      <4>1. CASE j = i
        <5>1. Len(e.listed) + 1 = i
          BY <1>2, <3>3
        <5>2. QED
          BY <2>2, <3>2, <4>1, <5>1
      <4>2. CASE j # i
        <5>1. j \in 1..(i - 1)
          BY <1>2, <4>2
        <5>2. QED
          BY <2>2, <3>2, <3>3, <5>1 DEF Lists
      <4>3. QED
        BY <4>1, <4>2
    <3>5. QED
      BY <3>3, <3>4 DEF Lists
  <2>5. p.i - 1 = i
    BY <1>2, <1>4
  <2>6. d.by = {c} => FormKnown(c, d, p) /\ SummaryKnown(c, d, p)
    BY <1>2, <1>4, <2>4, <2>5 DEF FormKnown, SummaryKnown
  <2>7. Known(c, d, p)
    BY <1>5, <2>6 DEF Known
  <2>8. QED
    BY <1>1, <1>5, <1>6, <1>8, <2>1, <2>2, <2>7, DraftedStep DEF d
<1>9. ASSUME Filled(c), Set(session[c], [On(c) EXCEPT !.clean = FALSE]) PROVE AdapterInv'
  <2> DEFINE d == [e EXCEPT !.clean = FALSE]
  <2>1. session[c] # NoTab /\ e.where = "form" /\ Set(session[c], d)
    BY <1>9 DEF Filled, Is, e
  <2>2. /\ d \in Tab /\ d.where = e.where /\ d.by = e.by /\ Same(e, d) /\ d.clean = FALSE
    BY <1>7, <2>1 DEF Tab, Same
  <2> HIDE DEF d
  <2>3. DraftOk(d) /\ Booked(c, d)
    BY <1>7, <2>1, <2>2, SameKeeps
  <2>4. mode # "local" => DayKept(c, d, slot[c])
    BY <1>7, <2>1, <2>2, SameKeeps
  <2>5. ~Good(c, d)
    BY <1>2, <2>2 DEF Good
  <2>6. FormKnown(c, d, p)
    BY <1>2, <1>4, <2>5 DEF FormKnown
  <2>7. Known(c, d, p)
    BY <1>5, <2>1, <2>2, <2>6 DEF Known
  <2>8. OwnDraft(c, d)
    BY <2>2, <2>3 DEF OwnDraft, e
  <2>9. QED
    BY <1>1, <1>5, <1>6, <2>1, <2>4, <2>7, <2>8, DraftedStep
<1>10. ASSUME ~Filled(c), UNCHANGED tab PROVE AdapterInv'
  <2>1. ASSUME session[c] # NoTab PROVE Known(c, e, p) /\ (mode # "local" => DayKept(c, e, slot[c]))
    <3>1. Known(c, e, at[c])
      BY <1>7, <2>1
    <3>2. e.where = "form" => e.by # {c}
      <4> SUFFICES ASSUME e.where = "form", e.by = {c} PROVE FALSE
        OBVIOUS
      <4>1. e.typed = Party[c][i]
        BY <1>1, <3>1 DEF Known, FormKnown, i
      <4>2. e.typed # Nobody
        BY <1>2, <4>1, Travellers
      <4>3. QED
        BY <1>10, <2>1, <4>2 DEF Filled, Is, e
    <3>3. SummaryKnown(c, e, p)
      BY <1>2, <1>4 DEF SummaryKnown
    <3>4. QED
      BY <1>5, <1>7, <2>1, <3>2, <3>3 DEF Known
  <2>2. QED
    BY <1>1, <1>5, <1>6, <1>10, <2>1, PlacedStep DEF e
<1>11. QED
  BY <1>8, <1>9, <1>10 DEF SaveAndNext

\* What a list is after one more traveller of the party was saved k times.
LEMMA LastSaved ==
  ASSUME NEW c \in Cases, NEW e, NEW d, NEW k \in 1..2,
         Lists(e, c, Len(Party[c]) - 1), e.typed = Party[c][Len(Party[c])],
         Len(d.listed) = Len(e.listed) + k,
         \A j \in 1..Len(e.listed) : d.listed[j] = e.listed[j],
         \A j \in 1..k : d.listed[Len(e.listed) + j] = e.typed
  PROVE  ListsAll(d, c)
<1> DEFINE n == Len(Party[c])
<1>1. n \in Nat \ {0}
  BY Travellers
<1>2. Lists(e, c, n - 1) /\ e.typed = Party[c][n]
  OBVIOUS
<1> HIDE DEF n
<1>3. Len(e.listed) = n - 1
  BY <1>2 DEF Lists
<1>4. Len(d.listed) >= n
  BY <1>1, <1>3
<1>5. ASSUME NEW j \in 1..n PROVE d.listed[j] = Party[c][j]
  <2>1. CASE j = n
    <3>1. Len(e.listed) + 1 = n /\ 1 \in 1..k
      BY <1>1, <1>3
    <3>2. d.listed[Len(e.listed) + 1] = e.typed
      BY <3>1
    <3>3. QED
      BY <1>2, <2>1, <3>1, <3>2
  <2>2. CASE j # n
    <3>1. j \in 1..(n - 1)
      BY <1>1, <2>2
    <3>2. QED
      BY <1>2, <1>3, <3>1 DEF Lists
  <2>3. QED
    BY <2>1, <2>2
<1>6. QED
  BY <1>4, <1>5 DEF ListsAll, n

\* Save of the last traveller.
LEMMA SaveLastStep ==
  ASSUME AdapterInv, NEW c \in Cases, SaveLast(c)
  PROVE  AdapterInv'
<1> DEFINE e == On(c)
           n == Len(Party[c])
           q == [at[c] EXCEPT !.step = "summary"]
<1>1. at[c].step = "save" /\ at[c].i = n /\ UNCHANGED slot /\ Rest
  BY DEF SaveLast, Rest, At
<1>2. /\ PlaceOk(c, at[c]) /\ n \in Nat \ {0} /\ DOMAIN at = Cases
      /\ at[c].then \in Plain /\ ~Before(Just(at[c].then))
  BY <1>1, EntryPlaces, Travellers DEF Entering
<1>3. q.step = "summary" /\ PlaceOk(c, q) /\ ~Before(q)
  <2>1. at[c] \in Place
    BY <1>2 DEF PlaceOk
  <2>2. /\ q \in Place /\ q.step = "summary" /\ q.then = at[c].then /\ q.back = at[c].back
    BY <2>1 DEF Place, Entering, Inside
  <2>3. QED
    BY <1>1, <1>2, <2>2 DEF PlaceOk, Entering, Before
<1>4. Go(c, "summary") => Placed(c, q)
  BY <1>3 DEF Placed, Go, Entering
<1>5. slot' = [slot EXCEPT ![c] = slot[c]] /\ slot[c] \in Days \cup {NoDay}
  BY <1>1 DEF AdapterInv, Typed
<1> HIDE DEF e, n, q
<1>6. ASSUME session[c] # NoTab
      PROVE  /\ Known(c, e, at[c]) /\ (mode # "local" => DayKept(c, e, slot[c]))
             /\ e.where = "form" /\ e.by = {c} => FormKnown(c, e, at[c])
             /\ e.where = "summary" => e.by # {c}
  <2>1. Known(c, e, at[c]) /\ (mode # "local" => DayKept(c, e, slot[c]))
    BY <1>6, Own DEF e
  <2>2. e.where = "summary" => e.by # {c}
    BY <1>1, <2>1 DEF Known, SummaryKnown
  <2>3. QED
    BY <2>1, <2>2 DEF Known
<1>7. ASSUME NEW k \in 1..2, Filled(c), Set(session[c], Saved(c, k, "summary")), Go(c, "summary")
      PROVE  AdapterInv'
  <2> DEFINE w == "summary"
             d == Saved(c, k, w)
  <2>1. session[c] # NoTab /\ e.where = "form"
    BY <1>7 DEF Filled, Is, e
  <2>2. k \in 0..2 /\ w \in Details
    BY DEF Details
  <2> HIDE DEF w
  <2>3. /\ OwnDraft(c, d) /\ d.where = w /\ d.clean = e.clean
        /\ (d.by = {c} => e.by = {c}) /\ Len(d.listed) = Len(e.listed) + k
        /\ \A j \in 1..Len(e.listed) : d.listed[j] = e.listed[j]
        /\ \A j \in 1..k : d.listed[Len(e.listed) + j] = e.typed
        /\ DayKept(c, d, slot[c])
    <3>1. /\ d = Saved(c, k, w) /\ Filled(c) /\ AdapterInv /\ c \in Cases
          /\ session[c] # NoTab /\ k \in 0..2 /\ w \in Details
      BY <1>7, <2>1, <2>2
    <3> HIDE DEF d
    <3>2. /\ OwnDraft(c, d) /\ d.where = w /\ d.clean = On(c).clean
          /\ (d.by = {c} => On(c).by = {c}) /\ Len(d.listed) = Len(On(c).listed) + k
      BY ONLY <3>1, SavedDraft
    <3>3. \A j \in 1..Len(On(c).listed) : d.listed[j] = On(c).listed[j]
      BY ONLY <3>1, SavedDraft
    <3>4. \A j \in 1..k : d.listed[Len(On(c).listed) + j] = On(c).typed
      BY ONLY <3>1, SavedDraft
    <3>5. DayKept(c, d, slot[c])
      BY ONLY <3>1, SavedDraft
    <3>6. QED
      BY <3>2, <3>3, <3>4, <3>5 DEF e
  <2> HIDE DEF d
  <2>4. d.by = {c} /\ Good(c, d) => ListsAll(d, c)
    <3> SUFFICES ASSUME d.by = {c}, Good(c, d) PROVE ListsAll(d, c)
      OBVIOUS
    <3>1. Good(c, e) /\ FormKnown(c, e, at[c])
      BY <1>6, <2>1, <2>3 DEF Good
    <3>2. Lists(e, c, n - 1) /\ e.typed = Party[c][n]
      BY <1>1, <3>1 DEF FormKnown
    <3>3. QED
      BY <2>3, <3>2, LastSaved DEF n
  <2>5. d.by = {c} => SummaryKnown(c, d, q)
    BY <1>3, <2>4 DEF SummaryKnown
  <2>6. Known(c, d, q)
    BY <1>3, <2>3, <2>5 DEF Known, w
  <2>7. QED
    BY <1>1, <1>4, <1>5, <1>7, <2>1, <2>3, <2>6, DraftedStep DEF d, w
<1>8. ASSUME Filled(c), UNCHANGED tab, Go(c, at[c].then) PROVE AdapterInv'
  <2> DEFINE p == Just(at[c].then)
  <2>1. Placed(c, p) /\ p.step \notin {"fill", "save"} /\ ~Before(p)
    BY <1>2, <1>8, Goes, JustFits
  <2>2. session[c] # NoTab /\ e.where = "form"
    BY <1>8 DEF Filled, Is, e
  <2> HIDE DEF p
  <2>3. e.by = {c} => FormKnown(c, e, p)
    BY <1>1, <1>6, <2>1, <2>2 DEF FormKnown, n
  <2>4. Known(c, e, p)
    BY <2>1, <2>2, <2>3 DEF Known
  <2>5. QED
    BY <1>1, <1>5, <1>6, <1>8, <2>1, <2>2, <2>4, PlacedStep DEF e
<1>9. ASSUME ~Filled(c), UNCHANGED tab, NEW p, Placed(c, p), ~Before(p) PROVE AdapterInv'
  <2>1. ASSUME session[c] # NoTab PROVE Known(c, e, p) /\ (mode # "local" => DayKept(c, e, slot[c]))
    <3>1. e.where = "form" => e.by # {c}
      <4> SUFFICES ASSUME e.where = "form", e.by = {c} PROVE FALSE
        OBVIOUS
      <4>1. e.typed = Party[c][n]
        BY <1>1, <1>6, <2>1 DEF FormKnown
      <4>2. e.typed # Nobody
        BY <1>2, <4>1, Travellers DEF n
      <4>3. QED
        BY <1>9, <2>1, <4>2 DEF Filled, Is, e
    <3>2. QED
      BY <1>6, <1>9, <2>1, <3>1 DEF Known
  <2>2. QED
    BY <1>1, <1>5, <1>9, <2>1, PlacedStep DEF e
<1>10. Go(c, at[c].then) => Placed(c, Just(at[c].then))
  BY <1>2, Goes
<1>11. CASE Filled(c)
  BY <1>7, <1>8, <1>11 DEF SaveLast
<1>12. CASE ~Filled(c)
  <2>1. UNCHANGED tab /\ (Go(c, "summary") \/ Go(c, at[c].then))
    BY <1>12 DEF SaveLast
  <2>2. QED
    BY <1>2, <1>3, <1>4, <1>9, <1>10, <1>12, <2>1
<1>13. QED
  BY <1>11, <1>12

\* The last entry of a list is taken off.
LEMMA Shortened ==
  ASSUME NEW A, NEW s \in Seq(A), NEW n \in Nat \ {0}, Len(s) > n
  PROVE  /\ Front(s) \in Seq(A) /\ Len(Front(s)) = Len(s) - 1 /\ Len(Front(s)) >= n
         /\ \A j \in 1..n : Front(s)[j] = s[j]
<1>1. Len(s) \in Nat /\ Len(s) - 1 \in 1..Len(s)
  OBVIOUS
<1>2. Front(s) = SubSeq(s, 1, Len(s) - 1)
  BY DEF Front
<1>3. Front(s) \in Seq(A) /\ Len(Front(s)) = Len(s) - 1
  BY <1>1, <1>2
<1>4. \A j \in 1..n : Front(s)[j] = s[j]
  BY <1>1, <1>2
<1>5. QED
  BY <1>1, <1>3, <1>4

\* The summary page.
LEMMA SummaryStep ==
  ASSUME AdapterInv, NEW c \in Cases, Summary(c)
  PROVE  AdapterInv'
<1> DEFINE e == On(c)
<1>1. at[c].step = "summary" /\ UNCHANGED slot /\ Rest
  BY DEF Summary, Rest, At
<1>2. /\ PlaceOk(c, at[c]) /\ DOMAIN at = Cases /\ ~Before(at[c])
      /\ at[c].then \in Plain /\ ~Before(Just(at[c].then))
  BY <1>1, EntryPlaces DEF Entering
<1> HIDE DEF e
<1>3. ASSUME session[c] # NoTab
      PROVE  /\ e \in Tab /\ DraftOk(e) /\ Known(c, e, at[c])
             /\ slot' = [slot EXCEPT ![c] = slot[c]] /\ slot[c] \in Days \cup {NoDay}
             /\ e.listed \in Seq(Applicants)
             /\ e.where = "summary" /\ e.by = {c} /\ Good(c, e) => ListsAll(e, c)
  <2>1. e \in Tab /\ DraftOk(e) /\ Known(c, e, at[c])
    BY <1>3, Own DEF e
  <2>2. e.where = "summary" /\ e.by = {c} /\ Good(c, e) => ListsAll(e, c)
    BY <1>1, <2>1 DEF Known, SummaryKnown
  <2>3. QED
    BY <1>1, <1>3, <2>1, <2>2, Own DEF Tab
<1>4. CASE Is(c, {"summary"}) /\ Len(On(c).listed) > Len(Party[c])
  <2> DEFINE d == [e EXCEPT !.listed = Front(@), !.by = @ \cup {c}]
  <2>1. /\ session[c] # NoTab /\ e.where = "summary" /\ Len(e.listed) > Len(Party[c])
        /\ Set(session[c], d) /\ UNCHANGED at
    BY <1>4 DEF Summary, Is, e
  <2>2. Placed(c, at[c])
    BY <1>2, <2>1 DEF Placed, AdapterInv, Typed
  <2>3. /\ Front(e.listed) \in Seq(Applicants) /\ Len(Front(e.listed)) >= Len(Party[c])
        /\ \A j \in 1..Len(Party[c]) : Front(e.listed)[j] = e.listed[j]
    BY <1>3, <2>1, Shortened, Travellers
  <2>4. /\ d \in Tab /\ c \in d.by /\ d.where = "summary" /\ d.listed = Front(e.listed)
        /\ d.clean = e.clean /\ d.day = e.day /\ d.by = e.by \cup {c}
    BY <1>3, <2>1, <2>3 DEF Tab
  <2> HIDE DEF d
  <2>5. DraftOk(d)
    BY <1>3, <2>1, <2>4 DEF DraftOk, Fresh, Moved, Dated, Early, Gone, Entry, Booking
  <2>6. d.by = {c} => e.by = {c}
    BY <1>3, <2>1, <2>4, Mine DEF Early, Gone, Entry
  <2>7. d.by = {c} /\ Good(c, d) => ListsAll(d, c)
    BY <1>3, <2>1, <2>3, <2>4, <2>6 DEF ListsAll, Good
  <2>8. Known(c, d, at[c]) /\ Booked(c, d) /\ DayKept(c, d, slot[c])
    BY <1>1, <1>2, <2>4, <2>7 DEF Known, SummaryKnown, Booked, DayKept, Booking
  <2>9. OwnDraft(c, d)
    BY <2>4, <2>5, <2>8 DEF OwnDraft
  <2>10. QED
    BY <1>1, <1>3, <2>1, <2>2, <2>8, <2>9, DraftedStep
<1>5. CASE ~(Is(c, {"summary"}) /\ Len(On(c).listed) > Len(Party[c]))
  <2> DEFINE p == Just(at[c].then)
  <2>1. Go(c, at[c].then) /\ (UNCHANGED tab \/ (Is(c, Where \ Gone) /\ PressContinue(c)))
    BY <1>5 DEF Summary
  <2>2. Placed(c, p) /\ p.step \notin {"fill", "save"} /\ ~Before(p)
    BY <1>2, <2>1, Goes, JustFits
  <2> HIDE DEF p
  <2>3. CASE UNCHANGED tab
    BY <1>1, <2>2, <2>3, PassStep
  <2>4. CASE Is(c, Where \ Gone) /\ PressContinue(c)
    <3>1. session[c] # NoTab
      BY <2>4 DEF Is
    <3>2. e.where = "summary" /\ e.by = {c} /\ Good(c, e) => e.listed = Party[c]
      <4> SUFFICES ASSUME e.where = "summary", e.by = {c}, Good(c, e) PROVE e.listed = Party[c]
        OBVIOUS
      <4>1. ListsAll(e, c) /\ ~(Len(e.listed) > Len(Party[c]))
        BY <1>3, <1>5, <3>1 DEF Is, e
      <4>2. e.listed \in Seq(Applicants) /\ Party[c] \in Seq(Applicants)
        BY <1>3, <3>1, Travellers
      <4>3. Len(e.listed) = Len(Party[c])
        BY <4>1, <4>2 DEF ListsAll
      <4>4. \A j \in 1..Len(Party[c]) : e.listed[j] = Party[c][j]
        BY <4>1 DEF ListsAll
      <4>5. QED
        BY <4>2, <4>3, <4>4, SeqEqual
    <3>3. QED
      BY <1>1, <2>2, <2>4, <3>1, <3>2, PressStep DEF e
  <2>5. QED
    BY <2>1, <2>3, <2>4
<1>6. QED
  BY <1>4, <1>5

-----------------------------------------------------------------------------
(* The calendar and what follows it                                        *)

\* A last Save, on a page without a calendar.
LEMMA ReadOther ==
  ASSUME AdapterInv, NEW c \in Cases, ReadElsewhere(c)
  PROVE  AdapterInv'
<1> DEFINE e == On(c)
           p == Just("ended")
<1>1. at[c].step = "read" /\ UNCHANGED slot /\ Rest /\ Go(c, "ended")
  BY DEF ReadElsewhere, Rest, At
<1>2. "ended" \in Plain
  BY DEF Plain, Waiting
<1>3. Placed(c, p) /\ p.step \notin {"fill", "save"} /\ ~Before(p) /\ p.step = "ended"
  BY <1>1, <1>2, Goes, JustFits
<1> HIDE DEF e, p
<1>4. CASE UNCHANGED tab
  BY <1>1, <1>3, <1>4, PassStep
<1>5. ASSUME Filled(c), NEW k \in 0..2, NEW w \in Details, Set(session[c], Saved(c, k, w)),
             w = (IF k = 0 THEN "form" ELSE "summary")
      PROVE  AdapterInv'
  <2> DEFINE d == Saved(c, k, w)
  <2>1. /\ session[c] # NoTab /\ e.where = "form" /\ e.typed # Nobody
        /\ d = Saved(c, k, w) /\ AdapterInv /\ c \in Cases /\ Filled(c)
        /\ k \in 0..2 /\ w \in Details
    BY <1>5 DEF Filled, Is, e
  <2> HIDE DEF d
  <2>2. /\ OwnDraft(c, d) /\ d.where = w /\ d.typed = Nobody /\ d.clean = On(c).clean
        /\ (d.by = {c} => On(c).by = {c}) /\ Len(d.listed) = Len(On(c).listed) + k
    BY ONLY <2>1, SavedDraft
  <2>3. \A j \in 1..Len(On(c).listed) : d.listed[j] = On(c).listed[j]
    BY ONLY <2>1, SavedDraft
  <2>4. \A j \in 1..k : d.listed[Len(On(c).listed) + j] = On(c).typed
    BY ONLY <2>1, SavedDraft
  <2>5. DayKept(c, d, slot[c])
    BY ONLY <2>1, SavedDraft
  <2>6. /\ Known(c, e, at[c]) /\ slot' = [slot EXCEPT ![c] = slot[c]]
        /\ slot[c] \in Days \cup {NoDay} /\ e.listed \in Seq(Applicants)
    BY <1>1, <2>1, Own DEF e, Tab
  <2>7. d.by = {c} => FormKnown(c, e, at[c])
    BY <2>1, <2>2, <2>6 DEF Known, e
  <2>8. CASE k = 0
    <3>1. d.where = "form"
      BY <1>5, <2>2, <2>8
    <3>2. d.by = {c} /\ Len(Party[c]) = 1 => d.listed = <<>>
      <4> SUFFICES ASSUME d.by = {c}, Len(Party[c]) = 1 PROVE d.listed = <<>>
        OBVIOUS
      <4>1. e.listed = <<>>
        BY <2>7 DEF FormKnown
      <4>2. Len(d.listed) = 0
        BY <2>2, <2>8, <4>1 DEF e
      <4>3. d.listed \in Seq(Applicants)
        BY <2>2 DEF OwnDraft, DraftOk, Tab
      <4>4. QED
        BY <4>2, <4>3
    <3>3. d.by = {c} => FormKnown(c, d, p)
      BY <1>3, <2>2, <3>2 DEF FormKnown
    <3>4. QED
      BY <1>1, <1>3, <1>5, <2>1, <2>2, <2>5, <2>6, <3>1, <3>3, DraftedStep DEF Known, d
  <2>9. CASE k # 0
    <3>1. d.where = "summary" /\ k \in 1..2
      BY <1>5, <2>1, <2>2, <2>9
    <3>2. d.by = {c} /\ Good(c, d) => ListsAll(d, c)
      <4> SUFFICES ASSUME d.by = {c}, Good(c, d) PROVE ListsAll(d, c)
        OBVIOUS
      <4>1. Good(c, e) /\ FormKnown(c, e, at[c])
        BY <2>2, <2>7 DEF Good, e
      <4>2. Lists(e, c, Len(Party[c]) - 1) /\ e.typed = Party[c][Len(Party[c])]
        BY <1>1, <2>1, <4>1 DEF FormKnown
      <4>3. /\ Len(d.listed) = Len(e.listed) + k
            /\ \A j \in 1..Len(e.listed) : d.listed[j] = e.listed[j]
            /\ \A j \in 1..k : d.listed[Len(e.listed) + j] = e.typed
        BY <2>2, <2>3, <2>4 DEF e
      <4>4. QED
        BY <3>1, <4>2, <4>3, LastSaved
    <3>3. d.by = {c} => SummaryKnown(c, d, p)
      BY <1>3, <3>2 DEF SummaryKnown
    <3>4. QED
      BY <1>1, <1>3, <1>5, <2>1, <2>2, <2>5, <2>6, <3>1, <3>3, DraftedStep DEF Known, d
  <2>10. QED
    BY <2>8, <2>9
<1>6. CASE Filled(c)
  <2>1. PICK k \in 0..2 : Set(session[c], Saved(c, k, IF k = 0 THEN "form" ELSE "summary"))
    BY <1>6 DEF ReadElsewhere
  <2>2. PICK w \in Details : w = (IF k = 0 THEN "form" ELSE "summary")
    BY DEF Details
  <2>3. QED
    BY <1>5, <1>6, <2>1, <2>2
<1>7. QED
  BY <1>4, <1>6 DEF ReadElsewhere

\* The days of the calendar are read.
LEMMA ReadCalendarStep ==
  ASSUME AdapterInv, NEW c \in Cases, ReadCalendar(c)
  PROVE  AdapterInv'
<1>1. /\ at[c].step = "read" /\ UNCHANGED tab /\ Rest /\ session[c] # NoTab
      /\ On(c).where = "calendar"
  BY DEF ReadCalendar, Rest, At, Is
<1>2. /\ On(c) \in Tab /\ DraftOk(On(c)) /\ Known(c, On(c), at[c])
      /\ slot[c] \in Days \cup {NoDay} /\ slot = [slot EXCEPT ![c] = slot[c]]
  BY <1>1, Own
<1>3. PICK step \in {"checkAvailability", "beginBooking", "ended"} : Go(c, step)
  BY DEF ReadCalendar
<1>4. step \in Plain
  BY DEF Plain, Waiting, Calls
<1> DEFINE p == Just(step)
<1>5. Placed(c, p) /\ p.step \notin {"fill", "save"} /\ ~Before(p)
  BY <1>3, <1>4, Goes, JustFits
<1>6. PICK s \in Days \cup {NoDay} : slot' = [slot EXCEPT ![c] = s]
  <2>1. CASE UNCHANGED slot
    BY <1>2, <2>1
  <2>2. CASE On(c).shown # {} /\ \E d \in Found(c) : slot' = [slot EXCEPT ![c] = d]
    <3> DEFINE shown == On(c).shown
               fits == {d \in shown : Room[d] >= Len(Party[c])}
    <3>1. shown \in SUBSET Days /\ fits \in SUBSET Days
      BY <1>2 DEF Tab
    <3>2. shown \in SUBSET Nat /\ fits \in SUBSET Nat
      BY <3>1
    <3>3. Min(shown) \in Days
      BY <2>2, <3>1, <3>2, Least
    <3>4. fits # {} => Min(fits) \in Days
      BY <3>1, <3>2, Least
    <3>5. Found(c) = {Min(shown)} \cup IF fits = {} THEN {} ELSE {Min(fits)}
      BY DEF Found
    <3> HIDE DEF shown, fits
    <3>6. Found(c) \subseteq Days
      BY <3>3, <3>4, <3>5
    <3>7. QED
      BY <2>2, <3>6
  <2>3. QED
    BY <2>1, <2>2 DEF ReadCalendar
<1> HIDE DEF p
<1>7. Known(c, On(c), p) /\ DayKept(c, On(c), s)
  BY <1>1, <1>2, <1>5 DEF Known, DayKept, DraftOk, Dated, Details
<1>8. QED
  BY <1>1, <1>5, <1>6, <1>7, PlacedStep

-----------------------------------------------------------------------------
(* The booking job and the payment                                         *)

\* A day is chosen: the one that was found, unless the calendar lost it.
LEMMA SelectStep ==
  ASSUME AdapterInv, NEW c \in Cases, SelectAppointment(c)
  PROVE  AdapterInv'
<1> DEFINE step == IF Challenged(c) THEN "getPaymentState" ELSE "forward"
<1>1. at[c].step = "selectAppointment" /\ Go(c, step) /\ UNCHANGED slot /\ Rest
  BY DEF SelectAppointment, At, Rest
<1>2. step \in Plain /\ step \notin {"authenticate", "signIn", "inspectRoute", "criteria",
                                     "human", "resume"}
  BY DEF Plain, Calls, Inside, Entering
<1> HIDE DEF step
<1>3. Placed(c, Just(step)) /\ ~Before(Just(step)) /\ Just(step).step \notin {"fill", "save"}
  BY <1>1, <1>2, Goes, JustFits
<1>4. CASE UNCHANGED tab
  BY <1>1, <1>3, <1>4, PassStep
<1>5. ASSUME Is(c, {"calendar"}), NEW day \in days, day = PickDay(c),
             Set(session[c], [On(c) EXCEPT !.day = day, !.where = "services", !.by = @ \cup {c}])
      PROVE  AdapterInv'
  <2> DEFINE e == On(c)
             d == [e EXCEPT !.day = day, !.where = "services", !.by = @ \cup {c}]
  <2>1. session[c] # NoTab /\ e.where = "calendar" /\ Set(session[c], d)
    BY <1>5 DEF Is
  <2>2. /\ e \in Tab /\ DraftOk(e) /\ Booked(c, e)
        /\ slot' = [slot EXCEPT ![c] = slot[c]] /\ slot[c] \in Days \cup {NoDay}
    BY <1>1, <2>1, Own
  <2>3. day \in Days /\ (mode # "local" => day = slot[c] \/ slot[c] \notin e.shown)
    BY <1>5 DEF PickDay, AdapterInv, Typed
  <2> HIDE DEF e
  <2>4. /\ d \in Tab /\ c \in d.by /\ d.where = "services" /\ d.listed = e.listed
        /\ d.clean = e.clean /\ d.day = day /\ d.shown = e.shown /\ d.by = e.by \cup {c}
    BY <2>2, <2>3 DEF Tab, Where, Booking
  <2> HIDE DEF d
  <2>5. DraftOk(d)
    BY <2>4 DEF DraftOk, Fresh, Moved, Dated, Early, Gone, Entry, Booking
  <2>6. d.by = {c} => e.by = {c}
    BY <2>1, <2>2, <2>4, Mine DEF Early, Gone, Entry
  <2>7. Booked(c, d)
    BY <2>1, <2>2, <2>4, <2>6 DEF Booked, Good, Booking
  <2>8. mode # "local" => DayKept(c, d, slot[c])
    BY <2>3, <2>4 DEF DayKept
  <2>9. Known(c, d, Just(step))
    BY <1>3, <2>4 DEF Known
  <2>10. OwnDraft(c, d)
    BY <2>4, <2>5, <2>7 DEF OwnDraft
  <2>11. QED
    BY <1>1, <1>3, <2>1, <2>2, <2>8, <2>9, <2>10, DraftedStep
<1>6. QED
  BY <1>4, <1>5 DEF SelectAppointment

\* The job and the resume job go on to the payment.
LEMMA PaymentSteps ==
  ASSUME AdapterInv, NEW c \in Cases, Forward(c) \/ GetPaymentState(c) \/ PaidCall(c)
  PROVE  AdapterInv'
<1>1. /\ at[c].step \in {"forward", "getPaymentState", "paid"} /\ UNCHANGED slot /\ Rest
      /\ \/ Challenged(c) /\ Ask(c, "getPaymentState") /\ UNCHANGED tab
         \/ \E step \in {"getPaymentState", "handoff", "getConfirmation"} :
              Go(c, step) /\ (GoForward(c) \/ UNCHANGED tab)
  BY DEF Forward, GetPaymentState, PaidCall, At, Rest
<1>2. CASE Challenged(c) /\ Ask(c, "getPaymentState") /\ UNCHANGED tab
  BY <1>1, <1>2, AskStep
<1>3. ASSUME NEW step \in {"getPaymentState", "handoff", "getConfirmation"}, Go(c, step),
             GoForward(c) \/ UNCHANGED tab
      PROVE  AdapterInv'
  <2>1. step \in Plain
    BY DEF Plain, Calls, Waiting
  <2>2. /\ Placed(c, Just(step)) /\ ~Before(Just(step))
        /\ Just(step).step \notin {"fill", "save"}
    BY <1>3, <2>1, Goes, JustFits
  <2>3. CASE GoForward(c)
    BY <1>1, <2>2, <2>3, ForwardStep
  <2>4. CASE UNCHANGED tab
    BY <1>1, <2>2, <2>4, PassStep
  <2>5. QED
    BY <1>3, <2>3, <2>4
<1>4. QED
  BY <1>1, <1>2, <1>3

-----------------------------------------------------------------------------
(* The human, the portal and the worker process                            *)

\* A human resumes the automation.
LEMMA ResumesStep ==
  ASSUME AdapterInv, Resumes
  PROVE  AdapterInv'
<1>0. Rest /\ UNCHANGED <<tab, slot>>
  BY DEF Resumes, Rest
<1>1. PICK c \in Cases : \/ At(c, "human") /\ at' = [at EXCEPT ![c].step = "resume"]
                         \/ At(c, "handoff") /\ Go(c, "paid")
  BY DEF Resumes
<1>2. CASE At(c, "human") /\ at' = [at EXCEPT ![c].step = "resume"]
  <2> DEFINE p == [at[c] EXCEPT !.step = "resume"]
  <2>1. at[c].step = "human" /\ at' = [at EXCEPT ![c] = p] /\ PlaceOk(c, at[c])
    BY <1>2 DEF At, AdapterInv, PlacesInv
  <2>2. p \in Place /\ p.step = "resume" /\ p.back = at[c].back
    BY <2>1 DEF PlaceOk, Place, Calls
  <2> HIDE DEF p
  <2>3. Placed(c, p) /\ (Before(p) <=> Before(at[c]))
    BY <2>1, <2>2 DEF Placed, PlaceOk, Entering, Before
  <2>4. QED
    BY <1>0, <2>1, <2>2, <2>3, PassStep
<1>3. CASE At(c, "handoff") /\ Go(c, "paid")
  <2>1. "paid" \in Plain /\ ~Before(Just("paid")) /\ at[c].step = "handoff"
    BY <1>3, JustFits DEF Plain, Calls, At
  <2>2. QED
    BY <1>0, <1>3, <2>1, GoStep
<1>4. QED
  BY <1>1, <1>2, <1>3

\* Nothing but the drafts changes, and no case may know of those that do.
LEMMA OutsideStep ==
  ASSUME AdapterInv, tab' \in [Tabs -> Tab], \A t \in Tabs : DraftOk(tab'[t]),
         \A t \in Tabs : Same(tab[t], tab'[t]) \/ tab'[t].by = {},
         days' \subseteq Days, events' \in 0..MaxEvents, observer' \in [Cases -> BOOLEAN],
         UNCHANGED <<mode, session, at, slot>>
  PROVE  AdapterInv'
<1>1. Typed' /\ DraftsInv' /\ PlacesInv'
  BY DEF AdapterInv, Typed, DraftsInv, PlacesInv
<1>2. \A t \in Tabs, c \in Cases \ {} : Same(tab[t], tab'[t]) \/ tab'[t].by # {c}
  OBVIOUS
<1>3. /\ \A c \in Cases \ {} : \/ session'[c] \in {NoTab, session[c]}
                               \/ tab'[session'[c]].by # {c}
      /\ \A c \in Cases \ {} : at'[c] = at[c] /\ slot'[c] = slot[c]
      /\ session' \in [Cases -> Tabs \cup {NoTab}] /\ mode' = mode
  BY DEF AdapterInv, Typed
<1>4. {} \in SUBSET Cases
  OBVIOUS
<1>5. \A c \in Cases \ {} :
           /\ \A t \in Tabs : Booked(c, tab'[t])
           /\ session'[c] # NoTab =>
                /\ Known(c, On(c)', at'[c])
                /\ mode' # "local" => DayKept(c, On(c)', slot'[c])
  BY <1>2, <1>3, <1>4, OthersKeep
<1>6. BookedInv' /\ KnownInv'
  BY <1>5 DEF BookedInv, KnownInv
<1>7. QED
  BY <1>1, <1>6 DEF AdapterInv

\* One of the drafts is replaced.
LEMMA OneReplaced ==
  ASSUME AdapterInv, NEW t \in Tabs, NEW d, Set(t, d), DraftOk(d),
         Same(tab[t], d) \/ d.by = {}
  PROVE  /\ tab' \in [Tabs -> Tab] /\ \A u \in Tabs : DraftOk(tab'[u])
         /\ \A u \in Tabs : Same(tab[u], tab'[u]) \/ tab'[u].by = {}
<1>1. tab \in [Tabs -> Tab] /\ d \in Tab /\ tab' = [tab EXCEPT ![t] = d]
  BY DEF AdapterInv, Typed, DraftOk, Set
<1>2. tab'[t] = d /\ \A u \in Tabs : u # t => tab'[u] = tab[u]
  BY <1>1
<1>3. \A u \in Tabs : DraftOk(tab'[u])
  BY <1>2 DEF AdapterInv, DraftsInv
<1>4. \A u \in Tabs : Same(tab[u], tab'[u]) \/ tab'[u].by = {}
  BY <1>2 DEF Same
<1>5. QED
  BY <1>1, <1>3, <1>4

\* The human signs in, solves a challenge or pays.
LEMMA HelpsStep ==
  ASSUME AdapterInv, Helps
  PROVE  AdapterInv'
<1>1. PICK t \in Open : \/ Set(t, Draft("home", {}))
                        \/ Set(t, [tab[t] EXCEPT !.asked = FALSE])
                        \/ tab[t].where = "payment" /\ Set(t, [tab[t] EXCEPT !.where = "confirmed"])
  BY DEF Helps
<1> DEFINE e == tab[t]
<1>2. t \in Tabs /\ e \in Tab /\ DraftOk(e)
  BY DEF Open, AdapterInv, Typed, DraftsInv
<1>3. UNCHANGED <<mode, session, days, at, slot, observer, events>>
  BY DEF Helps
<1>4. days \subseteq Days /\ events \in 0..MaxEvents /\ observer \in [Cases -> BOOLEAN]
  BY DEF AdapterInv, Typed
<1>5. ASSUME NEW d, Set(t, d), DraftOk(d), Same(e, d) \/ d.by = {} PROVE AdapterInv'
  BY <1>2, <1>3, <1>4, <1>5, OneReplaced, OutsideStep
<1>6. CASE Set(t, Draft("home", {}))
  BY <1>5, <1>6, NewDraft DEF Early
<1>7. CASE Set(t, [e EXCEPT !.asked = FALSE])
  <2>1. [e EXCEPT !.asked = FALSE] \in Tab /\ Same(e, [e EXCEPT !.asked = FALSE])
    BY <1>2 DEF Tab, Same
  <2>2. DraftOk([e EXCEPT !.asked = FALSE])
    BY <1>2, <2>1, SameKeeps
  <2>3. QED
    BY <1>5, <1>7, <2>1, <2>2
<1>8. CASE e.where = "payment" /\ Set(t, [e EXCEPT !.where = "confirmed"])
  <2>1. /\ [e EXCEPT !.where = "confirmed"] \in Tab
        /\ Same(e, [e EXCEPT !.where = "confirmed"])
    BY <1>2, <1>8 DEF Tab, Where, Booking, Same
  <2>2. DraftOk([e EXCEPT !.where = "confirmed"])
    BY <1>2, <2>1, SameKeeps
  <2>3. QED
    BY <1>5, <1>8, <2>1, <2>2
<1>9. QED
  BY <1>1, <1>6, <1>7, <1>8

\* A calendar on show that takes over a change has no day chosen.
LEMMA ShownAgain ==
  ASSUME NEW e \in Tab, DraftOk(e), NEW s \in SUBSET Days, NEW d,
         d = [e EXCEPT !.shown = IF e.where = "calendar" THEN s ELSE @]
  PROVE  d \in Tab /\ Same(e, d) /\ DraftOk(d)
<1>1. d \in Tab
  BY DEF Tab
<1>2. /\ d.where = e.where /\ d.listed = e.listed /\ d.typed = e.typed /\ d.day = e.day
      /\ d.by = e.by /\ d.clean = e.clean
      /\ e.where # "calendar" => d.shown = e.shown
  BY DEF Tab
<1>3. e.where = "calendar" => e.day = NoDay
  BY DEF DraftOk, Dated
<1>4. Same(e, d)
  BY <1>2, <1>3 DEF Same
<1>5. QED
  BY <1>1, <1>4, SameKeeps

\* What comes unasked.
LEMMA InterferesStep ==
  ASSUME AdapterInv, Interferes
  PROVE  AdapterInv'
<1>1. /\ UNCHANGED <<mode, session, at, slot, observer>>
      /\ events' \in 0..MaxEvents /\ observer' \in [Cases -> BOOLEAN]
      /\ days \subseteq Days
  BY DEF Interferes, AdapterInv, Typed
<1>2. ASSUME NEW t \in Open, UNCHANGED days,
             \/ Set(t, Draft("closed", {}))
             \/ \E w \in {"home", "login"} : Set(t, Draft(w, {}))
             \/ Set(t, [tab[t] EXCEPT !.asked = TRUE])
      PROVE  AdapterInv'
  <2> DEFINE e == tab[t]
  <2>1. t \in Tabs /\ e \in Tab /\ DraftOk(e)
    BY DEF Open, AdapterInv, Typed, DraftsInv
  <2>2. ASSUME NEW d, Set(t, d), DraftOk(d), Same(e, d) \/ d.by = {} PROVE AdapterInv'
    BY <1>1, <1>2, <2>1, <2>2, OneReplaced, OutsideStep
  <2>3. ASSUME NEW w \in {"closed", "home", "login"}, Set(t, Draft(w, {})) PROVE AdapterInv'
    BY <2>2, <2>3, NewDraft DEF Early, Gone, Entry
  <2>4. CASE Set(t, [e EXCEPT !.asked = TRUE])
    <3>1. [e EXCEPT !.asked = TRUE] \in Tab /\ Same(e, [e EXCEPT !.asked = TRUE])
      BY <2>1 DEF Tab, Same
    <3>2. DraftOk([e EXCEPT !.asked = TRUE])
      BY <2>1, <3>1, SameKeeps
    <3>3. QED
      BY <2>2, <2>4, <3>1, <3>2
  <2>5. QED
    BY <1>2, <2>3, <2>4
<1>3. ASSUME NEW d \in Days, days' = (days \ {d}) \cup ({d} \ days),
             \/ UNCHANGED tab
             \/ tab' = [t \in Tabs |-> [tab[t] EXCEPT !.shown =
                                         IF tab[t].where = "calendar" THEN days' ELSE @]]
      PROVE  AdapterInv'
  <2>1. days' \subseteq Days
    BY <1>1, <1>3
  <2>2. \A t \in Tabs : tab'[t] \in Tab /\ Same(tab[t], tab'[t]) /\ DraftOk(tab'[t])
    <3> SUFFICES ASSUME NEW t \in Tabs
                 PROVE  tab'[t] \in Tab /\ Same(tab[t], tab'[t]) /\ DraftOk(tab'[t])
      OBVIOUS
    <3>1. tab[t] \in Tab /\ DraftOk(tab[t])
      BY DEF AdapterInv, Typed, DraftsInv
    <3>2. CASE UNCHANGED tab
      BY <3>1, <3>2 DEF Same
    <3>3. CASE tab'[t] = [tab[t] EXCEPT !.shown =
                            IF tab[t].where = "calendar" THEN days' ELSE @]
      BY <2>1, <3>1, <3>3, ShownAgain
    <3>4. QED
      BY <1>3, <3>2, <3>3
  <2>3. tab' \in [Tabs -> Tab]
    BY <1>3, <2>2 DEF AdapterInv, Typed
  <2>4. QED
    BY <1>1, <2>1, <2>2, <2>3, OutsideStep
<1>4. QED
  BY <1>2, <1>3 DEF Interferes

\* Where another worker takes a job up is a place it may be at.
LEMMA RecoveredFits ==
  ASSUME NEW c \in Cases, NEW p, PlaceOk(c, p)
  PROVE  PlaceOk(c, Recovered(p))
<1>1. \A step \in {"authenticate", "checkAvailability", "ended"} :
        PlaceOk(c, [Start EXCEPT !.step = step])
  BY JustFits DEF Just, Plain, Waiting, Calls
<1>2. Recovered(p) = p \/ \E step \in {"authenticate", "checkAvailability", "ended"} :
                            Recovered(p) = [Start EXCEPT !.step = step]
  BY DEF Recovered
<1>3. QED
  BY <1>1, <1>2

\* The worker stops, with its browser or without, and starts again.
LEMMA RestartStep ==
  ASSUME AdapterInv, RestartWorker
  PROVE  AdapterInv'
<1>1. /\ session' = [c \in Cases |-> NoTab] /\ observer' = [c \in Cases |-> FALSE]
      /\ at' = [c \in Cases |-> Recovered(at[c])] /\ UNCHANGED <<mode, days, slot>>
      /\ events' \in 0..MaxEvents
  BY DEF RestartWorker, AdapterInv, Typed
<1>2. PICK closed : tab' = [t \in Tabs |-> IF t \in closed THEN Draft("closed", {}) ELSE tab[t]]
  BY DEF RestartWorker
<1>3. \A t \in Tabs : \/ tab'[t] = tab[t]
                      \/ tab'[t] = Draft("closed", {})
  BY <1>2
<1>4. DraftOk(Draft("closed", {})) /\ Draft("closed", {}).by = {}
  BY NewDraft DEF Early, Gone
<1>5. \A t \in Tabs : DraftOk(tab'[t])
  BY <1>3, <1>4 DEF AdapterInv, DraftsInv
<1>6. \A c \in Cases : PlaceOk(c, at'[c])
  BY <1>1, RecoveredFits DEF AdapterInv, PlacesInv
<1>7. Typed'
  BY <1>1, <1>2, <1>5, <1>6 DEF AdapterInv, Typed, DraftOk, PlaceOk
<1>8. \A t \in Tabs, c \in Cases : Booked(c, tab'[t])
  BY <1>3, <1>4, Foreign DEF AdapterInv, BookedInv
<1>9. KnownInv'
  BY <1>1 DEF KnownInv
<1>10. QED
  BY <1>5, <1>6, <1>7, <1>8, <1>9 DEF AdapterInv, DraftsInv, PlacesInv, BookedInv

-----------------------------------------------------------------------------
(* The theorems                                                            *)

\* Nothing has been done yet.
LEMMA AdapterStarts == Init => AdapterInv
<1> SUFFICES ASSUME Init PROVE AdapterInv
  OBVIOUS
<1>1. DraftOk(Draft("none", {})) /\ Draft("none", {}).by = {}
  BY NewDraft DEF Early, Gone
<1>2. \A c : PlaceOk(c, Start)
  BY DEF PlaceOk, Start, Place, Waiting, Calls, Inside, Entering
<1>3. \A t \in Tabs : tab[t] = Draft("none", {})
  BY DEF Init
<1>4. DraftsInv /\ BookedInv
  BY <1>1, <1>3, Foreign DEF DraftsInv, BookedInv
<1>5. PlacesInv /\ KnownInv
  BY <1>2 DEF Init, PlacesInv, KnownInv
<1>6. Start \in Place
  BY DEF Start, Place, Waiting, Calls, Inside, Entering
<1>7. Typed
  <2>1. tab \in [Tabs -> Tab]
    BY <1>1 DEF Init, DraftOk
  <2>2. at \in [Cases -> Place]
    BY <1>6 DEF Init
  <2>3. QED
    BY <2>1, <2>2 DEF Init, Typed
<1>8. QED
  BY <1>4, <1>5, <1>7 DEF AdapterInv

\* Nothing happens.
LEMMA AdapterStutters ==
  ASSUME AdapterInv, UNCHANGED vars
  PROVE  AdapterInv'
<1>1. Typed' /\ DraftsInv' /\ PlacesInv' /\ BookedInv' /\ KnownInv'
  BY DEF vars, AdapterInv, Typed, DraftsInv, PlacesInv, BookedInv, KnownInv, On
<1>2. QED
  BY <1>1 DEF AdapterInv

\* Every step keeps the invariant.
LEMMA AdapterSteps == AdapterInv /\ [Next]_vars => AdapterInv'
<1> SUFFICES ASSUME AdapterInv, [Next]_vars PROVE AdapterInv'
  OBVIOUS
<1>1. ASSUME NEW c \in Cases, Login(c) PROVE AdapterInv'
  BY <1>1, QuietSteps, OpeningSteps, SignInSteps DEF Login
<1>2. ASSUME NEW c \in Cases, Enters(c) PROVE AdapterInv'
  BY <1>2, FillForm, FillBreaks, SaveNext, SaveLastStep, SummaryStep DEF Enters
<1>3. ASSUME NEW c \in Cases, Finds(c) PROVE AdapterInv'
  BY <1>3, RouteSteps, DetailSteps, ReadOther, ReadCalendarStep DEF Finds
<1>4. ASSUME NEW c \in Cases, Books(c) PROVE AdapterInv'
  BY <1>4, QuietSteps, DetailSteps, SelectStep, PaymentSteps DEF Books
<1>5. ASSUME NEW c \in Cases, Checks(c) PROVE AdapterInv'
  BY <1>5, QuietSteps, PaymentSteps DEF Checks
<1>6. ASSUME NEW c \in Cases, ClickSignIn(c) \/ PrepareLogin(c) \/ ObserverStops(c)
      PROVE  AdapterInv'
  BY <1>6, SignInSteps, OpeningSteps, ObserverStep
<1>7. CASE UNCHANGED vars
  BY <1>7, AdapterStutters
<1>8. QED
  BY <1>1, <1>2, <1>3, <1>4, <1>5, <1>6, <1>7,
     RestartStep, HelpsStep, ResumesStep, InterferesStep DEF Next, Automation

\* The drafts, the places of the jobs and what a job knows of its own draft fit
\* together in every reachable state, whatever the other cases, the human, the portal
\* and a restart did in between (vfs-provider-adapter.ts, applicant-details.page.ts).
THEOREM AdapterInvariant == Spec => []AdapterInv
BY AdapterStarts, AdapterSteps, PTL DEF Spec

\* Every variable keeps its type: an entry is at a traveller of the party, a day that
\* is chosen is one of the portal, a session is a tab that was opened.
THEOREM AdapterTypeInvariant == Spec => []TypeOK
<1>1. AdapterInv => TypeOK
  BY DEF AdapterInv, Typed, TypeOK
<1>2. QED
  BY <1>1, AdapterInvariant, PTL

\* A booking that one case brought to the calendar or further lists the party of that
\* case, each traveller once and in order (fillApplicants and handleSummaryPage of
\* applicant-details.page.ts), for parties and days of any number.
THEOREM PartyIsBooked == Spec => []PartyBooked
<1>1. AdapterInv => PartyBooked
  BY DEF AdapterInv, BookedInv, Booked, Good, PartyBooked
<1>2. QED
  BY <1>1, AdapterInvariant, PTL

\* The day that is booked for a case is the one its check reported, unless the calendar
\* had lost it (checkAvailability, selectAppointment).
THEOREM DayIsKept == Spec => []DayMovedOnlyIfGone
<1>1. AdapterInv => DayMovedOnlyIfGone
  BY DEF AdapterInv, KnownInv, DayKept, Is, DayMovedOnlyIfGone
<1>2. QED
  BY <1>1, AdapterInvariant, PTL

-----------------------------------------------------------------------------
(* What has been entered                                                   *)

\* No list of applicants is emptied.
ListsKept == \A t \in Tabs : tab[t].listed # <<>> => tab'[t].listed # <<>>

\* The draft of a case is replaced by one that is not emptied.
LEMMA ListKept ==
  ASSUME AdapterInv, NEW c \in Cases, session[c] # NoTab, NEW d, Set(session[c], d),
         On(c).listed # <<>> => d.listed # <<>>
  PROVE  ListsKept
<1>1. session[c] \in Tabs /\ tab' = [tab EXCEPT ![session[c]] = d] /\ DOMAIN tab = Tabs
  BY DEF AdapterInv, Typed, Set
<1>2. QED
  BY <1>1 DEF On, ListsKept

\* A step that leaves the tabs alone empties no list.
LEMMA TabsKept ==
  ASSUME UNCHANGED tab
  PROVE  ListsKept
BY DEF ListsKept

\* Continue, and a click that leads to another page.
LEMMA MoveKeeps ==
  ASSUME AdapterInv, NEW c \in Cases, session[c] # NoTab,
         PressContinue(c) \/ \E w : Move(c, w)
  PROVE  ListsKept
<1> DEFINE e == On(c)
<1>1. e \in Tab
  BY Own
<1>2. ASSUME NEW w, NEW d, d = [e EXCEPT !.where = w, !.by = @ \cup {c}]
      PROVE  d.listed = e.listed /\ Rendered(d).listed = e.listed
  <2> HIDE DEF e
  <2>1. DOMAIN d = DOMAIN e /\ d.listed = e.listed /\ "listed" \in DOMAIN e
    BY <1>1, <1>2 DEF Tab
  <2>2. QED
    BY <2>1 DEF Rendered
<1>3. CASE \E w : Move(c, w)
  BY <1>2, <1>3, ListKept DEF Move
<1>4. CASE PressContinue(c)
  BY <1>2, <1>4, ListKept DEF PressContinue
<1>5. QED
  BY <1>3, <1>4

\* The entry of applicants begins.
LEMMA EnterKeeps ==
  ASSUME AdapterInv, NEW c \in Cases, NEW then, EnterDetails(c, then)
  PROVE  ListsKept
<1>1. CASE Is(c, {"form"})
  <2> DEFINE e == On(c)
             d == [e EXCEPT !.clean = @ /\ e.listed = <<>>, !.by = @ \cup {c}]
  <2>1. session[c] # NoTab /\ Set(session[c], d)
    BY <1>1 DEF EnterDetails, Is
  <2>2. e \in Tab
    BY <2>1, Own
  <2>3. d.listed = e.listed
    BY <2>2 DEF Tab
  <2>4. QED
    BY <2>1, <2>3, ListKept
<1>2. CASE ~Is(c, {"form"})
  BY <1>2, TabsKept DEF EnterDetails
<1>3. QED
  BY <1>1, <1>2

\* A login is opened again only where there was no list.
LEMMA LoginKeeps ==
  ASSUME AdapterInv, NEW c \in Cases, FirstLogin(c), session' = session
  PROVE  ListsKept
<1>1. PICK t \in Tabs : /\ session' = [session EXCEPT ![c] = t]
                        /\ t \in IF session[c] # NoTab THEN {session[c]} \cap Open ELSE NextTab
                        /\ \E w : Set(t, Draft(w, {}))
  BY NextTabs DEF FirstLogin, OpenLogin, Open
<1>2. session \in [Cases -> Tabs \cup {NoTab}] /\ NoTab \notin Tabs
  BY DEF AdapterInv, Typed, Tabs, NoTab
<1>3. session[c] = t /\ session[c] # NoTab
  BY <1>1, <1>2
<1>4. On(c).where \in Gone \cup Entry
  BY <1>3, Own DEF FirstLogin, LoggedIn, Is, Tab
<1>5. On(c).listed = <<>>
  BY <1>3, <1>4, Own DEF DraftOk, Fresh, Early
<1>6. QED
  BY <1>1, <1>3, <1>5, ListKept

\* Logging in and inspecting the route.
LEMMA ArrivalKeeps ==
  ASSUME AdapterInv, NEW c \in Cases, Login(c) \/ InspectRoute(c) \/ Criteria(c),
         session' = session
  PROVE  ListsKept
<1>1. CASE FirstLogin(c)
  BY <1>1, LoginKeeps
<1>2. CASE LocalSignIn(c)
  <2>1. CASE UNCHANGED tab
    BY <2>1, TabsKept
  <2>2. CASE session[c] # NoTab /\ Move(c, "home")
    BY <2>2, MoveKeeps
  <2>3. CASE session[c] # NoTab /\ Set(session[c], [On(c) EXCEPT !.asked = TRUE])
    <3>1. On(c) \in Tab
      BY <2>3, Own
    <3>2. [On(c) EXCEPT !.asked = TRUE].listed = On(c).listed
      BY <3>1 DEF Tab
    <3>3. QED
      BY <2>3, <3>2, ListKept
  <2>4. QED
    BY <1>2, <2>1, <2>2, <2>3 DEF LocalSignIn, LoginForm, Click, Is
<1>3. CASE RefuseRoute(c) \/ NoBrowser(c) \/ AgainLogin(c) \/ AwaitSignIn(c)
  BY <1>3, TabsKept DEF RefuseRoute, NoBrowser, AgainLogin, AwaitSignIn
<1>4. CASE InspectRoute(c)
  <2>1. CASE UNCHANGED tab
    BY <2>1, TabsKept
  <2>2. CASE Is(c, {"home"}) /\ Set(session[c], Draft("criteria", {c}))
    <3>1. session[c] # NoTab /\ On(c).where = "home"
      BY <2>2 DEF Is
    <3>2. On(c).listed = <<>>
      BY <3>1, Own DEF DraftOk, Fresh, Early
    <3>3. QED
      BY <2>2, <3>1, <3>2, ListKept
  <2>3. QED
    BY <1>4, <2>1, <2>2 DEF InspectRoute, StartNewBooking
<1>5. CASE Criteria(c)
  <2>1. CASE UNCHANGED tab
    BY <2>1, TabsKept
  <2>2. CASE Is(c, Where \ Gone) /\ PressContinue(c)
    BY <2>2, MoveKeeps DEF Is
  <2>3. QED
    BY <1>5, <2>1, <2>2 DEF Criteria
<1>6. QED
  BY <1>1, <1>2, <1>3, <1>4, <1>5 DEF Login

\* A Save adds to the list.
LEMMA SaveKeeps ==
  ASSUME AdapterInv, NEW c \in Cases, Filled(c), NEW k \in 0..2, NEW w \in Details,
         Set(session[c], Saved(c, k, w))
  PROVE  ListsKept
<1> DEFINE d == Saved(c, k, w)
<1>1. session[c] # NoTab
  BY DEF Filled, Is
<1>2. On(c).listed \in Seq(Applicants)
  BY <1>1, Own DEF Tab
<1>3. d = Saved(c, k, w) /\ AdapterInv /\ c \in Cases /\ Filled(c) /\ k \in 0..2 /\ w \in Details
  OBVIOUS
<1> HIDE DEF d
<1>4. Len(d.listed) = Len(On(c).listed) + k
  BY ONLY <1>1, <1>3, SavedDraft
<1>5. On(c).listed # <<>> => d.listed # <<>>
  <2>1. On(c).listed # <<>> => Len(On(c).listed) > 0
    BY <1>2
  <2>2. d.listed = <<>> => Len(d.listed) = 0
    OBVIOUS
  <2>3. QED
    BY <1>2, <1>4, <2>1, <2>2
<1>6. QED
  BY <1>1, <1>3, <1>5, ListKept

\* The entry of applicants goes on.
LEMMA EntryKeeps ==
  ASSUME AdapterInv, NEW c \in Cases, Enters(c)
  PROVE  ListsKept
<1>1. ASSUME session[c] # NoTab PROVE On(c) \in Tab
  BY <1>1, Own
<1>2. CASE UNCHANGED tab
  BY <1>2, TabsKept
<1>3. CASE session[c] # NoTab /\ Set(session[c], [On(c) EXCEPT !.clean = FALSE])
  <2>1. [On(c) EXCEPT !.clean = FALSE].listed = On(c).listed
    BY <1>1, <1>3 DEF Tab
  <2>2. QED
    BY <1>3, <2>1, ListKept
<1>4. CASE Fill(c)
  <2> DEFINE d == [On(c) EXCEPT !.typed = Party[c][at[c].i], !.by = @ \cup {c}]
  <2>1. CASE Is(c, {"form"}) /\ Set(session[c], d)
    <3>1. d.listed = On(c).listed
      BY <1>1, <2>1 DEF Is, Tab
    <3>2. QED
      BY <2>1, <3>1, ListKept DEF Is
  <2>2. QED
    BY <1>2, <1>3, <1>4, <2>1 DEF Fill, Is
<1>5. CASE SaveAndNext(c)
  BY <1>2, <1>3, <1>5, SaveKeeps DEF SaveAndNext, Filled, Is
<1>6. CASE SaveLast(c)
  BY <1>2, <1>6, SaveKeeps DEF SaveLast, Details
<1>7. CASE Summary(c)
  <2> DEFINE s == On(c).listed
             d == [On(c) EXCEPT !.listed = Front(@), !.by = @ \cup {c}]
  <2>1. CASE Is(c, {"summary"}) /\ Len(s) > Len(Party[c]) /\ Set(session[c], d)
    <3>1. session[c] # NoTab /\ s \in Seq(Applicants) /\ d.listed = Front(s)
      BY <1>1, <2>1 DEF Is, Tab
    <3>2. Len(Party[c]) \in Nat \ {0} /\ Len(s) > Len(Party[c])
      BY <2>1, Travellers
    <3> HIDE DEF s
    <3>3. Len(Front(s)) > 0
      BY <3>1, <3>2 DEF Front
    <3>4. d.listed # <<>>
      BY <3>1, <3>3
    <3>5. QED
      BY <2>1, <3>1, <3>4, ListKept
  <2>2. CASE Is(c, Where \ Gone) /\ PressContinue(c)
    BY <2>2, MoveKeeps DEF Is
  <2>3. QED
    BY <1>2, <1>7, <2>1, <2>2 DEF Summary
<1>8. QED
  BY <1>4, <1>5, <1>6, <1>7 DEF Enters

\* The calls on the portal.
LEMMA CallsKeep ==
  ASSUME AdapterInv, NEW c \in Cases, Finds(c) \/ Books(c) \/ Checks(c), session' = session
  PROVE  ListsKept
<1>1. CASE UNCHANGED tab
  BY <1>1, TabsKept
<1>2. CASE InspectRoute(c) \/ Criteria(c)
  BY <1>2, ArrivalKeeps
<1>3. CASE InspectDetails(c) \/ CheckAvailability(c) \/ AddApplicants(c)
  BY <1>1, <1>3, EnterKeeps DEF InspectDetails, CheckAvailability, AddApplicants
<1>4. CASE ReadElsewhere(c)
  <2>1. ASSUME NEW k \in 0..2, Filled(c),
               Set(session[c], Saved(c, k, IF k = 0 THEN "form" ELSE "summary"))
        PROVE  ListsKept
    <3>1. PICK w \in Details : w = (IF k = 0 THEN "form" ELSE "summary")
      BY DEF Details
    <3>2. QED
      BY <2>1, <3>1, SaveKeeps
  <2>2. QED
    BY <1>1, <1>4, <2>1 DEF ReadElsewhere
<1>5. CASE SelectAppointment(c)
  <2>1. ASSUME NEW day, Is(c, {"calendar"}),
               Set(session[c], [On(c) EXCEPT !.day = day, !.where = "services", !.by = @ \cup {c}])
        PROVE  ListsKept
    <3> DEFINE d == [On(c) EXCEPT !.day = day, !.where = "services", !.by = @ \cup {c}]
    <3>1. session[c] # NoTab
      BY <2>1 DEF Is
    <3>2. On(c) \in Tab
      BY <3>1, Own
    <3>3. d.listed = On(c).listed
      BY <3>2 DEF Tab
    <3>4. QED
      BY <2>1, <3>1, <3>3, ListKept
  <2>2. QED
    BY <1>1, <1>5, <2>1 DEF SelectAppointment
<1>6. ASSUME GoForward(c) PROVE ListsKept
  BY <1>1, <1>6, MoveKeeps DEF GoForward, Is
<1>7. CASE Forward(c) \/ GetPaymentState(c) \/ PaidCall(c)
  BY <1>1, <1>6, <1>7 DEF Forward, GetPaymentState, PaidCall
<1>8. CASE ReadCalendar(c) \/ BeginBooking(c) \/ ResumeCall(c) \/ GetConfirmation(c)
  BY <1>1, <1>8 DEF ReadCalendar, BeginBooking, ResumeCall, GetConfirmation
<1>9. QED
  BY <1>2, <1>3, <1>4, <1>5, <1>7, <1>8 DEF Finds, Books, Checks

\* A step of a job that has its session empties no list of applicants: a login is
\* opened again, and a booking begun, only where nothing was entered (authenticate,
\* inspectRoute, handleSummaryPage).
THEOREM OwnDraftIsKept == Spec => OwnDraftKept
<1> DEFINE Kept == \A c \in Cases :
                     session[c] # NoTab /\ at'[c] # at[c] /\ On(c).listed # <<>> /\ session' = session
                       => On(c)'.listed # <<>>
<1>1. AdapterInv /\ [Next]_vars => [Kept]_vars
  <2> SUFFICES ASSUME AdapterInv, Next,
                      NEW c \in Cases, session[c] # NoTab, at'[c] # at[c],
                      On(c).listed # <<>>, session' = session
               PROVE  On(c)'.listed # <<>>
    OBVIOUS
  <2>1. ASSUME NEW b \in Cases, Automation(b) PROVE ListsKept
    BY <2>1, ArrivalKeeps, EntryKeeps, CallsKeep DEF Automation
  <2>2. ASSUME Resumes PROVE ListsKept
    <3>1. UNCHANGED tab
      BY <2>2 DEF Resumes
    <3>2. QED
      BY <3>1, TabsKept
  <2>3. ~RestartWorker
    BY DEF RestartWorker
  <2>4. ListsKept
    <3>1. ASSUME NEW b \in Cases PROVE ~ClickSignIn(b) /\ ~PrepareLogin(b) /\ ~ObserverStops(b)
      BY DEF ClickSignIn, PrepareLogin, ObserverStops
    <3>2. ~Helps /\ ~Interferes
      BY DEF Helps, Interferes
    <3>3. (\E b \in Cases : Automation(b)) \/ Resumes
      BY <2>3, <3>1, <3>2 DEF Next
    <3>4. QED
      BY <2>1, <2>2, <3>3
  <2>5. session[c] \in Tabs
    BY Own
  <2>6. QED
    BY <2>4, <2>5 DEF ListsKept, On
<1>2. QED
  BY <1>1, AdapterInvariant, PTL DEF Spec, OwnDraftKept
=============================================================================
