--------------------------- MODULE BookingConsole ---------------------------
(***************************************************************************)
(* The operator's web client at work on the API of BookingCases: the       *)
(* wizard that creates a booking (apps/web/app/[locale]/bookings/new), the *)
(* page of a case (bookings/[caseId]) and any other client of the API.     *)
(*                                                                         *)
(* A submission of the wizard is a sequence of requests - create the       *)
(* applicants, create the case, attach the applicants one by one, mark it  *)
(* ready, start it - each of which may fail or lose its answer; after a    *)
(* failure the operator may submit again.                                  *)
(***************************************************************************)
EXTENDS BookingCases, Sequences, SequencesExt

CONSTANTS
  Wizard, Page, Script,  \* the callers: the wizard, a case page, an API client
  Scripted,              \* the requests the API client may send
  MaxSaves,              \* bound on the applicants saved in the form
  MaxTries,              \* bound on submissions; a later one sends the same form
  MaxList,               \* bound on the length of the wizard's list
  MaxPage,               \* bound on the requests of the case page
  MaxScript,             \* bound on the requests of the API client
  MaxLost,               \* bound on answers the network loses
  MaxOther               \* bound on the last three together

ASSUME ConsoleAssumption ==
  /\ Callers = {Wizard, Page, Script}
  /\ Wizard # Page /\ Wizard # Script /\ Page # Script
  /\ \A q \in Scripted : Accepted(q) /\ q.pc = "read" /\ "seen" \notin DOMAIN q
  /\ \E e \in Expiries : \A f \in Expiries : f <= e
  /\ {MaxSaves, MaxTries, MaxList, MaxPage, MaxScript, MaxLost, MaxOther} \subseteq Nat

VARIABLES
  step,     \* currentStep
  depth,    \* how many of the four selects of step 1 are set
  route,    \* selectedRouteId
  list,     \* applicants
  form,     \* the applicant form: open, the row it edits, its fields
  terms,    \* providerTermsAccepted
  error,    \* errorMsg is set
  task,     \* the submission under way (the closure of handleFinalSubmit)
  seen,     \* the status of each case on the case page
  mine,     \* history: the cases the submissions created
  touched,  \* history: cases and applicants another caller wrote
  spent     \* saves, requests and lost answers so far

wizardVars == <<step, depth, route, list, form, terms, error>>
vars == <<bookingVars, step, depth, route, list, form, terms, error, task, seen,
          mine, touched, spent>>

Valid == CHOOSE e \in Expiries : \A f \in Expiries : f <= e
\* a row of the list; an index past the end leaves holes in a JavaScript array
Entry == [id : Applicants \cup {None}, passport : Passports \cup {None}, primary : BOOLEAN]
Hole == [id |-> None, passport |-> None, primary |-> FALSE]
Closed == [open |-> FALSE, row |-> 0, entry |-> Hole]
NoTask == [pc |-> "none", ready |-> FALSE, start |-> FALSE, list |-> <<>>,
           route |-> None, ids |-> <<>>, case |-> None, next |-> 0]
OthersLeft == spent.page + spent.script + spent.lost < MaxOther
Working == task.pc \notin {"none", "left"}

ConsoleTypeOK ==
  /\ TypeOK
  /\ step \in 1..5 /\ depth \in 0..4 /\ route \in Routes \cup {None}
  /\ list \in Seq(Entry) /\ Len(list) <= MaxList
  /\ form \in [open : BOOLEAN, row : 0..MaxList, entry : Entry]
  /\ terms \in BOOLEAN /\ error \in BOOLEAN
  /\ task.pc \in {"none", "resolve", "lookup", "create", "attach", "mark", "start", "left"}
  /\ mine \subseteq Cases

Init ==
  /\ BookingInit
  /\ step = 1 /\ depth = 0 /\ route = None /\ list = <<>> /\ form = Closed
  /\ terms = FALSE /\ error = FALSE /\ task = NoTask
  /\ seen = [c \in Cases |-> None]
  /\ mine = {} /\ touched = [cases |-> {}, people |-> {}]
  /\ spent = [saves |-> 0, page |-> 0, script |-> 0, lost |-> 0, tries |-> 0]

-----------------------------------------------------------------------------
(* The form *)

\* the four selects cascade: each clears those below it, the last picks the route
Select(k) ==
  /\ step = 1 /\ k <= depth + 1
  /\ depth' = k
  /\ IF k = 4 THEN \E r \in {s \in Routes : RouteConfig[s].enabled} : route' = r
     ELSE route' = None
  /\ UNCHANGED <<step, list, form, terms, error>>

\* checkApplicantCompleteness: the form leaves no field of a row empty, but on a
\* hole the check throws
Incomplete(rows_) == Contains(rows_, Hole)

\* Next: step 1 asks for a route, step 2 for a complete list
Forward ==
  /\ step < 5
  /\ step = 1 => route # None
  /\ step = 2 => list # <<>>
  /\ IF step = 2 /\ Incomplete(list) THEN step' = step ELSE step' = step + 1
  /\ error' = FALSE
  /\ UNCHANGED <<depth, route, list, form, terms>>

\* Back, the numbers of the steps already done, and the Edit links of step 5
GoBack(s) ==
  /\ s < step
  /\ step' = s
  /\ UNCHANGED <<depth, route, list, form, terms, error>>

OpenAdd ==
  /\ step = 2
  /\ form' = [open |-> TRUE, row |-> 0, entry |-> [Hole EXCEPT !.primary = (list = <<>>)]]
  /\ UNCHANGED <<step, depth, route, list, terms, error>>

OpenEdit(i) ==
  /\ step = 2 /\ list[i] # Hole
  /\ form' = [open |-> TRUE, row |-> i, entry |-> list[i]]
  /\ UNCHANGED <<step, depth, route, list, terms, error>>

\* an existing applicant fills the form, and keeps its id when the fields are
\* changed afterwards
PickExisting(a) ==
  /\ step = 2 /\ form.open
  /\ form' = [form EXCEPT !.entry.id = a, !.entry.passport = Born[a].passport]
  /\ UNCHANGED <<step, depth, route, list, terms, error>>

PickNobody ==
  /\ step = 2 /\ form.open
  /\ form' = [form EXCEPT !.entry = [Hole EXCEPT !.primary = form.row = 1 \/ list = <<>>]]
  /\ UNCHANGED <<step, depth, route, list, terms, error>>

Type(p, primary) ==
  /\ step = 2 /\ form.open
  /\ form' = [form EXCEPT !.entry.passport = p, !.entry.primary = primary]
  /\ UNCHANGED <<step, depth, route, list, terms, error>>

Cancel ==
  /\ step = 2 /\ form.open
  /\ form' = Closed
  /\ UNCHANGED <<step, depth, route, list, terms, error>>

\* handleSaveActiveApplicant: next[editingApplicantIndex] = sanitized, or push;
\* a primary entry takes the flag from every other row
Put(rows_, i, e) ==
  [j \in 1..(IF i > Len(rows_) THEN i ELSE Len(rows_)) |->
     IF j = i THEN e ELSE IF j <= Len(rows_) THEN rows_[j] ELSE Hole]

\* Mutant: the other rows keep their primary flag.
SaveOnly ==
  LET at == IF form.row = 0 THEN Len(list) + 1 ELSE form.row
      next == Put(list, at, form.entry) IN
  /\ step = 2 /\ form.open /\ form.entry.passport # None
  /\ Len(next) <= MaxList /\ spent.saves < MaxSaves
  /\ list' = next
  /\ form' = Closed
  /\ spent' = [spent EXCEPT !.saves = @ + 1]
  /\ UNCHANGED <<step, depth, route, terms, error>>

Save ==
  LET at == IF form.row = 0 THEN Len(list) + 1 ELSE form.row
      next == Put(list, at, form.entry) IN
  /\ step = 2 /\ form.open /\ form.entry.passport # None
  /\ Len(next) <= MaxList /\ spent.saves < MaxSaves
  /\ list' = IF form.entry.primary
               THEN [j \in DOMAIN next |-> IF next[j] = Hole THEN Hole
                                           ELSE [next[j] EXCEPT !.primary = j = at]]
               ELSE next
  /\ form' = Closed
  /\ spent' = [spent EXCEPT !.saves = @ + 1]
  /\ UNCHANGED <<step, depth, route, terms, error>>

\* handleRemoveApplicant: filter drops the row and any hole; the first row
\* becomes primary when none is left
Kept(i) == {j \in DOMAIN list : j # i /\ list[j] # Hole}
Nth(S, k) == CHOOSE j \in S : Cardinality({m \in S : m <= j}) = k

RemoveRow(i) ==
  LET next == [k \in 1..Cardinality(Kept(i)) |-> list[Nth(Kept(i), k)]] IN
  /\ step = 2 /\ list[i] # Hole
  /\ list' = IF next # <<>> /\ \A j \in DOMAIN next : ~next[j].primary
               THEN [next EXCEPT ![1].primary = TRUE] ELSE next
  /\ UNCHANGED <<step, depth, route, form, terms, error>>

AcceptTerms ==
  /\ step = 5
  /\ terms' = ~terms
  /\ UNCHANGED <<step, depth, route, list, form, error>>

EditForm ==
  /\ spent.tries = 0
  /\ \/ \E k \in 1..4 : Select(k)
     \/ Forward
     \/ \E s \in 1..5 : GoBack(s)
     \/ OpenAdd
     \/ \E i \in DOMAIN list : OpenEdit(i) \/ RemoveRow(i)
     \/ \E a \in DOMAIN Born : PickExisting(a)
     \/ PickNobody
     \/ \E p \in Passports, primary \in BOOLEAN : Type(p, primary)
     \/ Cancel
     \/ AcceptTerms
  /\ UNCHANGED <<bookingVars, task, seen, mine, touched, spent>>

SaveApplicant ==
  /\ spent.tries = 0
  /\ Save
  /\ UNCHANGED <<bookingVars, task, seen, mine, touched>>

-----------------------------------------------------------------------------
(* handleFinalSubmit *)

\* Save Draft, Mark Ready, Start Bot: disabled while submitting, and the last
\* two without the terms
Submit(ready, start) ==
  /\ step = 5 /\ task.pc = "none"
  /\ ready => terms
  /\ spent.tries < MaxTries /\ ~form.open
  /\ spent' = [spent EXCEPT !.tries = @ + 1]
  /\ IF route = None \/ list = <<>> \/ Incomplete(list) \/ ~terms
       THEN error' = TRUE /\ UNCHANGED task
       ELSE /\ error' = FALSE
            /\ task' = [NoTask EXCEPT !.pc = "resolve", !.ready = ready,
                          !.start = start, !.list = list, !.route = route]
  /\ UNCHANGED <<bookingVars, step, depth, route, list, form, terms, seen, mine,
                 touched>>

\* the request each step of the submission makes; the first applicant is
\* attached as primary too, the flag moves on when a later row has it
\* (mutant: a list without a primary applicant gets none)
AsMarked(i) == task.list[i].primary

AsPrimary(i) == task.list[i].primary \/ i = 1

Request ==
  CASE task.pc = "resolve" ->
         [op |-> "person", pc |-> "read", client |-> None,
          passport |-> task.list[Len(task.ids) + 1].passport, expiry |-> Valid]
    [] task.pc = "lookup" ->
         [op |-> "lookup", pc |-> "read",
          passport |-> task.list[Len(task.ids) + 1].passport]
    [] task.pc = "create" ->
         [op |-> "create", pc |-> "read", route |-> task.route, split |-> FALSE,
          travel |-> None]
    [] task.pc = "attach" ->
         [op |-> "add", pc |-> "read", case |-> task.case,
          applicant |-> task.ids[task.next], position |-> task.next,
          primary |-> AsPrimary(task.next)]
    [] task.pc = "mark" -> [op |-> "ready", pc |-> "read", case |-> task.case]
    [] task.pc = "start" -> [op |-> "start", pc |-> "read", case |-> task.case]

\* an applicant of the list has its id: by the form, by create, by the id in the
\* answer of a refused create, or by the lookup
Resolved(id) ==
  [task EXCEPT !.ids = Append(@, id),
               !.pc = IF Len(task.ids) + 1 = Len(task.list) THEN "create" ELSE "resolve"]

KeepForm == UNCHANGED wizardVars /\ UNCHANGED seen

ResolveKnown ==
  /\ task.pc = "resolve" /\ requests[Wizard].pc = "idle"
  /\ LET known == task.list[Len(task.ids) + 1].id IN
       /\ known # None
       /\ task' = Resolved(known)
  /\ KeepForm /\ UNCHANGED <<bookingVars, mine, touched, spent>>

Send ==
  /\ Working
  /\ task.pc = "resolve" => task.list[Len(task.ids) + 1].id = None
  /\ Issue(Wizard, Request)
  /\ KeepForm /\ UNCHANGED <<task, mine, touched, spent>>

Failed == task' = NoTask /\ error' = TRUE
Goes(t) == task' = t /\ error' = error

\* the answer, or its loss, which fetch reports as an error without details; a
\* start that failed is ignored (.catch(() => {}))
Receive(lost) ==
  LET q == requests[Wizard]
      ok == q.ok /\ ~lost
      id == IF lost THEN None ELSE q.id IN
  /\ Working /\ q.pc = "done"
  /\ lost => spent.lost < MaxLost /\ OthersLeft
  /\ spent' = [spent EXCEPT !.lost = IF lost THEN @ + 1 ELSE @]
  /\ requests' = [requests EXCEPT ![Wizard] = Idle]
  /\ mine' = IF q.op = "create" /\ q.ok THEN mine \cup {q.id} ELSE mine
  /\ CASE task.pc = "resolve" ->
             IF id # None THEN Goes(Resolved(id)) ELSE Goes([task EXCEPT !.pc = "lookup"])
       [] task.pc = "lookup" -> IF ok THEN Goes(Resolved(id)) ELSE Failed
       [] task.pc = "create" ->
             IF ok THEN Goes([task EXCEPT !.pc = "attach", !.case = id, !.next = 1])
             ELSE Failed
       [] task.pc = "attach" ->
             IF ~ok THEN Failed
             ELSE IF task.next < Len(task.list) THEN Goes([task EXCEPT !.next = @ + 1])
             ELSE Goes([task EXCEPT !.pc = IF task.ready THEN "mark" ELSE "left"])
       [] task.pc = "mark" ->
             IF ok THEN Goes([task EXCEPT !.pc = IF task.start THEN "start" ELSE "left"])
             ELSE Failed
       [] task.pc = "start" -> Goes([task EXCEPT !.pc = "left"])
  /\ UNCHANGED <<rows, step, depth, route, list, form, terms, seen, touched>>

-----------------------------------------------------------------------------
(* The page of a case and the other API client *)

\* getCaseDetail of the operations API: what the buttons depend on is the
\* status; of a case that is gone the page shows an error and no button.  The
\* session in the answer, by which a case in READY offers to prepare a login
\* first, is left out: READY offers Start
CaseDetail(c) ==
  IF cases[c].status \in {"UNBORN", "DELETED"} THEN None ELSE cases[c].status

\* refetchInterval and the invalidations after a mutation
Poll(c) ==
  /\ spent.page < MaxPage /\ OthersLeft
  /\ seen[c] # CaseDetail(c)
  /\ seen' = [seen EXCEPT ![c] = CaseDetail(c)]
  /\ UNCHANGED <<bookingVars, wizardVars, task, mine, touched, spent>>

\* the buttons the polled status enables; Delete is always there
Press(c) ==
  /\ spent.page < MaxPage /\ OthersLeft
  /\ \/ seen[c] = "DRAFT" /\ Issue(Page, [op |-> "ready", pc |-> "read", case |-> c])
     \/ seen[c] = "READY" /\ Issue(Page, [op |-> "start", pc |-> "read", case |-> c])
     \/ seen[c] # None /\ Issue(Page, [op |-> "delete", pc |-> "read", case |-> c])
  /\ spent' = [spent EXCEPT !.page = @ + 1]
  /\ UNCHANGED <<wizardVars, task, seen, mine, touched>>

Call(q) ==
  /\ spent.script < MaxScript /\ OthersLeft /\ spent.tries > 0
  /\ "case" \in DOMAIN q => cases[q.case].status # "UNBORN"
  /\ Issue(Script, q)
  /\ spent' = [spent EXCEPT !.script = @ + 1]
  /\ UNCHANGED <<wizardVars, task, seen, mine, touched>>

Dismiss(w) ==
  /\ w # Wizard /\ requests[w].pc = "done"
  /\ requests' = [requests EXCEPT ![w] = Idle]
  /\ UNCHANGED <<rows, wizardVars, task, seen, mine, touched, spent>>

Handle(w) ==
  /\ Serve(w)
  /\ touched' = IF w = Wizard THEN touched ELSE
       [cases  |-> touched.cases \cup {c \in Cases : cases'[c] # cases[c]},
        people |-> touched.people \cup {a \in Applicants : registry'[a] # registry[a]}]
  /\ UNCHANGED <<wizardVars, task, seen, mine, spent>>

Next ==
  \/ EditForm \/ SaveApplicant
  \/ \E ready, start \in BOOLEAN : (start => ready) /\ Submit(ready, start)
  \/ ResolveKnown \/ Send
  \/ \E lost \in BOOLEAN : Receive(lost)
  \/ \E c \in Cases : Poll(c) \/ Press(c)
  \/ \E q \in Scripted : Call(q)
  \/ \E w \in Callers : Handle(w) \/ Dismiss(w)
  \/ \E c \in Cases : TakeJob(c) /\ UNCHANGED <<wizardVars, task, seen, mine, touched, spent>>

Spec == Init /\ [][Next]_vars

-----------------------------------------------------------------------------
(* Properties *)

\* The row the wizard means to be the primary applicant.
MeantPrimary(rows_) ==
  IF \E i \in DOMAIN rows_ : rows_[i].primary
    THEN CHOOSE i \in DOMAIN rows_ : rows_[i].primary ELSE 1

\* A wizard that has left for the page of its case left the case as the form
\* had it - the applicants in the order of the list, one primary, the person of
\* every passport typed in - and past DRAFT when asked to, unless another caller
\* wrote the case or the applicant: no request of the sequence is skipped.
SubmittedCaseIsForm ==
  task.pc = "left" =>
    /\ task.case \notin touched.cases =>
         /\ cases[task.case].links =
              {[applicant |-> task.ids[i], position |-> i,
                primary |-> i = MeantPrimary(task.list)] : i \in DOMAIN task.list}
         /\ task.ready => cases[task.case].status # "DRAFT"
    /\ \A i \in DOMAIN task.list :
         task.list[i].id = None /\ task.ids[i] \notin touched.people =>
           registry[task.ids[i]].passport = task.list[i].passport

\* The list never has two primary applicants, whatever rows are removed while
\* the form of another row is open.
OnePrimaryInForm == Cardinality({i \in DOMAIN list : list[i].primary}) <= 1

\* Submitting again after a failure does not lead to a second case that is READY
\* or running for the same form, unless the answer of a request was lost: then
\* the operator sees an error although the case went on.
TwinOnlyAfterLoss ==
  Cardinality({c \in mine \ touched.cases : cases[c].status \in {"READY", "RUNNING"}})
    <= 1 + spent.lost
=============================================================================
