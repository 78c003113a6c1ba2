---------------------------- MODULE BookingCases ----------------------------
(***************************************************************************)
(* The API's booking cases, applicants, clients and provider routes:       *)
(* apps/api/src/modules/{booking-cases,applicants,clients,provider-routes} *)
(* over PostgreSQL (READ COMMITTED).                                       *)
(*                                                                         *)
(* A request reads the case, checks what it read, and writes in a later    *)
(* statement; requests of different callers interleave between the two.    *)
(* A transaction whose statements cannot be told apart by another          *)
(* connection is one step.  Two transactions that move the primary flag    *)
(* can: each clears the flags it sees committed, so "unset" is a step of   *)
(* its own.  An applicant is linked to a case at most once, so a link is   *)
(* named by its applicant.                                                 *)
(***************************************************************************)
EXTENDS Naturals, FiniteSets, FiniteSetsExt

CONSTANTS
  Callers,       \* API clients; each has one request under way at a time
  Cases,         \* ids a created case may get (never reused)
  Applicants,    \* ids a created applicant may get (never reused)
  Passports,     \* normalized passport numbers (their lookup hashes)
  Clients,       \* the agency's clients
  Routes,        \* provider routes
  RouteConfig,   \* per route: enabled, groupRules and passportRules
  TravelDates,   \* preferredDateTo of a case, in days from today
  Expiries,      \* expiry of a passport, in days from today
  Born,          \* applicants that exist at the start, each with its record
  None           \* an absent id or date

ASSUME BookingAssumption ==
  /\ RouteConfig \in
       [Routes -> [enabled : BOOLEAN, min : Nat, max : Nat, noSplit : BOOLEAN,
                   afterTravel : BOOLEAN, fromToday : Nat, afterDays : Nat]]
  /\ TravelDates \subseteq Nat /\ Expiries \subseteq Nat
  /\ None \notin Nat \cup Clients \cup Applicants \cup Cases \cup Passports \cup Routes

VARIABLES
  cases,      \* BookingCase rows with their BookingApplicant rows
  registry,   \* Applicant rows
  clients,    \* Client rows
  queued,     \* cases with an availability job in the queue
  requests,   \* the request of each caller
  overtaken   \* history: cases written by a request that had read them before
              \* another write, or one of whose applicants was edited, as the
              \* case is or as a request under way has read it

rows == <<cases, registry, clients, queued, overtaken>>
bookingVars == <<cases, registry, clients, queued, requests, overtaken>>

Positions == Nat \ {0}
Link == [applicant : Applicants, position : Positions, primary : BOOLEAN]
CaseRow == [status : {"UNBORN", "DRAFT", "READY", "RUNNING", "DELETED"},
            route : Routes \cup {None}, split : BOOLEAN,
            travel : TravelDates \cup {None}, links : SUBSET Link]
Unborn == [status |-> "UNBORN", route |-> None, split |-> FALSE,
           travel |-> None, links |-> {}]
ApplicantRow == [state : {"UNBORN", "LIVE", "DELETED"}, passport : Passports \cup {None},
                 expiry : Expiries \cup {None}, client : Clients \cup {None}]
NoApplicant == [state |-> "UNBORN", passport |-> None, expiry |-> None, client |-> None]

\* passportNumberHash is unique
ASSUME BornAssumption ==
  /\ DOMAIN Born \subseteq Applicants
  /\ \A a \in DOMAIN Born :
       Born[a] \in [state : {"LIVE"}, passport : Passports, expiry : Expiries,
                   client : Clients \cup {None}]
  /\ \A a, b \in DOMAIN Born : Born[a].passport = Born[b].passport => a = b

Idle == [op |-> "none", pc |-> "idle"]

Exists(c) == cases[c].status \in {"DRAFT", "READY", "RUNNING"}
Alive(a) == registry[a].state = "LIVE"
Holder(p) == {a \in Applicants : Alive(a) /\ registry[a].passport = p}
LinkedTo(case) == {l.applicant : l \in case.links}
\* the next id of a pool: ids are given out in order
Fresh(ids) == {i \in ids : \A j \in ids : i <= j}
LinkOf(case, a) == CHOOSE l \in case.links : l.applicant = a

TypeOK ==
  /\ \A c \in Cases : cases[c].status \in
       {"UNBORN", "DRAFT", "READY", "RUNNING", "DELETED"}
  /\ \A c \in Cases : cases[c].links \subseteq Link
  /\ registry \in [Applicants -> ApplicantRow]
  /\ clients \subseteq Clients
  /\ queued \subseteq Cases /\ overtaken \subseteq Cases
  /\ \A w \in Callers :
       requests[w].pc \in {"idle", "read", "check", "unset", "write", "done"}

BookingInit ==
  /\ cases = [c \in Cases |-> Unborn]
  /\ registry = [a \in Applicants |-> IF a \in DOMAIN Born THEN Born[a] ELSE NoApplicant]
  /\ clients = Clients
  /\ queued = {}
  /\ requests = [w \in Callers |-> Idle]
  /\ overtaken = {}

-----------------------------------------------------------------------------
(* passport-validation.service.ts and case-readiness.service.ts *)

\* validateForRoute: the three optional rules of a route, in days from today
PassportOk(route, expiry, travel) ==
  LET rules == RouteConfig[route] IN
  /\ (rules.afterTravel /\ travel # None) => expiry > travel
  /\ rules.fromToday > 0 => expiry >= rules.fromToday
  /\ (rules.afterDays > 0 /\ travel # None) => expiry >= travel + rules.afterDays

OnePrimary(case) == Cardinality({l \in case.links : l.primary}) = 1
Contiguous(case) ==
  {l.position : l \in case.links} = 1..Cardinality(case.links)
GroupOk(case) ==
  LET rules == RouteConfig[case.route] IN
  /\ Cardinality(case.links) >= rules.min
  /\ Cardinality(case.links) <= rules.max
  /\ ~(case.split /\ rules.noSplit)

\* validateCaseReadiness, rules 3 to 10
Ready(case) ==
  /\ RouteConfig[case.route].enabled
  /\ case.links # {}
  /\ OnePrimary(case)
  /\ Contiguous(case)
  /\ \A l \in case.links :
       /\ Alive(l.applicant)
       /\ PassportOk(case.route, registry[l.applicant].expiry, case.travel)
  /\ GroupOk(case)

-----------------------------------------------------------------------------
(* Requests *)

\* the routes of the API with the parameters and the body of each
Fields ==
  [create  |-> {"route", "split", "travel"},
   update  |-> {"case", "route", "split", "travel"},
   add     |-> {"case", "applicant", "position", "primary"},
   primary |-> {"case", "applicant"},
   remove  |-> {"case", "applicant"},
   reorder |-> {"case", "order"},
   ready   |-> {"case"},
   delete  |-> {"case"},
   start   |-> {"case"},
   person  |-> {"passport", "expiry", "client"},
   edit    |-> {"applicant", "passport", "expiry", "client"},
   lookup  |-> {"passport"},
   erase   |-> {"applicant"},
   dismiss |-> {"client"}]

\* what the ValidationPipe lets through
Valued(q) ==
  /\ "case" \in DOMAIN q => q.case \in Cases
  /\ "applicant" \in DOMAIN q => q.applicant \in Applicants
  /\ "position" \in DOMAIN q => q.position \in Positions \cup {None}
  /\ "order" \in DOMAIN q =>
       DOMAIN q.order \subseteq Applicants /\ \A a \in DOMAIN q.order : q.order[a] \in Positions
  /\ "primary" \in DOMAIN q => q.primary \in BOOLEAN
  /\ "split" \in DOMAIN q => q.split \in BOOLEAN
  /\ "route" \in DOMAIN q => q.route \in Routes \cup {None}
  /\ "travel" \in DOMAIN q => q.travel \in TravelDates \cup {None}
  /\ "passport" \in DOMAIN q => q.passport \in Passports
  /\ "expiry" \in DOMAIN q => q.expiry \in Expiries
  /\ "client" \in DOMAIN q => q.client \in Clients \cup {None}

Accepted(q) ==
  /\ {"op", "pc"} \subseteq DOMAIN q
  /\ q.op \in DOMAIN Fields /\ Fields[q.op] \subseteq DOMAIN q
  /\ Valued(q)

Issue(w, q) ==
  /\ requests[w].pc = "idle"
  /\ requests' = [requests EXCEPT ![w] = q]
  /\ UNCHANGED rows

\* the answer of a request: ok with an id, or the error and its details
Answer(w, ok, id) ==
  requests' = [requests EXCEPT
    ![w] = [op |-> @.op, pc |-> "done", ok |-> ok, id |-> id]]

Refuse(w, id) == Answer(w, FALSE, id) /\ UNCHANGED rows

Continue(w, pc, field, value) ==
  requests' = [requests EXCEPT ![w] =
    [f \in DOMAIN @ \cup {field} |-> IF f = field THEN value ELSE IF f = "pc" THEN pc ELSE @[f]]]

\* every write of a case goes through here: it is recorded when the row is no
\* longer the one the request read
WriteCase(w, c, row) ==
  /\ cases' = [cases EXCEPT ![c] = row]
  /\ overtaken' = IF cases[c] # requests[w].seen THEN overtaken \cup {c} ELSE overtaken

\* getCaseOrThrow, assertIsDraft and the checks that need only what was read
CaseOps == {"update", "add", "primary", "reorder", "remove", "ready", "delete"}

\* Mutant: a case that is no draft can be updated.
RefusedUnlessUpdate(q, case) ==
  \/ q.op \notin {"delete", "update"} /\ case.status # "DRAFT"
  \/ q.op = "ready" /\ ~Ready(case)

Refused(q, case) ==
  \/ q.op # "delete" /\ case.status # "DRAFT"
  \/ q.op = "update" /\ q.route # None /\ ~RouteConfig[q.route].enabled
  \/ q.op \in {"primary", "remove"} /\ q.applicant \notin LinkedTo(case)
  \/ q.op = "reorder" /\ (DOMAIN q.order # LinkedTo(case) \/ ~IsInjective(q.order))
  \/ q.op = "ready" /\ ~Ready(case)

ReadCase(w) ==
  LET q == requests[w] IN
  /\ q.op \in CaseOps /\ q.pc = "read"
  /\ IF ~Exists(q.case) \/ Refused(q, cases[q.case])
       THEN Refuse(w, None)
       ELSE /\ Continue(w, CASE q.op = "add" -> "check"
                             [] q.op = "primary" -> "unset"
                             [] OTHER -> "write",
                        "seen", cases[q.case])
            /\ UNCHANGED rows

\* create: the route must exist and be enabled; a new case is a DRAFT (the pool
\* of ids is a bound: when it is used up the request fails)
CreateCase(w) ==
  LET q == requests[w] IN
  /\ q.op = "create" /\ q.pc = "read"
  /\ IF ~RouteConfig[q.route].enabled \/ \A c \in Cases : cases[c].status # "UNBORN"
       THEN Refuse(w, None)
       ELSE \E c \in Fresh({d \in Cases : cases[d].status = "UNBORN"}) :
              /\ cases' = [cases EXCEPT ![c] =
                   [status |-> "DRAFT", route |-> q.route, split |-> q.split,
                    travel |-> q.travel, links |-> {}]]
              /\ Answer(w, TRUE, c)
              /\ UNCHANGED <<registry, clients, queued, overtaken>>

\* update: the row is written by its id, whatever its status is by then
UpdateCase(w) ==
  LET q == requests[w] IN
  /\ q.op = "update" /\ q.pc = "write"
  /\ IF ~Exists(q.case)
       THEN Refuse(w, None)
       ELSE /\ WriteCase(w, q.case,
                 [cases[q.case] EXCEPT !.split = q.split, !.travel = q.travel,
                    !.route = IF q.route = None THEN @ ELSE q.route])
            /\ Answer(w, TRUE, q.case)
            /\ UNCHANGED <<registry, clients, queued>>

\* addApplicant: the applicant and the link are looked up after the case; the
\* position comes from the links of the case that was read
\* (mutant: positions start at 0)
WantedFromZero(q) ==
  IF q.position # None THEN q.position
  ELSE Max({l.position : l \in q.seen.links} \cup {0})

Wanted(q) ==
  IF q.position # None THEN q.position
  ELSE Max({l.position : l \in q.seen.links} \cup {0}) + 1

CheckApplicant(w) ==
  LET q == requests[w] IN
  /\ q.op = "add" /\ q.pc = "check"
  /\ IF \/ ~Alive(q.applicant)
        \/ q.applicant \in LinkedTo(cases[q.case])
        \/ q.position # None /\ \E l \in q.seen.links : l.position = q.position
       THEN Refuse(w, None)
       ELSE /\ Continue(w, IF q.primary THEN "unset" ELSE "write", "cleared", {})
            /\ UNCHANGED rows

\* updateMany { isPrimary: false }, first statement of the two transactions
\* that move the primary flag; it sees what is committed
UnsetPrimaries(w) ==
  LET q == requests[w] IN
  /\ q.pc = "unset"
  /\ Continue(w, "write", "cleared",
              {l.applicant : l \in {k \in cases[q.case].links : k.primary}})
  /\ UNCHANGED rows

Cleared(q, links) ==
  {[l EXCEPT !.primary = @ /\ l.applicant \notin q.cleared] : l \in links}

\* create of the link: the foreign keys and the two unique constraints hold
InsertLink(w) ==
  LET q == requests[w]
      links == Cleared(q, cases[q.case].links) IN
  /\ q.op = "add" /\ q.pc = "write"
  /\ IF \/ ~Exists(q.case) \/ ~Alive(q.applicant)
        \/ \E l \in links : l.applicant = q.applicant \/ l.position = Wanted(q)
       THEN Refuse(w, None)
       ELSE /\ WriteCase(w, q.case, [cases[q.case] EXCEPT !.links = links \cup
                 {[applicant |-> q.applicant, position |-> Wanted(q),
                   primary |-> q.primary]}])
            /\ Answer(w, TRUE, q.case)
            /\ UNCHANGED <<registry, clients, queued>>

\* setPrimaryApplicant, second statement: fails when the link is gone
SetPrimary(w) ==
  LET q == requests[w]
      links == Cleared(q, cases[q.case].links) IN
  /\ q.op = "primary" /\ q.pc = "write"
  /\ IF ~Exists(q.case) \/ q.applicant \notin LinkedTo(cases[q.case])
       THEN Refuse(w, None)
       ELSE /\ WriteCase(w, q.case, [cases[q.case] EXCEPT !.links =
                 {[l EXCEPT !.primary = @ \/ l.applicant = q.applicant] : l \in links}])
            /\ Answer(w, TRUE, q.case)
            /\ UNCHANGED <<registry, clients, queued>>

\* reorderApplicants: rolled back when a link is gone or a position is taken
Reorder(w) ==
  LET q == requests[w]
      kept == {l \in cases[q.case].links : l.applicant \notin DOMAIN q.order} IN
  /\ q.op = "reorder" /\ q.pc = "write"
  /\ IF \/ ~Exists(q.case)
        \/ ~(DOMAIN q.order \subseteq LinkedTo(cases[q.case]))
        \/ \E l \in kept, a \in DOMAIN q.order : l.position = q.order[a]
       THEN Refuse(w, None)
       ELSE /\ WriteCase(w, q.case, [cases[q.case] EXCEPT !.links = kept \cup
                 {[LinkOf(cases[q.case], a) EXCEPT !.position = q.order[a]] :
                    a \in DOMAIN q.order}])
            /\ Answer(w, TRUE, q.case)
            /\ UNCHANGED <<registry, clients, queued>>

RemoveLink(w) ==
  LET q == requests[w] IN
  /\ q.op = "remove" /\ q.pc = "write"
  /\ IF ~Exists(q.case) \/ q.applicant \notin LinkedTo(cases[q.case])
       THEN Refuse(w, None)
       ELSE /\ WriteCase(w, q.case, [cases[q.case] EXCEPT !.links =
                 {l \in @ : l.applicant # q.applicant}])
            /\ Answer(w, TRUE, q.case)
            /\ UNCHANGED <<registry, clients, queued>>

\* Mutant: the status is written and the request fails afterwards.
ReadyThenFails(w) ==
  LET q == requests[w] IN
  /\ q.op = "ready" /\ q.pc = "write" /\ Exists(q.case)
  /\ WriteCase(w, q.case, [cases[q.case] EXCEPT !.status = "READY"])
  /\ Answer(w, FALSE, None)
  /\ UNCHANGED <<registry, clients, queued>>

\* transitionToReady: by id, without a condition on the status
TransitionToReady(w) ==
  LET q == requests[w] IN
  /\ q.op = "ready" /\ q.pc = "write"
  /\ IF ~Exists(q.case)
       THEN Refuse(w, None)
       ELSE /\ WriteCase(w, q.case, [cases[q.case] EXCEPT !.status = "READY"])
            /\ Answer(w, TRUE, q.case)
            /\ UNCHANGED <<registry, clients, queued>>

\* delete: everything of the case in one batch, whatever its status
DeleteCase(w) ==
  LET q == requests[w] IN
  /\ q.op = "delete" /\ q.pc = "write"
  /\ IF ~Exists(q.case)
       THEN Refuse(w, None)
       ELSE /\ WriteCase(w, q.case, [Unborn EXCEPT !.status = "DELETED"])
            /\ Answer(w, TRUE, q.case)
            /\ UNCHANGED <<registry, clients, queued>>

\* automation-operations.service.ts startAutomation: a READY case gets a job
StartAutomation(w) ==
  LET q == requests[w] IN
  /\ q.op = "start" /\ q.pc = "read"
  /\ IF ~Exists(q.case) \/ cases[q.case].status # "READY"
       THEN Refuse(w, None)
       ELSE /\ queued' = queued \cup {q.case}
            /\ Answer(w, TRUE, q.case)
            /\ UNCHANGED <<cases, registry, clients, overtaken>>

\* the worker takes the job: from here on the case is the orchestrator's
TakeJob(c) ==
  /\ c \in queued
  /\ queued' = queued \ {c}
  /\ cases' = [cases EXCEPT ![c].status = IF @ = "READY" THEN "RUNNING" ELSE @]
  /\ UNCHANGED <<registry, clients, requests, overtaken>>

-----------------------------------------------------------------------------
(* Applicants and clients *)

\* the duplicate check of create and update, and the lookup by passport
FindByPassport(w) ==
  LET q == requests[w]
      others == IF q.op = "person" THEN Holder(q.passport)
                ELSE Holder(q.passport) \ {q.applicant} IN
  /\ q.op \in {"person", "edit"} /\ q.pc = "read"
  /\ IF q.op = "edit" /\ ~Alive(q.applicant) THEN Refuse(w, None)
     ELSE IF others # {} THEN Refuse(w, CHOOSE a \in others : TRUE)
     ELSE Continue(w, "write", "ok", TRUE) /\ UNCHANGED rows

Lookup(w) ==
  LET q == requests[w] IN
  /\ q.op = "lookup" /\ q.pc = "read"
  /\ IF Holder(q.passport) = {} THEN Refuse(w, None)
     ELSE Answer(w, TRUE, CHOOSE a \in Holder(q.passport) : TRUE) /\ UNCHANGED rows

\* Mutant: nothing but the check before keeps passports unique.
InsertUnchecked(w) ==
  LET q == requests[w] IN
  /\ q.op = "person" /\ q.pc = "write"
  /\ \E a \in Fresh({b \in Applicants : registry[b].state = "UNBORN"}) :
       /\ registry' = [registry EXCEPT ![a] =
            [state |-> "LIVE", passport |-> q.passport, expiry |-> q.expiry,
             client |-> q.client]]
       /\ Answer(w, TRUE, a)
       /\ UNCHANGED <<cases, clients, queued, overtaken>>

\* create: passportNumberHash is unique; the client, when given, must exist
InsertApplicant(w) ==
  LET q == requests[w] IN
  /\ q.op = "person" /\ q.pc = "write"
  /\ IF \/ Holder(q.passport) # {}
        \/ q.client # None /\ q.client \notin clients
        \/ \A a \in Applicants : registry[a].state # "UNBORN"
       THEN Refuse(w, None)
       ELSE \E a \in Fresh({b \in Applicants : registry[b].state = "UNBORN"}) :
              /\ registry' = [registry EXCEPT ![a] =
                   [state |-> "LIVE", passport |-> q.passport, expiry |-> q.expiry,
                    client |-> q.client]]
              /\ Answer(w, TRUE, a)
              /\ UNCHANGED <<cases, clients, queued, overtaken>>

\* the requests under way that have read a case
Readers(c) == {v \in Callers : "seen" \in DOMAIN requests[v] /\ requests[v].case = c}

\* update of an applicant: nothing asks in which cases it is linked
UpdateApplicant(w) ==
  LET q == requests[w] IN
  /\ q.op = "edit" /\ q.pc = "write"
  /\ IF \/ ~Alive(q.applicant)
        \/ Holder(q.passport) \ {q.applicant} # {}
        \/ q.client # None /\ q.client \notin clients
       THEN Refuse(w, None)
       ELSE /\ registry' = [registry EXCEPT ![q.applicant] =
                 [@ EXCEPT !.passport = q.passport, !.expiry = q.expiry,
                           !.client = q.client]]
            /\ overtaken' = overtaken \cup
                 {c \in Cases : \/ q.applicant \in LinkedTo(cases[c])
                              \/ \E v \in Readers(c) : q.applicant \in LinkedTo(requests[v].seen)}
            /\ Answer(w, TRUE, q.applicant)
            /\ UNCHANGED <<cases, clients, queued>>

\* delete of an applicant: refused while it is linked to a case, by the count
\* and then by the foreign key
CountLinks(w) ==
  LET q == requests[w] IN
  /\ q.op = "erase" /\ q.pc = "read"
  /\ IF ~Alive(q.applicant) \/ \E c \in Cases : q.applicant \in LinkedTo(cases[c])
       THEN Refuse(w, None)
       ELSE Continue(w, "write", "ok", TRUE) /\ UNCHANGED rows

\* Mutant: links do not keep an applicant from being deleted.
DeleteAnyway(w) ==
  LET q == requests[w] IN
  /\ q.op = "erase" /\ q.pc = "write"
  /\ registry' = [registry EXCEPT ![q.applicant] = [NoApplicant EXCEPT !.state = "DELETED"]]
  /\ Answer(w, TRUE, None)
  /\ UNCHANGED <<cases, clients, queued, overtaken>>

DeleteApplicant(w) ==
  LET q == requests[w] IN
  /\ q.op = "erase" /\ q.pc = "write"
  /\ IF ~Alive(q.applicant) \/ \E c \in Cases : q.applicant \in LinkedTo(cases[c])
       THEN Refuse(w, None)
       ELSE /\ registry' = [registry EXCEPT ![q.applicant] =
                 [NoApplicant EXCEPT !.state = "DELETED"]]
            /\ Answer(w, TRUE, None)
            /\ UNCHANGED <<cases, clients, queued, overtaken>>

\* delete of a client: refused while it has applicants; an applicant attached
\* since the count loses its client (ON DELETE SET NULL)
CountDependents(w) ==
  LET q == requests[w] IN
  /\ q.op = "dismiss" /\ q.pc = "read"
  /\ IF q.client \notin clients \/ \E a \in Applicants : registry[a].client = q.client
       THEN Refuse(w, None)
       ELSE Continue(w, "write", "ok", TRUE) /\ UNCHANGED rows

DeleteClient(w) ==
  LET q == requests[w] IN
  /\ q.op = "dismiss" /\ q.pc = "write"
  /\ IF q.client \notin clients
       THEN Refuse(w, None)
       ELSE /\ clients' = clients \ {q.client}
            /\ registry' = [a \in Applicants |->
                 [registry[a] EXCEPT !.client = IF @ = q.client THEN None ELSE @]]
            /\ Answer(w, TRUE, None)
            /\ UNCHANGED <<cases, queued, overtaken>>

ServeCase(w) ==
  \/ ReadCase(w) \/ CreateCase(w) \/ UpdateCase(w) \/ CheckApplicant(w)
  \/ UnsetPrimaries(w) \/ InsertLink(w) \/ SetPrimary(w) \/ Reorder(w)
  \/ RemoveLink(w) \/ TransitionToReady(w) \/ DeleteCase(w) \/ StartAutomation(w)

ServePeople(w) ==
  \/ FindByPassport(w) \/ Lookup(w) \/ InsertApplicant(w) \/ UpdateApplicant(w)
  \/ CountLinks(w) \/ DeleteApplicant(w) \/ CountDependents(w) \/ DeleteClient(w)

Serve(w) == ServeCase(w) \/ ServePeople(w)

-----------------------------------------------------------------------------
(* Properties *)

\* A case that is READY meets the readiness rules it was validated against,
\* unless it was written by a request that had read an older row, or one of its
\* applicants was edited: nothing else slips past assertIsDraft and markReady.
ReadyCaseIsBookable ==
  \A c \in Cases : cases[c].status = "READY" /\ c \notin overtaken => Ready(cases[c])

\* At every moment, whatever is linked between the count and the delete, a case
\* links only applicants that exist.
LinksResolve == \A c \in Cases : \A l \in cases[c].links : Alive(l.applicant)

\* Two applicants never share a passport, however creates and updates overlap.
OnePersonPerPassport == \A p \in Passports : Cardinality(Holder(p)) <= 1
=============================================================================
