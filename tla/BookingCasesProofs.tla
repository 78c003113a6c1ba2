------------------------- MODULE BookingCasesProofs -------------------------
(***************************************************************************)
(* Proofs about BookingCases, for any pools of cases, applicants, clients  *)
(* and routes and any set of callers: what a request under way knows of    *)
(* the rows, what each statement of a request writes, and an invariant of  *)
(* rows and requests that every step keeps.  The callers - and so the      *)
(* specification the theorems are about - are those of BookingConsole.     *)
(***************************************************************************)
EXTENDS BookingCases, FiniteSetTheorems, WellFoundedInduction, TLAPS

\* The types of the rows: a case has finitely many links.
RowsTyped ==
  /\ cases \in [Cases -> CaseRow]
  /\ \A c \in Cases : IsFiniteSet(cases[c].links)
  /\ registry \in [Applicants -> ApplicantRow]
  /\ clients \subseteq Clients /\ queued \subseteq Cases /\ overtaken \subseteq Cases

\* The statements of a request, and a request under way: what its DTO accepts, and
\* what it has read once it is past the read.
Steps == {"read", "check", "unset", "write"}
UnderWay(q) ==
  /\ Accepted(q) /\ q.pc \in Steps
  /\ q.pc = "check" => q.op = "add"
  /\ q.pc = "unset" => q.op \in {"add", "primary"}
  /\ q.op \in CaseOps /\ q.pc # "read" => "seen" \in DOMAIN q
  /\ "seen" \in DOMAIN q =>
       /\ q.op \in CaseOps
       /\ q.seen \in CaseRow /\ IsFiniteSet(q.seen.links)
       /\ q.op # "delete" => q.seen.status = "DRAFT"
\* A request that has its answer.
Answered(q) ==
  /\ DOMAIN q = {"op", "pc", "ok", "id"} /\ q.op \in DOMAIN Fields
  /\ q.pc = "done" /\ q.ok \in BOOLEAN
  /\ q.op = "create" /\ q.ok => q.id \in Cases
  /\ q.op = "lookup" /\ q.ok => q.id \in Applicants
  /\ q.op = "person" => q.id \in Applicants \cup {None}

\* Every caller has no request, one under way or an answer.
RequestsTyped ==
  /\ DOMAIN requests = Callers
  /\ \A w \in Callers :
       requests[w] = Idle \/ Answered(requests[w]) \/ UnderWay(requests[w])

\* A request that goes on changes its pc and the field it fills, no other request.
LEMMA Continues ==
  ASSUME NEW w \in Callers, NEW pc, NEW field, NEW value,
         DOMAIN requests = Callers, "pc" \in DOMAIN requests[w], field # "pc",
         Continue(w, pc, field, value)
  PROVE  /\ DOMAIN requests' = Callers
         /\ \A v \in Callers \ {w} : requests'[v] = requests[v]
         /\ DOMAIN requests'[w] = DOMAIN requests[w] \cup {field}
         /\ requests'[w].pc = pc /\ requests'[w][field] = value
         /\ \A f \in DOMAIN requests[w] \ {"pc", field} : requests'[w][f] = requests[w][f]
BY DEF Continue

\* What a request has read is not part of what its DTO accepted.
LEMMA StillAccepted ==
  ASSUME NEW q, NEW r, NEW field,
         Accepted(q), field \in {"seen", "cleared", "ok"},
         DOMAIN r = DOMAIN q \cup {field},
         \A f \in DOMAIN q \ {"pc", field} : r[f] = q[f]
  PROVE  Accepted(r) /\ r.op = q.op
<1>1. r.op = q.op
  BY DEF Accepted
<1>2. \A f \in {"case", "applicant", "position", "order", "primary", "split", "route",
              "travel", "passport", "expiry", "client"} :
        f \in DOMAIN r => f \in DOMAIN q /\ r[f] = q[f]
  OBVIOUS
<1>3. Valued(r)
  BY <1>2 DEF Accepted, Valued
<1>4. QED
  BY <1>1, <1>3 DEF Accepted

-----------------------------------------------------------------------------
(* What a step does to the request it serves                               *)

\* The request read its case by this very step.
ReadNow(w) ==
  LET q == requests[w] IN
  /\ q.op \in CaseOps /\ q.pc = "read"
  /\ Exists(q.case) /\ ~Refused(q, cases[q.case])
  /\ requests'[w].seen = cases[q.case]

\* the fields of a request that stay as they were sent until it is answered
Inputs == {"case", "applicant", "position", "primary", "passport"}

\* What a step of the API does to the requests: it moves one, to its next statement
\* or to its answer, and a row it has read comes from the case as it was.
RequestMoves(w) ==
  /\ DOMAIN requests' = Callers
  /\ \A v \in Callers \ {w} : requests'[v] = requests[v]
  /\ UnderWay(requests[w]) /\ requests'[w].op = requests[w].op
  /\ \/ Answered(requests'[w])
     \/ /\ UnderWay(requests'[w])
        /\ \A f \in Inputs \cap DOMAIN requests[w] : requests'[w][f] = requests[w][f]
  /\ "seen" \in DOMAIN requests'[w] =>
       /\ requests'[w].case = requests[w].case
       /\ \/ "seen" \in DOMAIN requests[w] /\ requests'[w].seen = requests[w].seen
          \/ ReadNow(w)

\* A request at one of its statements is under way.
LEMMA Serving ==
  ASSUME RequestsTyped, NEW w \in Callers, requests[w].pc \in Steps
  PROVE  UnderWay(requests[w])
BY DEF RequestsTyped, Idle, Answered, Steps

\* An answer ends a request.
LEMMA Answers ==
  ASSUME NEW w \in Callers, NEW ok \in BOOLEAN, NEW id,
         DOMAIN requests = Callers, UnderWay(requests[w]), Answer(w, ok, id),
         requests[w].op = "create" /\ ok => id \in Cases,
         requests[w].op = "lookup" /\ ok => id \in Applicants,
         requests[w].op = "person" => id \in Applicants \cup {None}
  PROVE  /\ RequestMoves(w) /\ Answered(requests'[w])
         /\ requests'[w].ok = ok /\ requests'[w].id = id
<1>1. /\ DOMAIN requests' = Callers
      /\ \A v \in Callers \ {w} : requests'[v] = requests[v]
      /\ requests'[w] = [op |-> requests[w].op, pc |-> "done", ok |-> ok, id |-> id]
  BY DEF Answer
<1>2. Answered(requests'[w])
  BY <1>1 DEF Answered, UnderWay, Accepted
<1>3. QED
  BY <1>1, <1>2 DEF RequestMoves, Answered

\* The requests on a case name it, those on an applicant name the applicant.
LEMMA CaseFields ==
  ASSUME NEW q, Accepted(q), q.op \in CaseOps \cup {"start"}
  PROVE  "case" \in DOMAIN q /\ q.case \in Cases
BY DEF Accepted, Valued, Fields, CaseOps

\* See CaseFields.
LEMMA ApplicantFields ==
  ASSUME NEW q, Accepted(q), q.op \in {"add", "primary", "remove", "edit", "erase"}
  PROVE  "applicant" \in DOMAIN q /\ q.applicant \in Applicants
BY DEF Accepted, Valued, Fields

\* a request goes on to its next statement with what it has found
LEMMA GoesOn ==
  ASSUME NEW w \in Callers, NEW pc \in {"check", "unset", "write"},
         NEW field \in {"cleared", "ok"}, NEW value,
         DOMAIN requests = Callers, UnderWay(requests[w]),
         Continue(w, pc, field, value),
         requests[w].op \in CaseOps => requests[w].pc # "read",
         pc = "check" => requests[w].op = "add",
         pc = "unset" => requests[w].op \in {"add", "primary"}
  PROVE  RequestMoves(w) /\ UnderWay(requests'[w]) /\ requests'[w].pc = pc
<1> DEFINE q == requests[w]
           r == requests'[w]
<1>1. /\ DOMAIN requests' = Callers /\ \A v \in Callers \ {w} : requests'[v] = requests[v]
      /\ DOMAIN r = DOMAIN q \cup {field} /\ r.pc = pc
      /\ \A f \in DOMAIN q \ {"pc", field} : r[f] = q[f]
  BY Continues DEF UnderWay, Accepted
<1>2. Accepted(r) /\ r.op = q.op
  BY <1>1, StillAccepted DEF UnderWay
<1>3. /\ "seen" \in DOMAIN r <=> "seen" \in DOMAIN q
      /\ "seen" \in DOMAIN r => r.seen = q.seen
  BY <1>1
<1>4. UnderWay(r)
  BY <1>1, <1>2, <1>3 DEF UnderWay, Steps
<1>5. "seen" \in DOMAIN r => r.case = q.case
  <2>1. "seen" \in DOMAIN r => "case" \in DOMAIN q
    BY <1>3, CaseFields DEF UnderWay
  <2>2. QED
    BY <1>1, <2>1
<1>6. \A f \in Inputs \cap DOMAIN q : r[f] = q[f]
  BY <1>1 DEF Inputs
<1>7. QED
  BY <1>1, <1>2, <1>3, <1>4, <1>5, <1>6 DEF RequestMoves

\* A refusal is an answer that writes nothing.
LEMMA Refuses ==
  ASSUME NEW w \in Callers, NEW id, DOMAIN requests = Callers, UnderWay(requests[w]),
         Refuse(w, id), id \in Applicants \cup {None}
  PROVE  RequestMoves(w) /\ Answered(requests'[w]) /\ ~requests'[w].ok /\ UNCHANGED rows
<1>1. Answer(w, FALSE, id) /\ UNCHANGED rows
  BY DEF Refuse
<1>2. QED
  BY <1>1, Answers

\* Reading the case (findOne, assertIsDraft) writes nothing.
LEMMA ReadMoves ==
  ASSUME RowsTyped, RequestsTyped, NEW w \in Callers, ReadCase(w)
  PROVE  RequestMoves(w) /\ UNCHANGED rows
<1> DEFINE q == requests[w]
           r == requests'[w]
<1>1. UnderWay(q) /\ q.op \in CaseOps /\ q.pc = "read" /\ DOMAIN requests = Callers
  BY Serving DEF ReadCase, Steps, RequestsTyped
<1>2. CASE ~Exists(q.case) \/ Refused(q, cases[q.case])
  BY <1>1, <1>2, Refuses DEF ReadCase
<1>3. CASE Exists(q.case) /\ ~Refused(q, cases[q.case])
  <2> DEFINE pc == CASE q.op = "add" -> "check" [] q.op = "primary" -> "unset" [] OTHER -> "write"
  <2>1. Continue(w, pc, "seen", cases[q.case]) /\ UNCHANGED rows
    BY <1>1, <1>3 DEF ReadCase
  <2> HIDE DEF pc
  <2>2. /\ DOMAIN requests' = Callers /\ \A v \in Callers \ {w} : requests'[v] = requests[v]
        /\ DOMAIN r = DOMAIN q \cup {"seen"} /\ r.pc = pc /\ r.seen = cases[q.case]
        /\ \A f \in DOMAIN q \ {"pc", "seen"} : r[f] = q[f]
    BY <1>1, <2>1, Continues DEF UnderWay, Accepted
  <2>3. Accepted(r) /\ r.op = q.op
    BY <1>1, <2>2, StillAccepted DEF UnderWay
  <2>4. "case" \in DOMAIN q /\ q.case \in Cases
    BY <1>1, CaseFields DEF UnderWay
  <2>5. r.case = q.case
    BY <2>2, <2>4
  <2>6. r.seen \in CaseRow /\ IsFiniteSet(r.seen.links)
    BY <2>2, <2>4 DEF RowsTyped
  <2>7. r.op # "delete" => r.seen.status = "DRAFT"
    BY <1>3, <2>2, <2>3 DEF Refused
  <2>8. pc \in {"check", "unset", "write"} /\ (pc = "check" => q.op = "add")
        /\ (pc = "unset" => q.op = "primary")
    BY DEF pc
  <2>9. UnderWay(r)
    BY <1>1, <2>2, <2>3, <2>6, <2>7, <2>8 DEF UnderWay, Steps
  <2>10. ReadNow(w)
    BY <1>1, <1>3, <2>2 DEF ReadNow
  <2>11. \A f \in Inputs \cap DOMAIN q : r[f] = q[f]
    BY <2>2 DEF Inputs
  <2>12. QED
    BY <1>1, <2>1, <2>2, <2>3, <2>5, <2>9, <2>10, <2>11 DEF RequestMoves
<1>4. QED
  BY <1>2, <1>3

\* what CheckApplicant and UnsetPrimaries do to the request
LEMMA PreparesMove ==
  ASSUME RowsTyped, RequestsTyped, NEW w \in Callers, CheckApplicant(w) \/ UnsetPrimaries(w)
  PROVE  RequestMoves(w) /\ UNCHANGED rows
<1> DEFINE q == requests[w]
<1>1. UnderWay(q) /\ DOMAIN requests = Callers /\ q.op \in {"add", "primary"} /\ q.pc # "read"
  BY Serving DEF CheckApplicant, UnsetPrimaries, Steps, RequestsTyped, UnderWay
<1>2. CASE CheckApplicant(w)
  <2>1. q.op = "add"
    BY <1>2 DEF CheckApplicant
  <2>2. CASE Refuse(w, None)
    BY <1>1, <2>2, Refuses
  <2>3. CASE UNCHANGED rows /\ Continue(w, IF q.primary THEN "unset" ELSE "write", "cleared", {})
    <3>1. CASE q.primary
      BY <1>1, <2>1, <2>3, <3>1, GoesOn
    <3>2. CASE ~q.primary
      BY <1>1, <2>1, <2>3, <3>2, GoesOn
    <3>3. QED
      BY <3>1, <3>2
  <2>4. QED
    BY <1>2, <2>2, <2>3 DEF CheckApplicant
<1>3. CASE UnsetPrimaries(w)
  BY <1>1, <1>3, GoesOn DEF UnsetPrimaries
<1>4. QED
  BY <1>2, <1>3

\* a write of a case, as far as the invariants need it
CaseWritten(c, row) ==
  /\ cases' = [cases EXCEPT ![c] = row]
  /\ row \in CaseRow /\ IsFiniteSet(row.links)
  /\ \A l \in row.links : l.applicant \in LinkedTo(cases[c]) \/ Alive(l.applicant)
  /\ UNCHANGED <<registry, clients, queued>>

\* The last statement of a request on a case: what it writes, by its operation, and
\* the history of writes over a row that was not the one read.
Written(w, c, row) ==
  LET q == requests[w] IN
  /\ CaseWritten(c, row)
  /\ q.op \in CaseOps /\ q.pc = "write" /\ c = q.case
  /\ overtaken' = IF cases[c] # q.seen THEN overtaken \cup {c} ELSE overtaken
  /\ q.op = "ready" => row = [cases[c] EXCEPT !.status = "READY"]
  /\ q.op = "delete" => row.status = "DELETED"
  /\ q.op \notin {"ready", "delete"} => row.status = cases[c].status

\* A new case is a draft without applicants.
Created(w, c, row) ==
  /\ requests[w].op = "create" /\ CaseWritten(c, row)
  /\ cases[c].status = "UNBORN" /\ row.status = "DRAFT" /\ row.links = {}
  /\ requests'[w].ok /\ requests'[w].id = c
  /\ UNCHANGED overtaken

\* create of BookingCasesService is refused or makes such a case.
LEMMA Creating ==
  ASSUME RowsTyped, RequestsTyped, NEW w \in Callers, CreateCase(w), BookingAssumption
  PROVE  /\ RequestMoves(w) /\ Answered(requests'[w])
         /\ \/ UNCHANGED rows /\ ~requests'[w].ok
            \/ \E c \in Cases, row \in CaseRow : Created(w, c, row)
<1> DEFINE q == requests[w]
<1>1. UnderWay(q) /\ DOMAIN requests = Callers /\ q.op = "create"
  BY Serving DEF CreateCase, Steps, RequestsTyped
<1>2. CASE Refuse(w, None)
  BY <1>1, <1>2, Refuses
<1>3. ASSUME NEW c \in Fresh({d \in Cases : cases[d].status = "UNBORN"}),
             cases' = [cases EXCEPT ![c] =
               [status |-> "DRAFT", route |-> q.route, split |-> q.split,
                travel |-> q.travel, links |-> {}]],
             Answer(w, TRUE, c), UNCHANGED <<registry, clients, queued, overtaken>>
      PROVE  /\ RequestMoves(w) /\ Answered(requests'[w])
             /\ \E d \in Cases, row \in CaseRow : Created(w, d, row)
  <2> DEFINE row == [status |-> "DRAFT", route |-> q.route, split |-> q.split,
                     travel |-> q.travel, links |-> {}]
  <2>1. c \in Cases /\ cases[c].status = "UNBORN"
    BY DEF Fresh
  <2>2. cases' = [cases EXCEPT ![c] = row]
    BY <1>3
  <2>3. row \in CaseRow
    BY <1>1 DEF UnderWay, Accepted, Valued, Fields, CaseRow
  <2>4. RequestMoves(w) /\ Answered(requests'[w]) /\ requests'[w].ok /\ requests'[w].id = c
    BY <1>1, <1>3, <2>1, Answers
  <2>5. CaseWritten(c, row)
    BY <1>3, <2>2, <2>3, FS_EmptySet DEF CaseWritten
  <2>6. Created(w, c, row)
    BY <1>1, <1>3, <2>1, <2>4, <2>5 DEF Created
  <2>7. QED
    BY <2>1, <2>3, <2>4, <2>6
<1>4. QED
  BY <1>2, <1>3 DEF CreateCase

\* the row with other links
LEMMA Relinked ==
  ASSUME NEW row \in CaseRow, NEW links \in SUBSET Link
  PROVE  LET new == [row EXCEPT !.links = links] IN
         /\ new \in CaseRow /\ new.links = links /\ new.status = row.status
BY DEF CaseRow

\* the outcome of the last statement of a request on a case
Writes(w) ==
  /\ RequestMoves(w) /\ Answered(requests'[w])
  /\ \/ UNCHANGED rows /\ ~requests'[w].ok
     \/ requests'[w].ok /\ \E row \in CaseRow : Written(w, requests[w].case, row)

\* A write of the row of a case is an outcome of the request.
LEMMA Writing ==
  ASSUME NEW w \in Callers, NEW row \in CaseRow,
         DOMAIN requests = Callers, UnderWay(requests[w]),
         requests[w].op \in CaseOps, requests[w].pc = "write",
         IsFiniteSet(row.links),
         \A l \in row.links :
           l.applicant \in LinkedTo(cases[requests[w].case]) \/ Alive(l.applicant),
         WriteCase(w, requests[w].case, row), Answer(w, TRUE, requests[w].case),
         UNCHANGED <<registry, clients, queued>>,
         requests[w].op = "ready" =>
           row = [cases[requests[w].case] EXCEPT !.status = "READY"],
         requests[w].op = "delete" => row.status = "DELETED",
         requests[w].op \notin {"ready", "delete"} =>
           row.status = cases[requests[w].case].status
  PROVE  Writes(w)
<1>1. requests[w].op \notin {"create", "lookup", "person"}
  BY DEF CaseOps
<1>2. RequestMoves(w) /\ Answered(requests'[w]) /\ requests'[w].ok
  BY <1>1, Answers
<1>3. Written(w, requests[w].case, row)
  BY DEF Written, CaseWritten, WriteCase
<1>4. QED
  BY <1>2, <1>3 DEF Writes

\* So is a refusal by the last statement.
LEMMA Refusing ==
  ASSUME NEW w \in Callers, DOMAIN requests = Callers, UnderWay(requests[w]), Refuse(w, None)
  PROVE  Writes(w)
BY Refuses DEF Writes

\* The values of a function on a finite set are finitely many.
LEMMA FiniteImage ==
  ASSUME NEW S, IsFiniteSet(S), NEW f, DOMAIN f = S
  PROVE  IsFiniteSet({f[x] : x \in S})
<1> DEFINE T == {f[x] : x \in S}
           g == [x \in S |-> f[x]]
<1>1. g \in [S -> T] /\ \A t \in T : \E x \in S : g[x] = t
  OBVIOUS
<1>2. g \in Surjection(S, T)
  BY <1>1 DEF Surjection
<1> HIDE DEF g, T
<1>3. IsFiniteSet(T)
  BY <1>2, FS_Surjection
<1>4. QED
  BY <1>3 DEF T

\* Clearing the primary flags keeps the links, and their applicants.
LEMMA ClearedLinks ==
  ASSUME NEW q, NEW links \in SUBSET Link, IsFiniteSet(links)
  PROVE  /\ Cleared(q, links) \in SUBSET Link /\ IsFiniteSet(Cleared(q, links))
         /\ \A k \in Cleared(q, links) : \E l \in links : k.applicant = l.applicant
<1> DEFINE F(l) == [l EXCEPT !.primary = @ /\ l.applicant \notin q.cleared]
<1>1. \A l \in links : F(l) \in Link /\ F(l).applicant = l.applicant
  BY DEF Link
<1>2. Cleared(q, links) = {F(l) : l \in links}
  BY DEF Cleared
<1>3. IsFiniteSet({F(l) : l \in links})
  <2> DEFINE f == [l \in links |-> F(l)]
  <2>1. DOMAIN f = links /\ {f[l] : l \in links} = {F(l) : l \in links}
    OBVIOUS
  <2> HIDE DEF f
  <2>2. IsFiniteSet({f[l] : l \in links})
    BY <2>1, FiniteImage
  <2>3. QED
    BY <2>1, <2>2
<1>4. QED
  BY <1>1, <1>2, <1>3

\* a nonempty finite set of naturals has a greatest element: Max finds it
LEMMA Greatest ==
  ASSUME NEW S \in SUBSET Nat, IsFiniteSet(S), S # {}
  PROVE  Max(S) \in S /\ \A y \in S : y <= Max(S)
<1> DEFINE Unbounded(U) == U # {} /\ \A x \in U : \E y \in U : ~ (y <= x)
           K == {k \in Nat : \E U \in SUBSET S : Unbounded(U) /\ k = Cardinality(U)}
<1>1. ASSUME NEW U \in SUBSET S PROVE IsFiniteSet(U) /\ Cardinality(U) \in Nat
  BY FS_Subset, FS_CardinalityType
<1>2. ~ Unbounded(S)
  <2> SUFFICES ASSUME Unbounded(S) PROVE FALSE
    OBVIOUS
  <2>1. Cardinality(S) \in K
    BY <1>1
  <2>2. PICK k \in K : \A y \in K : ~ (<<y, k>> \in OpToRel(<, Nat))
    BY <2>1, NatLessThanWellFounded, WFMin
  <2>3. \A y \in K : ~ (y < k)
    BY <2>2 DEF OpToRel
  <2>4. PICK U \in SUBSET S : Unbounded(U) /\ k = Cardinality(U)
    OBVIOUS
  <2>5. PICK u \in U : TRUE
    BY <2>4
  <2>6. Cardinality(U \ {u}) = Cardinality(U) - 1
    BY <1>1, FS_RemoveElement
  <2>7. ~ Unbounded(U \ {u})
    <3>1. k \in Nat /\ k > 0
      <4>1. Cardinality(U) # 0
        BY <1>1, <2>4, FS_EmptySet
      <4>2. QED
        BY <2>4, <4>1
    <3>2. k - 1 \in Nat /\ k - 1 < k
      BY <3>1
    <3>3. k - 1 \notin K
      BY <2>3, <3>2
    <3>4. U \ {u} \in SUBSET S /\ Cardinality(U \ {u}) = k - 1
      BY <2>4, <2>6
    <3> HIDE DEF Unbounded
    <3>5. QED
      BY <3>2, <3>3, <3>4
  <2>8. CASE U \ {u} = {}
    <3>1. U = {u}
      BY <2>5, <2>8
    <3>2. QED
      BY <2>4, <3>1
  <2>9. CASE U \ {u} # {}
    <3>1. PICK m \in U \ {u} : \A y \in U \ {u} : y <= m
      BY <2>7, <2>9
    <3>2. \A y \in U : y <= m \/ y = u
      BY <3>1
    <3>3. m \in Nat /\ u \in Nat
      OBVIOUS
    <3>4. CASE u <= m
      BY <2>4, <3>1, <3>2, <3>4
    <3>5. CASE ~ (u <= m)
      <4>1. \A y \in U : y <= u
        BY <3>2, <3>1, <3>3, <3>5
      <4>2. QED
        BY <2>4, <2>5, <4>1
    <3>6. QED
      BY <3>4, <3>5
  <2>10. QED
    BY <2>8, <2>9
<1>3. PICK x \in S : \A y \in S : y <= x
  BY <1>2
<1>4. \A y \in S : x >= y
  BY <1>3
<1>5. QED
  BY <1>3, <1>4 DEF Max

\* The position addApplicant computes is a position: one more than the greatest.
LEMMA WantedFits ==
  ASSUME NEW q, Accepted(q), q.op = "add",
         q.seen \in CaseRow, IsFiniteSet(q.seen.links)
  PROVE  Wanted(q) \in Positions
<1> DEFINE links == q.seen.links
           S == {l.position : l \in links} \cup {0}
           f == [l \in links |-> l.position]
<1>1. links \in SUBSET Link
  BY DEF CaseRow
<1>2. IsFiniteSet({f[l] : l \in links})
  <2>1. DOMAIN f = links
    OBVIOUS
  <2> HIDE DEF f
  <2>2. QED
    BY <2>1, FiniteImage
<1>3. {f[l] : l \in links} = {l.position : l \in links}
  OBVIOUS
<1>4. IsFiniteSet(S)
  BY <1>2, <1>3, FS_AddElement
<1>5. S \in SUBSET Nat /\ S # {}
  BY <1>1 DEF Link, Positions
<1>6. Max(S) \in Nat
  BY <1>4, <1>5, Greatest
<1>7. Max(S) + 1 \in Positions
  BY <1>6 DEF Positions
<1>8. q.position # None => q.position \in Positions
  BY DEF Accepted, Valued, Fields
<1>9. QED
  BY <1>7, <1>8 DEF Wanted

\* The requests on the links of a case write a row of the types, if they write.
LEMMA LinkWrites ==
  ASSUME RowsTyped, RequestsTyped, NEW w \in Callers,
         InsertLink(w) \/ SetPrimary(w) \/ Reorder(w) \/ RemoveLink(w)
  PROVE  Writes(w)
<1> DEFINE q == requests[w]
           case == cases[q.case]
<1>1. /\ UnderWay(q) /\ DOMAIN requests = Callers /\ q.pc = "write"
      /\ q.op \in {"add", "primary", "reorder", "remove"}
  BY Serving DEF InsertLink, SetPrimary, Reorder, RemoveLink, Steps, RequestsTyped
<1>2. q.op \in CaseOps /\ q.case \in Cases
  BY <1>1, CaseFields DEF CaseOps, UnderWay
<1>3. case \in CaseRow /\ IsFiniteSet(case.links) /\ case.links \in SUBSET Link
  BY <1>2 DEF RowsTyped, CaseRow
<1>4. ASSUME NEW links \in SUBSET Link, IsFiniteSet(links),
             \A l \in links : l.applicant \in LinkedTo(case) \/ Alive(l.applicant),
             WriteCase(w, q.case, [case EXCEPT !.links = links]),
             Answer(w, TRUE, q.case), UNCHANGED <<registry, clients, queued>>
      PROVE  Writes(w)
  <2> DEFINE row == [case EXCEPT !.links = links]
  <2>1. row \in CaseRow /\ row.links = links /\ row.status = case.status
    BY <1>3, Relinked
  <2> HIDE DEF row
  <2>2. WriteCase(w, q.case, row)
    BY <1>4 DEF row
  <2>3. QED
    BY <1>1, <1>2, <1>4, <2>1, <2>2, Writing
<1>5. CASE InsertLink(w)
  <2> DEFINE new == [applicant |-> q.applicant, position |-> Wanted(q), primary |-> q.primary]
             links == Cleared(q, case.links) \cup {new}
  <2>1. CASE Refuse(w, None)
    BY <1>1, <2>1, Refusing
  <2>2. CASE /\ Alive(q.applicant)
             /\ WriteCase(w, q.case, [case EXCEPT !.links = links])
             /\ Answer(w, TRUE, q.case) /\ UNCHANGED <<registry, clients, queued>>
    <3>1. q.op = "add"
      BY <1>5 DEF InsertLink
    <3>2. q.seen \in CaseRow /\ IsFiniteSet(q.seen.links) /\ Accepted(q)
      BY <1>1, <1>2 DEF UnderWay
    <3>3. new \in Link
      <4>1. Wanted(q) \in Positions
        BY <3>1, <3>2, WantedFits
      <4>2. q.applicant \in Applicants /\ q.primary \in BOOLEAN
        BY <3>1, <3>2 DEF Accepted, Valued, Fields
      <4>3. QED
        BY <4>1, <4>2 DEF Link
    <3>4. /\ Cleared(q, case.links) \in SUBSET Link /\ IsFiniteSet(Cleared(q, case.links))
          /\ \A k \in Cleared(q, case.links) : \E l \in case.links : k.applicant = l.applicant
      BY <1>3, ClearedLinks
    <3>5. links \in SUBSET Link /\ IsFiniteSet(links)
      BY <3>3, <3>4, FS_AddElement
    <3>6. \A l \in links : l.applicant \in LinkedTo(case) \/ Alive(l.applicant)
      BY <2>2, <3>4 DEF LinkedTo
    <3> HIDE DEF links
    <3>7. QED
      BY <1>4, <2>2, <3>5, <3>6
  <2>3. QED
    BY <1>5, <2>1, <2>2 DEF InsertLink
<1>6. CASE SetPrimary(w)
  <2> DEFINE F(l) == [l EXCEPT !.primary = @ \/ l.applicant = q.applicant]
             f == [l \in Cleared(q, case.links) |-> F(l)]
             links == {F(l) : l \in Cleared(q, case.links)}
  <2>1. CASE Refuse(w, None)
    BY <1>1, <2>1, Refusing
  <2>2. CASE /\ WriteCase(w, q.case, [case EXCEPT !.links = links])
             /\ Answer(w, TRUE, q.case) /\ UNCHANGED <<registry, clients, queued>>
    <3>1. /\ Cleared(q, case.links) \in SUBSET Link /\ IsFiniteSet(Cleared(q, case.links))
          /\ \A k \in Cleared(q, case.links) : \E l \in case.links : k.applicant = l.applicant
      BY <1>3, ClearedLinks
    <3>2. \A l \in Cleared(q, case.links) : F(l) \in Link /\ F(l).applicant = l.applicant
      BY <3>1 DEF Link
    <3>3. IsFiniteSet(links)
      <4>1. DOMAIN f = Cleared(q, case.links) /\ links = {f[l] : l \in Cleared(q, case.links)}
        OBVIOUS
      <4> HIDE DEF f, links
      <4>2. IsFiniteSet(Cleared(q, case.links))
        BY <3>1
      <4>3. QED
        BY ONLY <4>1, <4>2, FiniteImage
    <3>4. \A l \in links : l.applicant \in LinkedTo(case)
      <4>1. \A l \in Cleared(q, case.links) : l.applicant \in LinkedTo(case)
        BY <3>1 DEF LinkedTo
      <4> HIDE DEF F
      <4>2. QED
        BY <3>2, <4>1
    <3>5. links \in SUBSET Link
      BY <3>2
    <3> HIDE DEF links
    <3>6. QED
      BY <1>4, <2>2, <3>3, <3>4, <3>5
  <2>3. QED
    BY <1>6, <2>1, <2>2 DEF SetPrimary
<1>7. CASE Reorder(w)
  <2> DEFINE kept == {l \in case.links : l.applicant \notin DOMAIN q.order}
             F(a) == [LinkOf(case, a) EXCEPT !.position = q.order[a]]
             f == [a \in DOMAIN q.order |-> F(a)]
             moved == {F(a) : a \in DOMAIN q.order}
             links == kept \cup moved
  <2>1. CASE Refuse(w, None)
    BY <1>1, <2>1, Refusing
  <2>2. CASE /\ DOMAIN q.order \subseteq LinkedTo(case)
             /\ WriteCase(w, q.case, [case EXCEPT !.links = links])
             /\ Answer(w, TRUE, q.case) /\ UNCHANGED <<registry, clients, queued>>
    <3>1. \A a \in DOMAIN q.order : q.order[a] \in Positions
      BY <1>1, <1>7 DEF Reorder, UnderWay, Accepted, Valued, Fields
    <3>2. \A a \in DOMAIN q.order : LinkOf(case, a) \in case.links /\ LinkOf(case, a).applicant = a
      BY <2>2 DEF LinkOf, LinkedTo
    <3>3. \A a \in DOMAIN q.order : F(a) \in Link /\ F(a).applicant = a
      BY <1>3, <3>1, <3>2 DEF Link
    <3>4. IsFiniteSet(LinkedTo(case))
      <4> DEFINE g == [l \in case.links |-> l.applicant]
      <4>1. DOMAIN g = case.links /\ LinkedTo(case) = {g[l] : l \in case.links}
        BY DEF LinkedTo
      <4> HIDE DEF g
      <4>2. QED
        BY <1>3, <4>1, FiniteImage
    <3>5. IsFiniteSet(moved)
      <4>1. DOMAIN f = DOMAIN q.order /\ moved = {f[a] : a \in DOMAIN q.order}
        OBVIOUS
      <4>2. IsFiniteSet(DOMAIN q.order)
        BY <2>2, <3>4, FS_Subset
      <4> HIDE DEF f, moved
      <4>3. QED
        BY <4>1, <4>2, FiniteImage
    <3>6. IsFiniteSet(links)
      <4>1. IsFiniteSet(kept)
        BY <1>3, FS_Subset
      <4> HIDE DEF kept, moved
      <4>2. QED
        BY <3>5, <4>1, FS_Union
    <3>7. links \in SUBSET Link
      BY <1>3, <3>3
    <3>8. \A l \in links : l.applicant \in LinkedTo(case)
      <4>1. \A l \in kept : l.applicant \in LinkedTo(case)
        BY DEF LinkedTo
      <4>2. \A l \in moved : l.applicant \in LinkedTo(case)
        <5>1. \A a \in DOMAIN q.order : F(a).applicant \in LinkedTo(case)
          BY <2>2, <3>3
        <5> HIDE DEF F
        <5>2. QED
          BY <5>1
      <4> HIDE DEF kept, moved
      <4>3. QED
        BY <4>1, <4>2
    <3> HIDE DEF links
    <3>9. QED
      BY <1>4, <2>2, <3>6, <3>7, <3>8
  <2>3. QED
    BY <1>7, <2>1, <2>2 DEF Reorder
<1>8. CASE RemoveLink(w)
  <2> DEFINE links == {l \in case.links : l.applicant # q.applicant}
  <2>1. CASE Refuse(w, None)
    BY <1>1, <2>1, Refusing
  <2>2. CASE /\ WriteCase(w, q.case, [case EXCEPT !.links = links])
             /\ Answer(w, TRUE, q.case) /\ UNCHANGED <<registry, clients, queued>>
    <3>1. links \in SUBSET Link /\ IsFiniteSet(links)
      BY <1>3, FS_Subset
    <3>2. \A l \in links : l.applicant \in LinkedTo(case)
      BY DEF LinkedTo
    <3> HIDE DEF links
    <3>3. QED
      BY <1>4, <2>2, <3>1, <3>2
  <2>3. QED
    BY <1>8, <2>1, <2>2 DEF RemoveLink
<1>9. QED
  BY <1>5, <1>6, <1>7, <1>8

\* So do update, markReady and delete.
LEMMA RowWrites ==
  ASSUME RowsTyped, RequestsTyped, NEW w \in Callers,
         UpdateCase(w) \/ TransitionToReady(w) \/ DeleteCase(w)
  PROVE  Writes(w)
<1> DEFINE q == requests[w]
           case == cases[q.case]
<1>1. /\ UnderWay(q) /\ DOMAIN requests = Callers /\ q.pc = "write"
      /\ q.op \in {"update", "ready", "delete"}
  BY Serving DEF UpdateCase, TransitionToReady, DeleteCase, Steps, RequestsTyped
<1>2. q.op \in CaseOps /\ q.case \in Cases
  BY <1>1, CaseFields DEF CaseOps, UnderWay
<1>3. case \in CaseRow /\ IsFiniteSet(case.links)
  BY <1>2 DEF RowsTyped
<1>4. CASE UpdateCase(w)
  <2> DEFINE row == [case EXCEPT !.split = q.split, !.travel = q.travel,
                                 !.route = IF q.route = None THEN @ ELSE q.route]
  <2>1. CASE Refuse(w, None)
    BY <1>1, <2>1, Refusing
  <2>2. CASE /\ WriteCase(w, q.case, row)
             /\ Answer(w, TRUE, q.case) /\ UNCHANGED <<registry, clients, queued>>
    <3>1. q.op = "update"
      BY <1>4 DEF UpdateCase
    <3>2. /\ q.split \in BOOLEAN /\ q.travel \in TravelDates \cup {None}
          /\ q.route \in Routes \cup {None}
      BY <1>1, <3>1 DEF UnderWay, Accepted, Valued, Fields
    <3>3. row \in CaseRow /\ row.links = case.links /\ row.status = case.status
      BY <1>3, <3>2 DEF CaseRow
    <3>4. \A l \in row.links : l.applicant \in LinkedTo(case)
      BY <3>3 DEF LinkedTo
    <3> HIDE DEF row
    <3>5. QED
      BY <1>1, <1>2, <1>3, <2>2, <3>1, <3>3, <3>4, Writing
  <2>3. QED
    BY <1>4, <2>1, <2>2 DEF UpdateCase
<1>5. CASE TransitionToReady(w)
  <2> DEFINE row == [case EXCEPT !.status = "READY"]
  <2>1. CASE Refuse(w, None)
    BY <1>1, <2>1, Refusing
  <2>2. CASE /\ WriteCase(w, q.case, row)
             /\ Answer(w, TRUE, q.case) /\ UNCHANGED <<registry, clients, queued>>
    <3>1. q.op = "ready"
      BY <1>5 DEF TransitionToReady
    <3>2. row \in CaseRow /\ row.links = case.links
      BY <1>3 DEF CaseRow
    <3>3. \A l \in row.links : l.applicant \in LinkedTo(case)
      BY <3>2 DEF LinkedTo
    <3>4. QED
      BY <1>1, <1>2, <1>3, <2>2, <3>1, <3>2, <3>3, Writing
  <2>3. QED
    BY <1>5, <2>1, <2>2 DEF TransitionToReady
<1>6. CASE DeleteCase(w)
  <2> DEFINE row == [Unborn EXCEPT !.status = "DELETED"]
  <2>1. CASE Refuse(w, None)
    BY <1>1, <2>1, Refusing
  <2>2. CASE /\ WriteCase(w, q.case, row)
             /\ Answer(w, TRUE, q.case) /\ UNCHANGED <<registry, clients, queued>>
    <3>1. q.op = "delete"
      BY <1>6 DEF DeleteCase
    <3>2. row \in CaseRow /\ row.links = {} /\ row.status = "DELETED"
      BY DEF CaseRow, Unborn
    <3> HIDE DEF row
    <3>3. QED
      BY <1>1, <1>2, <2>2, <3>1, <3>2, FS_EmptySet, Writing
  <2>3. QED
    BY <1>6, <2>1, <2>2 DEF DeleteCase
<1>7. QED
  BY <1>1, <1>4, <1>5, <1>6

\* a start puts a case into the queue and leaves its row to the worker
LEMMA Starting ==
  ASSUME RowsTyped, RequestsTyped, NEW w \in Callers, StartAutomation(w)
  PROVE  /\ RequestMoves(w) /\ Answered(requests'[w])
         /\ queued' \subseteq Cases /\ UNCHANGED <<cases, registry, clients, overtaken>>
<1> DEFINE q == requests[w]
<1>1. UnderWay(q) /\ DOMAIN requests = Callers /\ q.op = "start"
  BY Serving DEF StartAutomation, Steps, RequestsTyped
<1>2. q.case \in Cases
  BY <1>1, CaseFields DEF UnderWay
<1>3. CASE Refuse(w, None)
  BY <1>1, <1>3, Refuses DEF rows, RowsTyped
<1>4. CASE /\ queued' = queued \cup {q.case} /\ Answer(w, TRUE, q.case)
           /\ UNCHANGED <<cases, registry, clients, overtaken>>
  BY <1>1, <1>2, <1>4, Answers DEF RowsTyped
<1>5. QED
  BY <1>3, <1>4 DEF StartAutomation

-----------------------------------------------------------------------------
(* The registry                                                            *)

\* what a statement of a request does to the applicants: one is added under a
\* passport nobody has, one is edited, one that no case links is deleted, or the
\* applicants of a client lose it
Added(a, q) ==
  /\ registry[a].state = "UNBORN" /\ Holder(q.passport) = {}
  /\ registry' = [registry EXCEPT ![a] =
       [state |-> "LIVE", passport |-> q.passport, expiry |-> q.expiry, client |-> q.client]]
  /\ UNCHANGED <<clients, overtaken>>
\* The edit of an applicant puts every case it is in, and every case a request read
\* with it, in the history.
Edited(a, q) ==
  /\ Alive(a) /\ Holder(q.passport) \ {a} = {}
  /\ registry' = [registry EXCEPT ![a] =
       [@ EXCEPT !.passport = q.passport, !.expiry = q.expiry, !.client = q.client]]
  /\ overtaken' = overtaken \cup
       {c \in Cases : \/ a \in LinkedTo(cases[c])
                      \/ \E v \in Readers(c) : a \in LinkedTo(requests[v].seen)}
  /\ UNCHANGED clients
\* An applicant is deleted only when no case links it.
Erased(a) ==
  /\ \A c \in Cases : a \notin LinkedTo(cases[c])
  /\ registry' = [registry EXCEPT ![a] = [NoApplicant EXCEPT !.state = "DELETED"]]
  /\ UNCHANGED <<clients, overtaken>>
\* The applicants of a deleted client lose it.
Dismissed(k) ==
  /\ registry' = [a \in Applicants |->
       [registry[a] EXCEPT !.client = IF @ = k THEN None ELSE @]]
  /\ clients' \subseteq clients /\ UNCHANGED overtaken

\* All that a request writes to the registry.
RegistryWritten(w) ==
  /\ UNCHANGED <<cases, queued>>
  /\ \/ \E a \in Applicants :
          \/ requests[w].op = "person" /\ Added(a, requests[w]) /\ requests'[w].id = a
          \/ requests[w].op = "edit" /\ Edited(a, requests[w])
          \/ requests[w].op = "erase" /\ Erased(a)
     \/ requests[w].op = "dismiss" /\ Dismissed(requests[w].client)

\* The requests on applicants and clients write the registry in these ways only.
LEMMA PeopleServed ==
  ASSUME RowsTyped, RequestsTyped, BookingAssumption, NEW w \in Callers, ServePeople(w)
  PROVE  /\ RequestMoves(w)
         /\ UNCHANGED rows \/ RegistryWritten(w)
<1> DEFINE q == requests[w]
<1>1. /\ UnderWay(q) /\ DOMAIN requests = Callers /\ q.pc \in {"read", "write"}
      /\ q.op \in {"person", "edit", "lookup", "erase", "dismiss"}
  BY Serving DEF ServePeople, FindByPassport, Lookup, InsertApplicant, UpdateApplicant,
    CountLinks, DeleteApplicant, CountDependents, DeleteClient, Steps, RequestsTyped
<1>2. Accepted(q) /\ q.op \notin CaseOps
  BY <1>1 DEF UnderWay, CaseOps
<1>3. ASSUME NEW id \in Applicants \cup {None}, Refuse(w, id)
      PROVE  RequestMoves(w) /\ UNCHANGED rows
  BY <1>1, <1>3, Refuses
<1>4. ASSUME Continue(w, "write", "ok", TRUE) PROVE RequestMoves(w)
  BY <1>1, <1>2, <1>4, GoesOn
<1>5. ASSUME NEW id, Answer(w, TRUE, id), q.op \in {"lookup", "person"} => id \in Applicants
      PROVE  RequestMoves(w) /\ requests'[w].id = id
  BY <1>1, <1>5, Answers
<1>6. CASE FindByPassport(w)
  <2> DEFINE others == IF q.op = "person" THEN Holder(q.passport)
                       ELSE Holder(q.passport) \ {q.applicant}
  <2>1. CASE Refuse(w, None)
    BY <1>3, <2>1
  <2>2. CASE others # {} /\ Refuse(w, CHOOSE a \in others : TRUE)
    <3>1. others \subseteq Applicants
      BY DEF Holder
    <3> HIDE DEF others
    <3>2. (CHOOSE a \in others : TRUE) \in others
      BY <2>2
    <3>3. QED
      BY <1>3, <2>2, <3>1, <3>2
  <2>3. CASE Continue(w, "write", "ok", TRUE) /\ UNCHANGED rows
    BY <1>4, <2>3
  <2>4. QED
    BY <1>6, <2>1, <2>2, <2>3 DEF FindByPassport
<1>7. CASE Lookup(w)
  <2>1. CASE Refuse(w, None)
    BY <1>3, <2>1
  <2>2. CASE /\ Holder(q.passport) # {} /\ UNCHANGED rows
             /\ Answer(w, TRUE, CHOOSE a \in Holder(q.passport) : TRUE)
    <3>1. Holder(q.passport) \subseteq Applicants
      BY DEF Holder
    <3>2. (CHOOSE a \in Holder(q.passport) : TRUE) \in Holder(q.passport)
      BY <2>2
    <3>3. QED
      BY <1>5, <2>2, <3>1, <3>2
  <2>3. QED
    BY <1>7, <2>1, <2>2 DEF Lookup
<1>8. CASE InsertApplicant(w)
  <2>1. CASE Refuse(w, None)
    BY <1>3, <2>1
  <2>2. ASSUME Holder(q.passport) = {},
               NEW a \in Fresh({b \in Applicants : registry[b].state = "UNBORN"}),
               registry' = [registry EXCEPT ![a] =
                 [state |-> "LIVE", passport |-> q.passport, expiry |-> q.expiry,
                  client |-> q.client]],
               Answer(w, TRUE, a), UNCHANGED <<cases, clients, queued, overtaken>>
        PROVE  RequestMoves(w) /\ RegistryWritten(w)
    <3>1. a \in Applicants /\ registry[a].state = "UNBORN"
      BY DEF Fresh
    <3>2. RequestMoves(w) /\ requests'[w].id = a
      BY <1>5, <2>2, <3>1
    <3>3. q.op = "person"
      BY <1>8 DEF InsertApplicant
    <3>4. Added(a, q)
      BY <2>2, <3>1 DEF Added
    <3>5. QED
      BY <2>2, <3>1, <3>2, <3>3, <3>4 DEF RegistryWritten
  <2>3. QED
    BY <1>8, <2>1, <2>2 DEF InsertApplicant
<1>9. CASE UpdateApplicant(w)
  <2>1. CASE Refuse(w, None)
    BY <1>3, <2>1
  <2>2. CASE ~ Refuse(w, None)
    <3>1. /\ q.op = "edit" /\ Edited(q.applicant, q) /\ Answer(w, TRUE, q.applicant)
          /\ UNCHANGED <<cases, clients, queued>>
      BY <1>9, <2>2 DEF UpdateApplicant, Edited
    <3>2. q.applicant \in Applicants
      BY <1>2, <3>1, ApplicantFields
    <3>3. QED
      BY <1>5, <3>1, <3>2 DEF RegistryWritten
  <2>3. QED
    BY <2>1, <2>2
<1>10. CASE CountLinks(w) \/ CountDependents(w)
  BY <1>3, <1>4, <1>10 DEF CountLinks, CountDependents
<1>11. CASE DeleteApplicant(w)
  <2>1. CASE Refuse(w, None)
    BY <1>3, <2>1
  <2>2. CASE ~ Refuse(w, None)
    <3>1. /\ q.op = "erase" /\ Erased(q.applicant) /\ Answer(w, TRUE, None)
          /\ UNCHANGED <<cases, queued>>
      BY <1>11, <2>2 DEF DeleteApplicant, Erased
    <3>2. q.applicant \in Applicants
      BY <1>2, <3>1, ApplicantFields
    <3>3. QED
      BY <1>5, <3>1, <3>2 DEF RegistryWritten
  <2>3. QED
    BY <2>1, <2>2
<1>12. CASE DeleteClient(w)
  <2>1. CASE Refuse(w, None)
    BY <1>3, <2>1
  <2>2. CASE ~ Refuse(w, None)
    <3>1. /\ q.op = "dismiss" /\ Dismissed(q.client) /\ Answer(w, TRUE, None)
          /\ UNCHANGED <<cases, queued>>
      BY <1>12, <2>2 DEF DeleteClient, Dismissed
    <3>2. QED
      BY <1>5, <3>1 DEF RegistryWritten
  <2>3. QED
    BY <2>1, <2>2
<1>13. QED
  BY <1>6, <1>7, <1>8, <1>9, <1>10, <1>11, <1>12 DEF ServePeople

\* All that a step of the API may write.
Outcome(w) ==
  \/ UNCHANGED rows
  \/ \E c \in Cases, row \in CaseRow : Created(w, c, row) \/ Written(w, c, row)
  \/ queued' \subseteq Cases /\ UNCHANGED <<cases, registry, clients, overtaken>>
  \/ RegistryWritten(w)

\* Every step of the API moves its request and has one of these outcomes.
LEMMA Served ==
  ASSUME RowsTyped, RequestsTyped, BookingAssumption, NEW w \in Callers, Serve(w)
  PROVE  RequestMoves(w) /\ Outcome(w)
<1>1. CASE ReadCase(w) \/ CheckApplicant(w) \/ UnsetPrimaries(w)
  BY <1>1, ReadMoves, PreparesMove DEF Outcome
<1>2. CASE CreateCase(w)
  BY <1>2, Creating DEF Outcome
<1>3. CASE \/ InsertLink(w) \/ SetPrimary(w) \/ Reorder(w) \/ RemoveLink(w)
           \/ UpdateCase(w) \/ TransitionToReady(w) \/ DeleteCase(w)
  <2>1. Writes(w)
    BY <1>3, LinkWrites, RowWrites
  <2>2. RequestMoves(w) /\ UnderWay(requests[w])
    BY <2>1 DEF Writes, RequestMoves
  <2>3. ASSUME NEW row \in CaseRow, Written(w, requests[w].case, row)
        PROVE  Outcome(w)
    <3>1. requests[w].case \in Cases
      BY <2>2, <2>3, CaseFields DEF Written, UnderWay
    <3>2. QED
      BY <2>3, <3>1 DEF Outcome
  <2>4. QED
    BY <2>1, <2>2, <2>3 DEF Writes, Outcome
<1>4. CASE StartAutomation(w)
  BY <1>4, Starting DEF Outcome
<1>5. CASE ServePeople(w)
  BY <1>5, PeopleServed DEF Outcome
<1>6. QED
  BY <1>1, <1>2, <1>3, <1>4, <1>5 DEF Serve, ServeCase

-----------------------------------------------------------------------------
(* The invariant                                                           *)

\* No two applicants that exist have one passport: OnePersonPerPassport without
\* cardinalities.
PassportsDiffer ==
  \A a, b \in Applicants :
    Alive(a) /\ Alive(b) /\ registry[a].passport = registry[b].passport => a = b

\* Of the row a request has read: its applicants were created by then, and a
\* request to mark it ready found it ready; an edit of one of its applicants is
\* in the history, so their passports are still those it looked at.
ReadyWhenRead(case) ==
  /\ RouteConfig[case.route].enabled
  /\ case.links # {} /\ OnePrimary(case) /\ Contiguous(case) /\ GroupOk(case)
  /\ \A l \in case.links :
       Alive(l.applicant) => PassportOk(case.route, registry[l.applicant].expiry, case.travel)
\* The applicants of a row that was read were created by then.
SeenBorn ==
  \A w \in Callers : "seen" \in DOMAIN requests[w] =>
    \A l \in requests[w].seen.links : registry[l.applicant].state # "UNBORN"
\* A request to mark a case ready read it ready, the history aside.
SeenReady ==
  \A w \in Callers :
    "seen" \in DOMAIN requests[w] /\ requests[w].op = "ready"
      /\ requests[w].case \notin overtaken => ReadyWhenRead(requests[w].seen)

\* The invariant of the rows and the requests.  LinksResolve alone is not kept by
\* a delete of an applicant, nor ReadyCaseIsBookable by the write of a request that
\* read its case before: SeenBorn and SeenReady speak of what was read.
BookingInv ==
  /\ RowsTyped /\ RequestsTyped
  /\ LinksResolve /\ PassportsDiffer /\ ReadyCaseIsBookable
  /\ SeenBorn /\ SeenReady

\* A link of a row is of an applicant.
LEMMA LinkApplicants ==
  ASSUME NEW case \in CaseRow, NEW l \in case.links
  PROVE  l \in Link /\ l.applicant \in Applicants /\ l.applicant \in LinkedTo(case)
BY DEF CaseRow, Link, LinkedTo

\* what a change of the registry leaves as it was
LEMMA RegistryMoves ==
  ASSUME RowsTyped, LinksResolve, NEW w \in Callers, UnderWay(requests[w]),
         RegistryWritten(w), BookingAssumption
  PROVE  /\ registry' \in [Applicants -> ApplicantRow]
         /\ clients' \subseteq Clients /\ overtaken' \subseteq Cases
         /\ overtaken \subseteq overtaken'
         /\ \A a \in Applicants : registry[a].state # "UNBORN" => registry'[a].state # "UNBORN"
         /\ \A c \in Cases : \A l \in cases[c].links : Alive(l.applicant)'
<1> DEFINE q == requests[w]
<1>1. UNCHANGED cases
  BY DEF RegistryWritten
<1>2. \A c \in Cases : \A l \in cases[c].links :
        /\ l.applicant \in Applicants /\ l.applicant \in LinkedTo(cases[c])
        /\ Alive(l.applicant)
  BY LinkApplicants DEF RowsTyped, LinksResolve
<1>3. ASSUME NEW a \in Applicants, q.op = "person" \/ q.op = "edit"
      PROVE  q.passport \in Passports /\ q.expiry \in Expiries /\ q.client \in Clients \cup {None}
  BY <1>3 DEF UnderWay, Accepted, Valued, Fields
<1>4. ASSUME NEW a \in Applicants, q.op = "person", Added(a, q)
      PROVE  /\ registry' \in [Applicants -> ApplicantRow]
             /\ \A b \in Applicants : Alive(b) => Alive(b)'
             /\ \A b \in Applicants : registry[b].state # "UNBORN" => registry'[b].state # "UNBORN"
  BY <1>3, <1>4 DEF Added, RowsTyped, ApplicantRow, Alive
<1>5. ASSUME NEW a \in Applicants, q.op = "edit", Edited(a, q)
      PROVE  /\ registry' \in [Applicants -> ApplicantRow]
             /\ \A b \in Applicants : registry'[b].state = registry[b].state
  <2> DEFINE row == [registry[a] EXCEPT !.passport = q.passport, !.expiry = q.expiry,
                                        !.client = q.client]
  <2>1. registry' = [registry EXCEPT ![a] = row]
    BY <1>5, Zenon DEF Edited
  <2>2. registry[a] \in ApplicantRow /\ registry \in [Applicants -> ApplicantRow]
    BY DEF RowsTyped
  <2>3. q.passport \in Passports /\ q.expiry \in Expiries /\ q.client \in Clients \cup {None}
    BY <1>3, <1>5
  <2>4. row \in ApplicantRow /\ row.state = registry[a].state
    BY <2>2, <2>3 DEF ApplicantRow
  <2> HIDE DEF row
  <2>5. QED
    BY <2>1, <2>2, <2>4
<1>6. ASSUME NEW a \in Applicants, Erased(a)
      PROVE  /\ registry' \in [Applicants -> ApplicantRow]
             /\ \A b \in Applicants \ {a} : registry'[b] = registry[b]
             /\ registry'[a].state = "DELETED"
  BY <1>6 DEF Erased, RowsTyped, ApplicantRow, NoApplicant
<1>7. ASSUME Dismissed(q.client)
      PROVE  /\ registry' \in [Applicants -> ApplicantRow]
             /\ \A b \in Applicants : registry'[b].state = registry[b].state
  <2> DEFINE row(a) == [registry[a] EXCEPT !.client = IF @ = q.client THEN None ELSE @]
  <2>1. registry' = [a \in Applicants |-> row(a)]
    BY <1>7 DEF Dismissed
  <2>2. ASSUME NEW a \in Applicants
        PROVE  row(a) \in ApplicantRow /\ row(a).state = registry[a].state
    BY DEF RowsTyped, ApplicantRow
  <2> HIDE DEF row
  <2>3. QED
    BY <2>1, <2>2
<1>8. registry' \in [Applicants -> ApplicantRow]
  BY <1>4, <1>5, <1>6, <1>7 DEF RegistryWritten
<1>9. \A a \in Applicants : registry[a].state # "UNBORN" => registry'[a].state # "UNBORN"
  BY <1>4, <1>5, <1>6, <1>7 DEF RegistryWritten
<1>10. \A c \in Cases : \A l \in cases[c].links : Alive(l.applicant)'
  <2>1. ASSUME NEW a \in Applicants, Erased(a), NEW c \in Cases, NEW l \in cases[c].links
        PROVE  Alive(l.applicant)'
    BY <1>2, <1>6, <2>1 DEF Erased, Alive
  <2>2. QED
    BY <1>2, <1>4, <1>5, <1>7, <2>1 DEF RegistryWritten, Alive
<1>11. clients' \subseteq Clients /\ overtaken' \subseteq Cases /\ overtaken \subseteq overtaken'
  BY DEF RegistryWritten, Added, Edited, Erased, Dismissed, RowsTyped
<1>12. QED
  BY <1>8, <1>9, <1>10, <1>11

\* Under an outcome of a request, by the part of the state it writes.
LEMMA ServeTypes ==
  ASSUME BookingInv, BookingAssumption, NEW w \in Callers, RequestMoves(w), Outcome(w)
  PROVE  RowsTyped' /\ RequestsTyped' /\ overtaken \subseteq overtaken'
<1>1. RowsTyped /\ RequestsTyped /\ UnderWay(requests[w])
  BY DEF BookingInv, RequestMoves
<1>2. RequestsTyped'
  BY <1>1 DEF RequestMoves, RequestsTyped
<1>3. RowsTyped' /\ overtaken \subseteq overtaken'
  <2>1. CASE UNCHANGED rows \/ (queued' \subseteq Cases /\ UNCHANGED <<cases, registry, clients, overtaken>>)
    BY <1>1, <2>1 DEF RowsTyped, rows
  <2>2. ASSUME NEW c \in Cases, NEW row \in CaseRow, Created(w, c, row) \/ Written(w, c, row)
        PROVE  RowsTyped' /\ overtaken \subseteq overtaken'
    <3>1. CaseWritten(c, row) /\ overtaken \subseteq overtaken' /\ overtaken' \subseteq overtaken \cup {c}
      BY <2>2 DEF Created, Written
    <3>2. cases' \in [Cases -> CaseRow] /\ \A d \in Cases : IsFiniteSet(cases'[d].links)
      BY <1>1, <3>1 DEF CaseWritten, RowsTyped
    <3>3. QED
      BY <1>1, <3>1, <3>2 DEF CaseWritten, RowsTyped
  <2>3. CASE RegistryWritten(w)
    <3>1. UNCHANGED <<cases, queued>>
      BY <2>3 DEF RegistryWritten
    <3>2. QED
      BY <1>1, <2>3, <3>1, RegistryMoves DEF BookingInv, RowsTyped
  <2>4. QED
    BY <2>1, <2>2, <2>3 DEF Outcome
<1>4. QED
  BY <1>2, <1>3

\* A step of the API keeps LinksResolve: an applicant is erased only when unlinked.
LEMMA ServeLinks ==
  ASSUME BookingInv, BookingAssumption, NEW w \in Callers, RequestMoves(w), Outcome(w)
  PROVE  LinksResolve'
<1>1. CASE UNCHANGED rows \/ (queued' \subseteq Cases /\ UNCHANGED <<cases, registry, clients, overtaken>>)
  BY <1>1 DEF BookingInv, rows, LinksResolve, Alive
<1>2. ASSUME NEW c \in Cases, NEW row \in CaseRow, Created(w, c, row) \/ Written(w, c, row)
      PROVE  LinksResolve'
  <2>1. CaseWritten(c, row)
    BY <1>2 DEF Created, Written
  <2>2. \A l \in row.links : Alive(l.applicant)
    BY <2>1 DEF CaseWritten, BookingInv, LinksResolve, LinkedTo
  <2>3. \A d \in Cases : cases'[d] = IF d = c THEN row ELSE cases[d]
    BY <2>1 DEF CaseWritten, BookingInv, RowsTyped
  <2>4. QED
    BY <2>1, <2>2, <2>3 DEF CaseWritten, BookingInv, LinksResolve, Alive
<1>3. CASE RegistryWritten(w)
  <2>1. UNCHANGED cases /\ \A c \in Cases : \A l \in cases[c].links : Alive(l.applicant)'
    BY <1>3, RegistryMoves DEF BookingInv, RequestMoves, RegistryWritten
  <2>2. QED
    BY <2>1 DEF LinksResolve
<1>4. QED
  BY <1>1, <1>2, <1>3 DEF Outcome

\* It keeps passports apart: the insert and the edit look for another holder.
LEMMA ServePassports ==
  ASSUME BookingInv, BookingAssumption, NEW w \in Callers, RequestMoves(w), Outcome(w)
  PROVE  PassportsDiffer'
<1> DEFINE q == requests[w]
<1>1. RowsTyped /\ PassportsDiffer /\ UnderWay(q)
  BY DEF BookingInv, RequestMoves
<1>2. CASE registry' = registry
  BY <1>1, <1>2 DEF PassportsDiffer, Alive
<1>3. ASSUME NEW a \in Applicants, Added(a, q) PROVE PassportsDiffer'
  <2>1. \A b \in Applicants \ {a} : registry'[b] = registry[b]
    BY <1>1, <1>3 DEF Added, RowsTyped
  <2>2. registry'[a].passport = q.passport
    BY <1>1, <1>3 DEF Added, RowsTyped
  <2>3. \A b \in Applicants : Alive(b) => registry[b].passport # q.passport
    BY <1>3 DEF Added, Holder
  <2>4. QED
    BY <1>1, <2>1, <2>2, <2>3 DEF PassportsDiffer, Alive
<1>4. ASSUME NEW a \in Applicants, Edited(a, q) PROVE PassportsDiffer'
  <2> DEFINE row == [registry[a] EXCEPT !.passport = q.passport, !.expiry = q.expiry,
                                        !.client = q.client]
  <2>1. registry' = [registry EXCEPT ![a] = row]
    BY <1>4, Zenon DEF Edited
  <2>2. row.passport = q.passport
    BY <1>1 DEF RowsTyped, ApplicantRow
  <2> HIDE DEF row
  <2>3. /\ \A b \in Applicants \ {a} : registry'[b] = registry[b]
        /\ registry'[a].passport = q.passport
    BY <1>1, <2>1, <2>2 DEF RowsTyped
  <2>4. \A b \in Applicants \ {a} : Alive(b) => registry[b].passport # q.passport
    BY <1>4 DEF Edited, Holder
  <2>5. QED
    BY <1>1, <2>3, <2>4 DEF PassportsDiffer, Alive
<1>5. ASSUME NEW a \in Applicants, Erased(a) PROVE PassportsDiffer'
  <2>1. /\ \A b \in Applicants \ {a} : registry'[b] = registry[b]
        /\ registry'[a].state = "DELETED"
    BY <1>1, <1>5 DEF Erased, RowsTyped, NoApplicant
  <2>2. QED
    BY <1>1, <2>1 DEF PassportsDiffer, Alive
<1>6. ASSUME Dismissed(q.client) PROVE PassportsDiffer'
  <2>1. \A a \in Applicants : /\ registry'[a].state = registry[a].state
                              /\ registry'[a].passport = registry[a].passport
    BY <1>1, <1>6 DEF Dismissed, RowsTyped, ApplicantRow
  <2>2. QED
    BY <1>1, <2>1 DEF PassportsDiffer, Alive
<1>7. QED
  BY <1>2, <1>3, <1>4, <1>5, <1>6
  DEF Outcome, rows, Created, Written, CaseWritten, RegistryWritten

\* Ready is ReadyWhenRead, of applicants that still exist.
LEMMA ReadyIs ==
  ASSUME NEW case
  PROVE  Ready(case) <=> ReadyWhenRead(case) /\ \A l \in case.links : Alive(l.applicant)
BY DEF Ready, ReadyWhenRead

\* A row that is ready, or was when a request read it, stays so while the
\* registry changes, unless the history takes up its case.
LEMMA StillReady ==
  ASSUME BookingInv, NEW w \in Callers, UnderWay(requests[w]), RegistryWritten(w),
         NEW row \in CaseRow, NEW c \in Cases, c \notin overtaken',
         row = cases[c] \/ \E v \in Readers(c) : row = requests[v].seen,
         \A l \in row.links : registry[l.applicant].state # "UNBORN",
         ReadyWhenRead(row)
  PROVE  ReadyWhenRead(row)'
<1> DEFINE q == requests[w]
<1>1. RowsTyped
  BY DEF BookingInv
<1>2. ASSUME NEW l \in row.links, Alive(l.applicant)'
      PROVE  Alive(l.applicant) /\ registry'[l.applicant].expiry = registry[l.applicant].expiry
  <2> DEFINE a == l.applicant
  <2>1. a \in Applicants /\ a \in LinkedTo(row) /\ registry[a].state # "UNBORN"
    BY LinkApplicants
  <2>2. ASSUME NEW b \in Applicants, Added(b, q) PROVE registry'[a] = registry[a]
    BY <1>1, <2>1, <2>2 DEF Added, RowsTyped
  <2>3. ASSUME NEW b \in Applicants, Edited(b, q) PROVE registry'[a] = registry[a]
    <3>1. a # b
      BY <2>1, <2>3 DEF Edited
    <3>2. QED
      BY <1>1, <2>1, <2>3, <3>1 DEF Edited, RowsTyped
  <2>4. ASSUME NEW b \in Applicants, Erased(b) PROVE registry'[a] = registry[a]
    <3>1. registry'[b].state = "DELETED"
      BY <1>1, <2>4 DEF Erased, RowsTyped, NoApplicant
    <3>2. a # b
      BY <1>2, <3>1 DEF Alive
    <3>3. QED
      BY <1>1, <2>1, <2>4, <3>2 DEF Erased, RowsTyped
  <2>5. ASSUME Dismissed(q.client)
        PROVE  registry'[a].expiry = registry[a].expiry /\ registry'[a].state = registry[a].state
    BY <1>1, <2>1, <2>5 DEF Dismissed, RowsTyped, ApplicantRow
  <2>6. QED
    BY <1>2, <2>2, <2>3, <2>4, <2>5 DEF RegistryWritten, Alive
<1>3. \A l \in row.links :
        Alive(l.applicant)' => PassportOk(row.route, registry'[l.applicant].expiry, row.travel)
  BY <1>2 DEF ReadyWhenRead
<1>4. QED
  BY <1>3 DEF ReadyWhenRead, OnePrimary, Contiguous, GroupOk, PassportOk

\* It keeps what was read true, or puts the case in the history.
LEMMA ServeSeen ==
  ASSUME BookingInv, BookingAssumption, NEW w \in Callers, RequestMoves(w), Outcome(w)
  PROVE  SeenBorn' /\ SeenReady'
<1> DEFINE q == requests[w]
<1>1. RowsTyped /\ RequestsTyped /\ UnderWay(q) /\ LinksResolve
  BY DEF BookingInv, RequestMoves
<1>2. CASE registry' = registry \/ RegistryWritten(w)
  <2>1. \A a \in Applicants : registry[a].state # "UNBORN" => registry'[a].state # "UNBORN"
    BY <1>1, <1>2, RegistryMoves
  <2>2. ASSUME NEW v \in Callers, "seen" \in DOMAIN requests'[v]
        PROVE  /\ requests'[v].op = requests[v].op /\ requests'[v].case = requests[v].case
               /\ \/ "seen" \in DOMAIN requests[v] /\ requests'[v].seen = requests[v].seen
                  \/ v = w /\ ReadNow(w)
    BY <2>2 DEF RequestMoves
  <2>3. ASSUME NEW v \in Callers, "seen" \in DOMAIN requests[v]
        PROVE  /\ UnderWay(requests[v]) /\ requests[v].seen \in CaseRow
               /\ requests[v].case \in Cases /\ v \in Readers(requests[v].case)
               /\ \A l \in requests[v].seen.links :
                    l.applicant \in Applicants /\ registry[l.applicant].state # "UNBORN"
    <3>1. UnderWay(requests[v])
      BY <1>1, <2>3 DEF RequestsTyped, Idle, Answered
    <3>2. requests[v].seen \in CaseRow /\ requests[v].op \in CaseOps
      BY <2>3, <3>1 DEF UnderWay
    <3>3. requests[v].case \in Cases
      BY <3>1, <3>2, CaseFields DEF UnderWay
    <3>4. QED
      BY <2>3, <3>1, <3>2, <3>3, LinkApplicants DEF BookingInv, SeenBorn, Readers
  <2>4. ASSUME ReadNow(w)
        PROVE  /\ q.case \in Cases /\ registry' = registry
               /\ \A l \in cases[q.case].links :
                    l.applicant \in Applicants /\ Alive(l.applicant)
    <3>1. q.case \in Cases
      BY <1>1, <2>4, CaseFields DEF ReadNow, UnderWay
    <3>2. ~ RegistryWritten(w)
      BY <2>4 DEF ReadNow, RegistryWritten, CaseOps
    <3>3. QED
      BY <1>1, <1>2, <3>1, <3>2, LinkApplicants DEF RowsTyped, LinksResolve
  <2>5. SeenBorn'
    <3>1. ASSUME NEW v \in Callers, "seen" \in DOMAIN requests'[v],
                 NEW l \in requests'[v].seen.links
          PROVE  registry'[l.applicant].state # "UNBORN"
      <4>1. CASE "seen" \in DOMAIN requests[v] /\ requests'[v].seen = requests[v].seen
        BY <2>1, <2>3, <3>1, <4>1
      <4>2. CASE v = w /\ ReadNow(w)
        <5>1. l \in cases[q.case].links
          BY <3>1, <4>2 DEF ReadNow
        <5>2. QED
          BY <2>4, <4>2, <5>1 DEF Alive
      <4>3. QED
        BY <2>2, <3>1, <4>1, <4>2
    <3>2. QED
      BY <3>1 DEF SeenBorn
  <2>6. ASSUME NEW v \in Callers, "seen" \in DOMAIN requests'[v],
               requests'[v].op = "ready", requests'[v].case \notin overtaken',
               NEW row, row = requests'[v].seen
        PROVE  ReadyWhenRead(row)'
    <3> DEFINE c == requests[v].case
    <3>1. overtaken \subseteq overtaken' /\ requests'[v].case = c /\ requests[v].op = "ready"
      BY <2>2, <2>6, ServeTypes
    <3>2. CASE "seen" \in DOMAIN requests[v] /\ requests'[v].seen = requests[v].seen
      <4>1. row \in CaseRow /\ c \in Cases /\ v \in Readers(c) /\ row = requests[v].seen
        BY <2>3, <2>6, <3>2
      <4>2. \A l \in row.links : registry[l.applicant].state # "UNBORN"
        BY <2>3, <3>2, <4>1
      <4>3. ReadyWhenRead(row)
        BY <2>6, <3>1, <3>2, <4>1 DEF BookingInv, SeenReady
      <4>4. CASE registry' = registry
        BY <4>3, <4>4 DEF ReadyWhenRead, Alive
      <4>5. CASE RegistryWritten(w)
        BY <1>1, <2>6, <3>1, <4>1, <4>2, <4>3, <4>5, StillReady
      <4>6. QED
        BY <1>2, <4>4, <4>5
    <3>3. CASE v = w /\ ReadNow(w)
      <4>1. row = cases[q.case] /\ registry' = registry
        BY <2>4, <2>6, <3>3 DEF ReadNow
      <4>2. Ready(cases[q.case])
        BY <3>1, <3>3 DEF ReadNow, Refused
      <4>3. ReadyWhenRead(row)
        BY <4>1, <4>2, ReadyIs
      <4>4. QED
        BY <4>1, <4>3 DEF ReadyWhenRead, Alive
    <3>4. QED
      BY <2>2, <2>6, <3>2, <3>3
  <2>7. SeenReady'
    BY <2>6 DEF SeenReady
  <2>8. QED
    BY <2>5, <2>7
<1>3. QED
  BY <1>2 DEF Outcome, rows, Created, Written, CaseWritten

\* A row that is READY without an entry in the history was put there by a request
\* whose reading of it still holds.
LEMMA ServeReady ==
  ASSUME BookingInv, BookingAssumption, NEW w \in Callers, RequestMoves(w), Outcome(w)
  PROVE  ReadyCaseIsBookable'
<1> DEFINE q == requests[w]
<1>1. RowsTyped /\ RequestsTyped /\ UnderWay(q) /\ LinksResolve /\ ReadyCaseIsBookable
  BY DEF BookingInv, RequestMoves
<1>2. CASE UNCHANGED rows \/ (queued' \subseteq Cases /\ UNCHANGED <<cases, registry, clients, overtaken>>)
  <2>1. UNCHANGED <<cases, registry, overtaken>>
    BY <1>2 DEF rows
  <2>2. QED
    BY <1>1, <2>1 DEF ReadyCaseIsBookable, Ready, Alive
<1>3. ASSUME NEW c \in Cases, NEW row \in CaseRow, Created(w, c, row) \/ Written(w, c, row)
      PROVE  ReadyCaseIsBookable'
  <2>1. CaseWritten(c, row) /\ overtaken \subseteq overtaken' /\ registry' = registry
    BY <1>3 DEF Created, Written, CaseWritten
  <2>2. \A d \in Cases : cases'[d] = IF d = c THEN row ELSE cases[d]
    BY <1>1, <2>1 DEF CaseWritten, RowsTyped
  <2>3. ASSUME row.status = "READY", c \notin overtaken' PROVE Ready(row)
    <3>1. Written(w, c, row) /\ cases[c] = q.seen /\ c \notin overtaken
      BY <1>3, <2>1, <2>3 DEF Created, Written
    <3>2. "seen" \in DOMAIN q /\ q.op # "delete" /\ c = q.case
      BY <1>1, <2>3, <3>1 DEF Written, UnderWay
    <3>3. cases[c].status = "DRAFT"
      BY <1>1, <3>1, <3>2 DEF UnderWay
    <3>4. q.op = "ready" /\ row = [cases[c] EXCEPT !.status = "READY"]
      BY <2>3, <3>1, <3>2, <3>3 DEF Written
    <3>5. ReadyWhenRead(cases[c])
      BY <3>1, <3>2, <3>4 DEF BookingInv, SeenReady
    <3>6. Ready(cases[c])
      BY <1>1, <3>5, ReadyIs DEF LinksResolve
    <3>7. /\ row.links = cases[c].links /\ row.route = cases[c].route
          /\ row.travel = cases[c].travel /\ row.split = cases[c].split
      BY <1>1, <3>4 DEF RowsTyped, CaseRow
    <3>8. QED
      BY <3>6, <3>7 DEF Ready, OnePrimary, Contiguous, GroupOk
  <2>4. \A d \in Cases : cases'[d].status = "READY" /\ d \notin overtaken' => Ready(cases'[d])
    BY <1>1, <2>1, <2>2, <2>3 DEF ReadyCaseIsBookable
  <2>5. QED
    BY <2>1, <2>4 DEF ReadyCaseIsBookable, Ready, Alive
<1>4. CASE RegistryWritten(w)
  <2>1. ASSUME NEW c \in Cases, cases[c].status = "READY", c \notin overtaken'
        PROVE  Ready(cases[c])'
    <3>1. overtaken \subseteq overtaken' /\ UNCHANGED cases
      BY <1>4, ServeTypes DEF RegistryWritten
    <3>2. Ready(cases[c]) /\ cases[c] \in CaseRow
      BY <1>1, <2>1, <3>1 DEF ReadyCaseIsBookable, RowsTyped
    <3>3. \A l \in cases[c].links : Alive(l.applicant)
      BY <1>1 DEF LinksResolve
    <3>4. PICK row \in CaseRow : row = cases[c]
      BY <3>2
    <3>5. ReadyWhenRead(row)
      BY <3>2, <3>4, ReadyIs
    <3>6. ReadyWhenRead(row)'
      BY <1>1, <1>4, <2>1, <3>3, <3>4, <3>5, StillReady DEF Alive
    <3>7. \A l \in row.links : Alive(l.applicant)'
      BY <1>1, <1>4, <3>4, RegistryMoves
    <3>8. Ready(row)'
      BY <3>6, <3>7 DEF Ready, ReadyWhenRead
    <3>9. QED
      BY <3>1, <3>4, <3>8
  <2>2. QED
    BY <1>4, <2>1 DEF ReadyCaseIsBookable, RegistryWritten
<1>5. QED
  BY <1>2, <1>3, <1>4 DEF Outcome

\* A step of the API keeps the invariant.
LEMMA ServeInv ==
  ASSUME BookingInv, BookingAssumption, NEW w \in Callers, Serve(w)
  PROVE  BookingInv'
<1>1. RequestMoves(w) /\ Outcome(w)
  BY Served DEF BookingInv
<1>2. QED
  BY <1>1, ServeTypes, ServeLinks, ServePassports, ServeReady, ServeSeen DEF BookingInv

\* The worker only moves a READY case on.
LEMMA TakeJobInv ==
  ASSUME BookingInv, NEW c \in Cases, TakeJob(c)
  PROVE  BookingInv'
<1> DEFINE status == IF cases[c].status = "READY" THEN "RUNNING" ELSE cases[c].status
           row == [cases[c] EXCEPT !.status = status]
<1>1. RowsTyped /\ UNCHANGED <<registry, clients, requests, overtaken>> /\ queued' \subseteq queued
  BY DEF BookingInv, TakeJob
<1>2. cases' = [cases EXCEPT ![c] = row]
  BY DEF TakeJob
<1>3. /\ row \in CaseRow /\ row.links = cases[c].links
      /\ row.status = status /\ (row.status = "READY" => row = cases[c])
  <2>1. cases[c] \in CaseRow
    BY <1>1 DEF RowsTyped
  <2>2. status \in {"UNBORN", "DRAFT", "READY", "RUNNING", "DELETED"} /\ status # "READY"
    BY <2>1 DEF CaseRow
  <2> HIDE DEF status
  <2>3. QED
    BY <2>1, <2>2 DEF CaseRow
<1> HIDE DEF row, status
<1>4. \A d \in Cases : cases'[d] = IF d = c THEN row ELSE cases[d]
  BY <1>1, <1>2 DEF RowsTyped
<1>5. RowsTyped'
  BY <1>1, <1>2, <1>3, <1>4 DEF RowsTyped
<1>6. RequestsTyped' /\ PassportsDiffer' /\ SeenBorn'
  BY <1>1 DEF BookingInv, RequestsTyped, PassportsDiffer, SeenBorn, Alive
<1>7. SeenReady'
  BY <1>1 DEF BookingInv, SeenReady, ReadyWhenRead, Alive
<1>8. LinksResolve'
  BY <1>1, <1>3, <1>4 DEF BookingInv, LinksResolve, Alive
<1>9. ReadyCaseIsBookable'
  <2>1. \A d \in Cases : cases'[d].status = "READY" => cases'[d] = cases[d]
    BY <1>3, <1>4
  <2>2. QED
    BY <1>1, <2>1 DEF BookingInv, ReadyCaseIsBookable, Ready, Alive
<1>10. QED
  BY <1>5, <1>6, <1>7, <1>8, <1>9 DEF BookingInv

\* A request is sent, or its answer is taken.
LEMMA RequestInv ==
  ASSUME BookingInv, NEW w \in Callers, NEW q, requests' = [requests EXCEPT ![w] = q],
         q = Idle \/ UnderWay(q), "seen" \notin DOMAIN q, UNCHANGED rows
  PROVE  BookingInv'
<1>1. UNCHANGED <<cases, registry, clients, queued, overtaken>>
  BY DEF rows
<1>2. /\ DOMAIN requests' = Callers
      /\ \A v \in Callers : requests'[v] = IF v = w THEN q ELSE requests[v]
  BY DEF BookingInv, RequestsTyped
<1>3. RequestsTyped'
  BY <1>2 DEF BookingInv, RequestsTyped
<1>4. RowsTyped' /\ LinksResolve' /\ PassportsDiffer'
  BY <1>1 DEF BookingInv, RowsTyped, LinksResolve, PassportsDiffer, Alive
<1>5. ReadyCaseIsBookable'
  BY <1>1 DEF BookingInv, ReadyCaseIsBookable, Ready, Alive
<1>6. SeenBorn' /\ SeenReady'
  BY <1>1, <1>2 DEF BookingInv, SeenBorn, SeenReady, ReadyWhenRead, Alive
<1>7. QED
  BY <1>3, <1>4, <1>5, <1>6 DEF BookingInv

\* The seeded rows satisfy the invariant.
LEMMA BookingStarts ==
  ASSUME BookingInit, BookingAssumption, BornAssumption
  PROVE  BookingInv
<1>1. \A c \in Cases : cases[c] = Unborn
  BY DEF BookingInit
<1>2. Unborn \in CaseRow /\ Unborn.links = {} /\ Unborn.status = "UNBORN"
  BY DEF Unborn, CaseRow
<1>3. cases \in [Cases -> CaseRow]
  BY <1>2 DEF BookingInit
<1>4. \A a \in Applicants :
        registry[a] = IF a \in DOMAIN Born THEN Born[a] ELSE NoApplicant
  BY DEF BookingInit
<1>5. \A a \in DOMAIN Born : Born[a] \in ApplicantRow
  BY DEF BornAssumption, ApplicantRow
<1>6. NoApplicant \in ApplicantRow /\ NoApplicant.state = "UNBORN"
  BY DEF NoApplicant, ApplicantRow
<1>7. registry \in [Applicants -> ApplicantRow]
  BY <1>5, <1>6 DEF BookingInit
<1>8. RowsTyped
  BY <1>1, <1>2, <1>3, <1>7, FS_EmptySet DEF RowsTyped, BookingInit
<1>9. RequestsTyped
  BY DEF BookingInit, RequestsTyped
<1>10. LinksResolve /\ ReadyCaseIsBookable
  BY <1>1, <1>2 DEF LinksResolve, ReadyCaseIsBookable
<1>11. PassportsDiffer
  BY <1>4, <1>6 DEF PassportsDiffer, Alive, BornAssumption
<1>12. SeenBorn /\ SeenReady
  BY DEF BookingInit, SeenBorn, SeenReady, Idle
<1>13. QED
  BY <1>8, <1>9, <1>10, <1>11, <1>12 DEF BookingInv

\* A set whose members are all one has at most one.
LEMMA AtMostOne ==
  ASSUME NEW S, \A x, y \in S : x = y
  PROVE  Cardinality(S) <= 1
<1>1. CASE S = {}
  BY <1>1, FS_EmptySet
<1>2. CASE S # {}
  <2>1. PICK x \in S : TRUE
    BY <1>2
  <2>2. S = {x}
    BY <2>1
  <2>3. Cardinality({x}) = 1
    BY FS_Singleton
  <2>4. QED
    BY <2>2, <2>3
<1>3. QED
  BY <1>1, <1>2

\* What the invariant says, as the runs check it.
LEMMA BookingKeeps ==
  ASSUME BookingInv
  PROVE  TypeOK /\ OnePersonPerPassport
<1>1. \A p \in Passports : \A a, b \in Holder(p) : a = b
  BY DEF BookingInv, PassportsDiffer, Holder
<1>2. OnePersonPerPassport
  BY <1>1, AtMostOne DEF OnePersonPerPassport
<1>3. \A c \in Cases : cases[c].links \subseteq Link /\
        cases[c].status \in {"UNBORN", "DRAFT", "READY", "RUNNING", "DELETED"}
  BY DEF BookingInv, RowsTyped, CaseRow
<1>4. \A w \in Callers :
        requests[w].pc \in {"idle", "read", "check", "unset", "write", "done"}
  BY DEF BookingInv, RequestsTyped, Idle, Answered, UnderWay, Steps
<1>5. QED
  BY <1>2, <1>3, <1>4 DEF BookingInv, RowsTyped, TypeOK
-----------------------------------------------------------------------------
(* What a caller that makes one request after the other can rely on        *)

\* The statements each request of the wizard goes through.
LEMMA ServesOp ==
  ASSUME RequestsTyped, NEW w \in Callers, Serve(w)
  PROVE  LET q == requests[w] IN
         /\ UnderWay(q)
         /\ q.op = "person" => FindByPassport(w) \/ InsertApplicant(w)
         /\ q.op = "lookup" => Lookup(w)
         /\ q.op = "create" => CreateCase(w)
         /\ q.op = "add" =>
              ReadCase(w) \/ CheckApplicant(w) \/ UnsetPrimaries(w) \/ InsertLink(w)
         /\ q.op = "ready" => ReadCase(w) \/ TransitionToReady(w)
         /\ q.op = "start" => StartAutomation(w)
<1> USE DEF ReadCase, CreateCase, UpdateCase, CheckApplicant, UnsetPrimaries, InsertLink,
      SetPrimary, Reorder, RemoveLink, TransitionToReady, DeleteCase, StartAutomation,
      FindByPassport, Lookup, InsertApplicant, UpdateApplicant, CountLinks,
      DeleteApplicant, CountDependents, DeleteClient
<1>1. requests[w].pc \in Steps
  BY DEF Serve, ServeCase, ServePeople, Steps
<1>2. UnderWay(requests[w])
  BY <1>1, Serving
<1>3. UnsetPrimaries(w) => requests[w].op \in {"add", "primary"}
  BY <1>2 DEF UnderWay
<1>4. QED
  BY <1>2, <1>3 DEF Serve, ServeCase, ServePeople, CaseOps

\* an applicant that create, or the lookup, answers with has the passport asked for
LEMMA PersonServed ==
  ASSUME BookingInv, BookingAssumption, NEW w \in Callers, Serve(w),
         requests[w].op \in {"person", "lookup"}, requests'[w].pc = "done",
         requests[w].op = "person" => requests'[w].id # None,
         requests[w].op = "lookup" => requests'[w].ok
  PROVE  LET a == requests'[w].id IN
         /\ a \in Applicants /\ registry'[a].passport = requests[w].passport
         /\ registry'[a].state # "UNBORN"
<1> DEFINE q == requests[w]
<1>1. /\ RowsTyped /\ RequestsTyped /\ UnderWay(q) /\ DOMAIN requests = Callers
      /\ q.op = "person" => FindByPassport(w) \/ InsertApplicant(w)
      /\ q.op = "lookup" => Lookup(w)
  BY ServesOp DEF BookingInv, RequestsTyped
<1>2. ASSUME NEW ok, NEW id, Answer(w, ok, id)
      PROVE  requests'[w].id = id /\ requests'[w].ok = ok
  BY <1>1, <1>2 DEF Answer
<1>3. ASSUME NEW id, Refuse(w, id)
      PROVE  requests'[w].id = id /\ requests'[w].ok = FALSE /\ registry' = registry
  BY <1>2, <1>3 DEF Refuse, rows
<1>4. ASSUME registry' = registry, requests'[w].id \in Holder(q.passport)
      PROVE  /\ requests'[w].id \in Applicants
             /\ registry'[requests'[w].id].passport = q.passport
             /\ registry'[requests'[w].id].state # "UNBORN"
  BY <1>4 DEF Holder, Alive
<1>5. CASE FindByPassport(w) /\ q.op = "person"
  <2>1. ~ Refuse(w, None)
    BY <1>3, <1>5
  <2>2. ~ Continue(w, "write", "ok", TRUE)
    <3>1. SUFFICES ASSUME Continue(w, "write", "ok", TRUE) PROVE FALSE
      OBVIOUS
    <3>2. "pc" \in DOMAIN q
      BY <1>1 DEF UnderWay, Accepted
    <3>3. /\ w \in Callers /\ DOMAIN requests = Callers /\ "pc" \in DOMAIN requests[w]
          /\ "ok" # "pc" /\ Continue(w, "write", "ok", TRUE)
      BY <1>1, <3>1, <3>2
    <3>4. requests'[w].pc = "write"
      BY ONLY <3>3, Continues
    <3>5. QED
      BY <3>4
  <2>3. Holder(q.passport) # {} /\ Refuse(w, CHOOSE a \in Holder(q.passport) : TRUE)
    BY <1>5, <2>1, <2>2 DEF FindByPassport
  <2>4. (CHOOSE a \in Holder(q.passport) : TRUE) \in Holder(q.passport)
    BY <2>3
  <2>5. QED
    BY <1>3, <1>4, <2>3, <2>4
<1>6. CASE InsertApplicant(w) /\ q.op = "person"
  <2>1. ~ Refuse(w, None)
    BY <1>3, <1>6
  <2>2. PICK a \in Fresh({b \in Applicants : registry[b].state = "UNBORN"}) :
          /\ registry' = [registry EXCEPT ![a] =
               [state |-> "LIVE", passport |-> q.passport, expiry |-> q.expiry,
                client |-> q.client]]
          /\ Answer(w, TRUE, a)
    BY <1>6, <2>1 DEF InsertApplicant
  <2>3. a \in Applicants /\ requests'[w].id = a
    BY <1>2, <2>2 DEF Fresh
  <2>4. QED
    BY <1>1, <2>2, <2>3 DEF RowsTyped
<1>7. CASE Lookup(w) /\ q.op = "lookup"
  <2>1. ~ Refuse(w, None)
    BY <1>3, <1>7
  <2>2. /\ Holder(q.passport) # {} /\ UNCHANGED rows
        /\ Answer(w, TRUE, CHOOSE a \in Holder(q.passport) : TRUE)
    BY <1>7, <2>1 DEF Lookup
  <2>3. (CHOOSE a \in Holder(q.passport) : TRUE) \in Holder(q.passport)
    BY <2>2
  <2>4. QED
    BY <1>2, <1>4, <2>2, <2>3 DEF rows
<1>8. QED
  BY <1>1, <1>5, <1>6, <1>7

\* the applicants whose links have the primary flag
Holders(links) == {l.applicant : l \in {k \in links : k.primary}}

\* what becomes of the case while an applicant is attached to it
LEMMA AddServed ==
  ASSUME BookingInv, BookingAssumption, NEW w \in Callers, Serve(w), requests[w].op = "add"
  PROVE  LET q == requests[w]
             r == requests'[w]
             links == cases[q.case].links IN
         \/ cases' = cases /\ r.pc = "check"
         \/ cases' = cases /\ r.pc = "done" /\ ~r.ok
         \/ cases' = cases /\ r.pc = "unset" /\ q.primary
         \/ cases' = cases /\ r.pc = "write" /\ ~q.primary /\ r.cleared = {}
         \/ /\ cases' = cases /\ q.pc = "unset" /\ r.pc = "write"
            /\ r.cleared = Holders(links)
         \/ /\ q.pc = "write" /\ r.pc = "done" /\ r.ok
            /\ cases' = [cases EXCEPT ![q.case].links = Cleared(q, links) \cup
                 {[applicant |-> q.applicant, position |-> Wanted(q), primary |-> q.primary]}]
<1> DEFINE q == requests[w]
           r == requests'[w]
<1>1. /\ RowsTyped /\ UnderWay(q) /\ DOMAIN requests = Callers /\ "pc" \in DOMAIN q
      /\ ReadCase(w) \/ CheckApplicant(w) \/ UnsetPrimaries(w) \/ InsertLink(w)
  BY ServesOp DEF BookingInv, RequestsTyped, UnderWay, Accepted
<1>2. ASSUME NEW ok, NEW id, Answer(w, ok, id)
      PROVE  r.pc = "done" /\ r.ok = ok
  BY <1>1, <1>2 DEF Answer
<1>3. ASSUME Refuse(w, None) PROVE cases' = cases /\ r.pc = "done" /\ ~r.ok
  BY <1>2, <1>3 DEF Refuse, rows
<1>4. CASE ReadCase(w)
  <2>1. CASE Refuse(w, None)
    BY <1>3, <2>1
  <2>2. CASE Continue(w, "check", "seen", cases[q.case]) /\ UNCHANGED rows
    BY <1>1, <2>2, Continues DEF rows
  <2>3. QED
    BY <1>4, <2>1, <2>2 DEF ReadCase
<1>5. CASE CheckApplicant(w)
  <2>1. CASE Refuse(w, None)
    BY <1>3, <2>1
  <2>2. CASE UNCHANGED rows /\ Continue(w, IF q.primary THEN "unset" ELSE "write", "cleared", {})
    <3>1. CASE q.primary
      BY <1>1, <2>2, <3>1, Continues DEF rows
    <3>2. CASE ~q.primary
      <4>1. Continue(w, "write", "cleared", {})
        BY <2>2, <3>2
      <4>2. r.pc = "write" /\ r["cleared"] = {}
        BY <1>1, <4>1, Continues
      <4>3. QED
        BY <2>2, <3>2, <4>2 DEF rows
    <3>3. QED
      BY <3>1, <3>2
  <2>3. QED
    BY <1>5, <2>1, <2>2 DEF CheckApplicant
<1>6. CASE UnsetPrimaries(w)
  <2>1. /\ q.pc = "unset" /\ UNCHANGED rows
        /\ Continue(w, "write", "cleared", Holders(cases[q.case].links))
    BY <1>6 DEF UnsetPrimaries, Holders
  <2>2. r.pc = "write" /\ r["cleared"] = Holders(cases[q.case].links)
    BY <1>1, <2>1, Continues
  <2>3. QED
    BY <2>1, <2>2 DEF rows
<1>7. CASE InsertLink(w)
  <2>1. CASE Refuse(w, None)
    BY <1>3, <2>1
  <2>2. CASE ~ Refuse(w, None)
    <3> DEFINE links == Cleared(q, cases[q.case].links) \cup
                 {[applicant |-> q.applicant, position |-> Wanted(q), primary |-> q.primary]}
               row == [cases[q.case] EXCEPT !.links = links]
    <3>1. q.pc = "write" /\ WriteCase(w, q.case, row) /\ Answer(w, TRUE, q.case)
      BY <1>7, <2>2 DEF InsertLink
    <3>2. cases' = [cases EXCEPT ![q.case].links = links]
      BY <3>1 DEF WriteCase
    <3>3. QED
      BY <1>2, <3>1, <3>2
  <2>3. QED
    BY <2>1, <2>2
<1>8. QED
  BY <1>1, <1>4, <1>5, <1>6, <1>7

\* what becomes of a case while it is marked ready
LEMMA MarkServed ==
  ASSUME BookingInv, NEW w \in Callers, Serve(w), requests[w].op = "ready"
  PROVE  LET q == requests[w]
             r == requests'[w] IN
         \/ cases' = cases /\ r.pc = "write"
         \/ cases' = cases /\ r.pc = "done" /\ ~r.ok
         \/ /\ cases' = [cases EXCEPT ![q.case].status = "READY"]
            /\ r.pc = "done" /\ r.ok
<1> DEFINE q == requests[w]
           r == requests'[w]
<1>1. /\ UnderWay(q) /\ DOMAIN requests = Callers /\ "pc" \in DOMAIN q
      /\ ReadCase(w) \/ TransitionToReady(w)
  BY ServesOp DEF BookingInv, RequestsTyped, UnderWay, Accepted
<1>2. ASSUME NEW ok, NEW id, Answer(w, ok, id)
      PROVE  r.pc = "done" /\ r.ok = ok
  BY <1>1, <1>2 DEF Answer
<1>3. ASSUME Refuse(w, None) PROVE cases' = cases /\ r.pc = "done" /\ ~r.ok
  BY <1>2, <1>3 DEF Refuse, rows
<1>4. CASE ReadCase(w)
  <2>1. CASE Refuse(w, None)
    BY <1>3, <2>1
  <2>2. CASE Continue(w, "write", "seen", cases[q.case]) /\ UNCHANGED rows
    BY <1>1, <2>2, Continues DEF rows
  <2>3. QED
    BY <1>4, <2>1, <2>2 DEF ReadCase
<1>5. CASE TransitionToReady(w)
  <2>1. CASE Refuse(w, None)
    BY <1>3, <2>1
  <2>2. CASE ~ Refuse(w, None)
    <3>1. /\ WriteCase(w, q.case, [cases[q.case] EXCEPT !.status = "READY"])
          /\ Answer(w, TRUE, q.case)
      BY <1>5, <2>2 DEF TransitionToReady
    <3>2. QED
      BY <1>2, <3>1 DEF WriteCase
  <2>3. QED
    BY <2>1, <2>2
<1>6. QED
  BY <1>1, <1>4, <1>5

=============================================================================
