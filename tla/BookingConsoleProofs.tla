------------------------ MODULE BookingConsoleProofs ------------------------
(***************************************************************************)
(* Proofs about BookingConsole, for every bound of the console and any     *)
(* requests of the other client the API accepts.                           *)
(*                                                                         *)
(* The argument has three parts.  The rows: BookingInv of                  *)
(* BookingCasesProofs.  The form: one primary row at most, and no row of   *)
(* the list without a passport but the holes.  The submission: at each of  *)
(* its steps, how far the case is that only it writes - so that at the     *)
(* last step the case is the form - and which cases it has left behind,    *)
(* each of them at the cost of an answer the network lost.                 *)
(***************************************************************************)
EXTENDS BookingConsole, BookingCasesProofs, SequenceTheorems

-----------------------------------------------------------------------------
(* The form                                                                *)

\* What the wizard shows and has saved in its list.
FormTyped ==
  /\ step \in 1..5 /\ depth \in 0..4 /\ route \in Routes \cup {None}
  /\ list \in Seq(Entry) /\ Len(list) <= MaxList
  /\ \A i \in DOMAIN list : list[i] = Hole \/ list[i].passport # None
  /\ form \in [open : BOOLEAN, row : 0..MaxList, entry : Entry]
  /\ terms \in BOOLEAN /\ error \in BOOLEAN

\* OnePrimaryInForm without cardinalities, for the list of a form or submission.
SinglePrimary(rows_) ==
  \A i, j \in DOMAIN rows_ : rows_[i].primary /\ rows_[j].primary => i = j

\* The form's part of the invariant.
FormInv == FormTyped /\ SinglePrimary(list)

\* The cardinality of an interval.
LEMMA Interval ==
  ASSUME NEW n \in Nat
  PROVE  IsFiniteSet(1..n) /\ Cardinality(1..n) = n
<1>1. IsFiniteSet(1..n) /\ Cardinality(1..n) = IF 1 > n THEN 0 ELSE n - 1 + 1
  BY FS_Interval
<1>2. (IF 1 > n THEN 0 ELSE n - 1 + 1) = n
  OBVIOUS
<1>3. QED
  BY <1>1, <1>2

\* A function on an interval is a sequence of its length.
LEMMA Rows ==
  ASSUME NEW n \in Nat, NEW rows_ \in [1..n -> Entry]
  PROVE  rows_ \in Seq(Entry) /\ Len(rows_) = n /\ DOMAIN rows_ = 1..n
<1>1. rows_ \in Seq(Entry)
  BY SeqDef
<1>2. DOMAIN rows_ = 1..n /\ DOMAIN rows_ = 1..Len(rows_) /\ Len(rows_) \in Nat
  BY <1>1, LenProperties
<1>3. Len(rows_) = n
  BY <1>2
<1>4. QED
  BY <1>1, <1>2, <1>3

\* The k-th of a set of positions is there: what filter puts at place k.
LEMMA NthIsThere ==
  ASSUME NEW n \in Nat, NEW S, S \subseteq 1..n, NEW k \in 1..Cardinality(S)
  PROVE  Nth(S, k) \in S /\ Cardinality({m \in S : m <= Nth(S, k)}) = k
<1> DEFINE R(x) == Cardinality({m \in S : m <= x})
           T == {x \in Nat : R(x) >= k}
<1>1. IsFiniteSet(S) /\ Cardinality(S) \in Nat
  <2>1. IsFiniteSet(1..n)
    BY FS_Interval
  <2>2. QED
    BY <2>1, FS_Subset, FS_CardinalityType
<1>2. k \in Nat /\ k >= 1 /\ k <= Cardinality(S) /\ \A m \in S : m \in Nat /\ 1 <= m /\ m <= n
  BY <1>1
<1>3. \A x \in Nat : IsFiniteSet({m \in S : m <= x}) /\ R(x) \in Nat
  BY <1>1, FS_Subset, FS_CardinalityType
<1>4. n \in T
  <2>1. {m \in S : m <= n} = S
    BY <1>2
  <2>2. R(n) = Cardinality(S)
    BY <2>1
  <2>3. QED
    BY <1>1, <1>2, <2>2
<1>5. PICK x \in T : \A y \in T : ~ (<<y, x>> \in OpToRel(<, Nat))
  BY <1>4, NatLessThanWellFounded, WFMin
<1>6. x \in Nat /\ R(x) >= k /\ \A y \in T : ~ (y < x)
  BY <1>5 DEF OpToRel
<1>7. x # 0
  <2>1. \A m \in S : ~ (m <= 0)
    BY <1>2
  <2>2. {m \in S : m <= 0} = {}
    BY <2>1
  <2>3. R(0) = 0
    BY <2>2, FS_EmptySet
  <2>4. QED
    BY <1>2, <1>6, <2>3
<1>8. x - 1 \in Nat /\ x - 1 < x
  BY <1>6, <1>7
<1>9. R(x - 1) < k
  <2>1. x - 1 \notin T
    BY <1>6, <1>8
  <2>2. ~ (R(x - 1) >= k) /\ R(x - 1) \in Nat
    BY <1>3, <1>8, <2>1
  <2>3. QED
    BY <1>2, <2>2
<1>10. \A m \in S : m <= x <=> m <= x - 1 \/ m = x
  BY <1>2, <1>6
<1>11. x \in S
  <2>1. SUFFICES ASSUME x \notin S PROVE FALSE
    OBVIOUS
  <2>2. {m \in S : m <= x} = {m \in S : m <= x - 1}
    BY <1>10, <2>1
  <2>3. R(x) = R(x - 1)
    BY <2>2
  <2>4. QED
    BY <1>2, <1>3, <1>6, <1>8, <1>9, <2>3
<1>12. R(x) = R(x - 1) + 1
  <2>1. {m \in S : m <= x} = {m \in S : m <= x - 1} \cup {x}
    BY <1>10, <1>11
  <2>2. x \notin {m \in S : m <= x - 1}
    BY <1>6, <1>8
  <2>3. Cardinality({m \in S : m <= x - 1} \cup {x}) = Cardinality({m \in S : m <= x - 1}) + 1
    BY <1>3, <1>8, <2>2, FS_AddElement
  <2>4. QED
    BY <2>1, <2>3
<1>13. R(x) = k
  <2>1. R(x) \in Nat /\ R(x - 1) \in Nat
    BY <1>3, <1>6, <1>8
  <2> HIDE DEF R
  <2>2. QED
    BY <1>2, <1>6, <1>9, <1>12, <2>1
<1>14. \E j \in S : Cardinality({m \in S : m <= j}) = k
  BY <1>11, <1>13
<1>15. QED
  BY <1>14 DEF Nth

\* A hole is an entry, and never the primary one.
LEMMA Holes == Hole \in Entry /\ Hole.primary = FALSE /\ Hole.passport = None
BY DEF Hole, Entry

\* handleSaveActiveApplicant keeps one primary row.
LEMMA SaveKeepsForm ==
  ASSUME FormInv, MaxList \in Nat, Save
  PROVE  FormInv'
<1> DEFINE e == form.entry
           at == IF form.row = 0 THEN Len(list) + 1 ELSE form.row
           n == IF at > Len(list) THEN at ELSE Len(list)
           next == Put(list, at, e)
<1>1. /\ step = 2 /\ e.passport # None /\ Len(next) <= MaxList
      /\ list' = IF e.primary
                   THEN [j \in DOMAIN next |-> IF next[j] = Hole THEN Hole
                                               ELSE [next[j] EXCEPT !.primary = j = at]]
                   ELSE next
      /\ form' = Closed /\ UNCHANGED <<step, depth, route, terms, error>>
  BY DEF Save
<1>2. /\ e \in Entry /\ form.row \in Nat
      /\ Len(list) \in Nat /\ DOMAIN list = 1..Len(list)
      /\ \A j \in 1..Len(list) : list[j] \in Entry
  <2>1. e \in Entry /\ form.row \in Nat /\ list \in Seq(Entry)
    BY DEF FormInv, FormTyped
  <2>2. QED
    BY <2>1, LenProperties
<1>3. at \in Nat /\ n \in Nat /\ at \in 1..n /\ Len(list) <= n
  BY <1>2
<1>4. next = [j \in 1..n |-> IF j = at THEN e ELSE IF j <= Len(list) THEN list[j] ELSE Hole]
  BY DEF Put
<1> HIDE DEF next, n, at, e
<1>5. \A j \in 1..n :
        /\ next[j] = IF j = at THEN e ELSE IF j <= Len(list) THEN list[j] ELSE Hole
        /\ j # at /\ j <= Len(list) => j \in 1..Len(list)
  BY <1>2, <1>3, <1>4
<1>6. /\ next \in [1..n -> Entry]
      /\ \A j \in 1..n : next[j] = Hole \/ next[j].passport # None
      /\ \A j \in 1..n : next[j].primary => j = at \/ (j \in 1..Len(list) /\ list[j].primary)
  <2>1. ASSUME NEW j \in 1..n
        PROVE  /\ next[j] \in Entry
               /\ next[j] = Hole \/ next[j].passport # None
               /\ next[j].primary => j = at \/ (j \in 1..Len(list) /\ list[j].primary)
    <3>1. CASE j = at
      BY <1>1, <1>2, <1>5, <3>1
    <3>2. CASE j # at /\ j <= Len(list)
      BY <1>2, <1>5, <3>2 DEF FormInv, FormTyped
    <3>3. CASE j # at /\ ~ (j <= Len(list))
      BY <1>5, <3>3, Holes
    <3>4. QED
      BY <3>1, <3>2, <3>3
  <2>2. QED
    BY <1>4, <2>1
<1>7. /\ list' \in [1..n -> Entry]
      /\ \A j \in 1..n : list'[j] = Hole \/ list'[j].passport # None
      /\ SinglePrimary(list')
  <2>1. CASE e.primary
    <3> DEFINE row(j) == IF next[j] = Hole THEN Hole ELSE [next[j] EXCEPT !.primary = j = at]
    <3>1. list' = [j \in 1..n |-> row(j)]
      BY <1>1, <1>6, <2>1
    <3>2. ASSUME NEW j \in 1..n
          PROVE  /\ row(j) \in Entry /\ (row(j) = Hole \/ row(j).passport # None)
                 /\ row(j).primary => j = at
      <4>1. CASE next[j] = Hole
        BY <4>1, Holes
      <4>2. CASE next[j] # Hole
        <5>1. next[j] \in Entry /\ next[j].passport # None /\ (j = at) \in BOOLEAN
          BY <1>6, <4>2
        <5>2. [next[j] EXCEPT !.primary = j = at] \in Entry
          BY <5>1 DEF Entry
        <5>3. /\ [next[j] EXCEPT !.primary = j = at].passport = next[j].passport
              /\ [next[j] EXCEPT !.primary = j = at].primary => j = at
          BY <5>1 DEF Entry
        <5>4. QED
          BY <4>2, <5>1, <5>2, <5>3
      <4>3. QED
        BY <4>1, <4>2
    <3> HIDE DEF row
    <3>3. QED
      BY <3>1, <3>2 DEF SinglePrimary
  <2>2. CASE ~ e.primary
    <3>1. list' = next /\ next[at] = e
      BY <1>1, <1>3, <1>5, <2>2
    <3>2. \A j \in 1..n : next[j].primary => j \in 1..Len(list) /\ list[j].primary
      BY <1>6, <2>2, <3>1
    <3>3. SinglePrimary(next)
      BY <1>2, <1>6, <3>2 DEF FormInv, SinglePrimary
    <3>4. QED
      BY <1>6, <3>1, <3>3
  <2>3. QED
    BY <2>1, <2>2
<1>8. n <= MaxList
  BY <1>1, <1>3, <1>6, Rows
<1>9. form' \in [open : BOOLEAN, row : 0..MaxList, entry : Entry]
  BY <1>1, Holes DEF Closed
<1>10. list' \in Seq(Entry) /\ Len(list') = n /\ DOMAIN list' = 1..n
  BY <1>3, <1>7, Rows
<1>11. QED
  BY <1>1, <1>3, <1>7, <1>8, <1>9, <1>10 DEF FormInv, FormTyped

\* handleRemoveApplicant does, also when it makes the first row primary.
LEMMA RemoveKeepsForm ==
  ASSUME FormInv, MaxList \in Nat, NEW i \in DOMAIN list, RemoveRow(i)
  PROVE  FormInv'
<1> DEFINE S == Kept(i)
           n == Cardinality(S)
           next == [k \in 1..n |-> list[Nth(S, k)]]
<1>1. /\ UNCHANGED <<step, depth, route, form, terms, error>>
      /\ list' = IF next # <<>> /\ \A j \in DOMAIN next : ~next[j].primary
                   THEN [next EXCEPT ![1].primary = TRUE] ELSE next
  BY DEF RemoveRow
<1>2. /\ Len(list) \in Nat /\ DOMAIN list = 1..Len(list) /\ Len(list) <= MaxList
      /\ \A j \in 1..Len(list) : list[j] \in Entry
  BY LenProperties DEF FormInv, FormTyped
<1>3. S \subseteq 1..Len(list) /\ \A j \in S : list[j] \in Entry /\ list[j].passport # None
  BY <1>2 DEF Kept, FormInv, FormTyped
<1>4. IsFiniteSet(S) /\ n \in Nat /\ n <= Len(list)
  <2>1. IsFiniteSet(1..Len(list)) /\ Cardinality(1..Len(list)) = Len(list)
    BY <1>2, Interval
  <2> HIDE DEF S
  <2>2. IsFiniteSet(S) /\ Cardinality(S) <= Cardinality(1..Len(list))
    BY <1>3, <2>1, FS_Subset
  <2>3. Cardinality(S) \in Nat
    BY <2>2, FS_CardinalityType
  <2>4. QED
    BY <2>1, <2>2, <2>3
<1>5. \A k \in 1..n : Nth(S, k) \in S /\ Cardinality({m \in S : m <= Nth(S, k)}) = k
  BY <1>2, <1>3, NthIsThere
<1> HIDE DEF S, n
<1>6. /\ next \in [1..n -> Entry] /\ \A k \in 1..n : next[k].passport # None
      /\ \A k \in 1..n : next[k].primary <=> list[Nth(S, k)].primary
  BY <1>3, <1>5
<1>7. SinglePrimary(next)
  <2>1. ASSUME NEW k \in 1..n, NEW l \in 1..n, next[k].primary, next[l].primary
        PROVE  k = l
    <3>1. Nth(S, k) \in DOMAIN list /\ Nth(S, l) \in DOMAIN list
      BY <1>2, <1>3, <1>5
    <3>2. Nth(S, k) = Nth(S, l)
      BY <1>6, <2>1, <3>1 DEF FormInv, SinglePrimary
    <3>3. QED
      BY <1>5, <3>2
  <2>2. QED
    BY <1>6, <2>1 DEF SinglePrimary
<1>8. next \in Seq(Entry) /\ Len(next) = n /\ DOMAIN next = 1..n
  BY <1>4, <1>6, Rows
<1> HIDE DEF next
<1>9. /\ list' \in [1..n -> Entry] /\ \A k \in 1..n : list'[k].passport # None
      /\ SinglePrimary(list')
  <2> DEFINE bare == next # <<>> /\ \A j \in DOMAIN next : ~next[j].primary
  <2>0. list' = IF bare THEN [next EXCEPT ![1].primary = TRUE] ELSE next
    BY <1>1
  <2>1. CASE bare
    <3>1. list' = [next EXCEPT ![1].primary = TRUE]
      BY <1>1, <2>1
    <3>2. 1 \in 1..n
      <4>1. n # 0
        BY <1>8, <2>1, EmptySeq
      <4>2. QED
        BY <1>4, <4>1
    <3> DEFINE first == [next[1] EXCEPT !.primary = TRUE]
    <3>3. first \in Entry /\ first.passport = next[1].passport
      BY <1>6, <3>2 DEF Entry
    <3>4. list' = [next EXCEPT ![1] = first]
      BY <3>1
    <3> HIDE DEF first
    <3>5. \A k \in 1..n : list'[k] = IF k = 1 THEN first ELSE next[k]
      BY <1>6, <3>4
    <3>6. QED
      BY <1>6, <1>8, <2>1, <3>2, <3>3, <3>4, <3>5 DEF SinglePrimary
  <2>2. CASE ~ bare
    <3>1. list' = next
      <4> HIDE DEF bare
      <4>1. QED
        BY <2>0, <2>2
    <3>2. QED
      BY <1>6, <1>7, <3>1
  <2>3. QED
    BY <2>1, <2>2
<1>10. list' \in Seq(Entry) /\ Len(list') = n /\ DOMAIN list' = 1..n
  BY <1>4, <1>9, Rows
<1>11. QED
  BY <1>1, <1>2, <1>4, <1>9, <1>10 DEF FormInv, FormTyped

\* So does everything else the operator does in the form.
LEMMA EditKeepsForm ==
  ASSUME FormInv, MaxList \in Nat, BornAssumption, EditForm
  PROVE  FormInv'
<1>1. ASSUME NEW k \in 1..4, Select(k) PROVE FormInv'
  <2>1. route' \in Routes \cup {None} /\ depth' = k
        /\ UNCHANGED <<step, list, form, terms, error>>
    BY <1>1 DEF Select
  <2>2. QED
    BY <2>1 DEF FormInv, FormTyped
<1>2. CASE Forward
  <2>1. step \in 1..5 /\ step < 5 /\ (step' = step \/ step' = step + 1) /\ error' = FALSE
        /\ UNCHANGED <<depth, route, list, form, terms>>
    BY <1>2 DEF Forward, FormInv, FormTyped
  <2>2. step' \in 1..5
    BY <2>1
  <2>3. QED
    BY <2>1, <2>2 DEF FormInv, FormTyped
<1>3. ASSUME NEW s \in 1..5, GoBack(s) PROVE FormInv'
  BY <1>3 DEF GoBack, FormInv, FormTyped
<1>4. CASE AcceptTerms
  BY <1>4 DEF AcceptTerms, FormInv, FormTyped
<1>5. ASSUME NEW i \in DOMAIN list, RemoveRow(i) PROVE FormInv'
  BY <1>5, RemoveKeepsForm
<1>6. ASSUME UNCHANGED <<step, depth, route, list, terms, error>>,
             form' \in [open : BOOLEAN, row : 0..MaxList, entry : Entry]
      PROVE  FormInv'
  BY <1>6 DEF FormInv, FormTyped
<1>7. CASE OpenAdd
  <2>1. [Hole EXCEPT !.primary = (list = <<>>)] \in Entry
    BY DEF Hole, Entry
  <2>2. form' \in [open : BOOLEAN, row : 0..MaxList, entry : Entry]
    BY <1>7, <2>1 DEF OpenAdd
  <2>3. QED
    BY <1>6, <1>7, <2>2 DEF OpenAdd
<1>8. ASSUME NEW i \in DOMAIN list, OpenEdit(i) PROVE FormInv'
  <2>1. Len(list) \in Nat /\ DOMAIN list = 1..Len(list) /\ list[i] \in Entry /\ Len(list) <= MaxList
    BY LenProperties DEF FormInv, FormTyped
  <2>2. i \in 0..MaxList
    BY <2>1
  <2>3. QED
    BY <1>6, <1>8, <2>1, <2>2 DEF OpenEdit
<1>9. ASSUME NEW e \in Entry, form' = [form EXCEPT !.entry = e] 
      PROVE  form' \in [open : BOOLEAN, row : 0..MaxList, entry : Entry]
  BY <1>9 DEF FormInv, FormTyped
<1>10. form.entry \in Entry
  BY DEF FormInv, FormTyped
<1>11. ASSUME NEW a \in DOMAIN Born, PickExisting(a) PROVE FormInv'
  <2> DEFINE e == [form.entry EXCEPT !.id = a, !.passport = Born[a].passport]
  <2>1. form' = [form EXCEPT !.entry = e]
    BY <1>11 DEF PickExisting, FormInv, FormTyped
  <2>2. a \in Applicants /\ Born[a].passport \in Passports
    BY DEF BornAssumption
  <2>3. e \in Entry
    BY <1>10, <2>2 DEF Entry
  <2> HIDE DEF e
  <2>4. QED
    BY <1>6, <1>9, <1>11, <2>1, <2>3 DEF PickExisting
<1>12. CASE PickNobody
  <2> DEFINE e == [Hole EXCEPT !.primary = form.row = 1 \/ list = <<>>]
  <2>1. form' = [form EXCEPT !.entry = e]
    BY <1>12 DEF PickNobody
  <2>2. e \in Entry
    BY DEF Hole, Entry
  <2> HIDE DEF e
  <2>3. QED
    BY <1>6, <1>9, <1>12, <2>1, <2>2 DEF PickNobody
<1>13. ASSUME NEW p \in Passports, NEW primary \in BOOLEAN, Type(p, primary) PROVE FormInv'
  <2> DEFINE e == [form.entry EXCEPT !.passport = p, !.primary = primary]
  <2>1. form' = [form EXCEPT !.entry = e]
    BY <1>13 DEF Type, FormInv, FormTyped
  <2>2. e \in Entry
    BY <1>10 DEF Entry
  <2> HIDE DEF e
  <2>3. QED
    BY <1>6, <1>9, <1>13, <2>1, <2>2 DEF Type
<1>14. CASE Cancel
  <2>1. Closed \in [open : BOOLEAN, row : 0..MaxList, entry : Entry]
    BY Holes DEF Closed
  <2>2. QED
    BY <1>6, <1>14, <2>1 DEF Cancel
<1>15. QED
  BY <1>1, <1>2, <1>3, <1>4, <1>5, <1>7, <1>8, <1>11, <1>12, <1>13, <1>14 DEF EditForm

-----------------------------------------------------------------------------
(* The submission                                                          *)

\* The histories and the counters.
CountersTyped ==
  /\ spent \in [saves : Nat, page : Nat, script : Nat, lost : Nat, tries : Nat]
  /\ mine \subseteq Cases /\ IsFiniteSet(mine)
  /\ touched \in [cases : SUBSET Cases, people : SUBSET Applicants]

\* A submission under way has a list it can send and ids for the applicants it
\* has resolved; from "attach" on it has its case.
Submission ==
  [pc : {"none", "resolve", "lookup", "create", "attach", "mark", "start", "left"},
   ready : BOOLEAN, start : BOOLEAN, list : Seq(Entry), route : Routes \cup {None},
   ids : Seq(Applicants), case : Cases \cup {None}, next : Nat]
\* The steps of a submission that has its case.
HasCase == {"attach", "mark", "start", "left"}

\* What handleFinalSubmit asks of the list before it sends anything.
Complete(t) ==
  /\ t.list # <<>> /\ t.route \in Routes /\ SinglePrimary(t.list)
  /\ \A i \in DOMAIN t.list : t.list[i].passport # None
\* The ids and the position of a submission fit its list.
Fits(t) ==
  /\ t \in Submission
  /\ t.pc # "none" => Complete(t)
  /\ t.pc \in {"resolve", "lookup"} => Len(t.ids) < Len(t.list)
  /\ t.pc = "lookup" => t.list[Len(t.ids) + 1].id = None
  /\ t.pc \in HasCase \cup {"create"} => Len(t.ids) = Len(t.list)
  /\ t.pc \in HasCase => t.case \in Cases
  /\ t.pc = "attach" => t.next \in 1..Len(t.list)

\* The request of each step of the submission.
Operation ==
  [resolve |-> "person", lookup |-> "lookup", create |-> "create", attach |-> "add",
   mark |-> "ready", start |-> "start"]

\* The wizard's request is the one of the step the submission is at, with the inputs
\* of the list.
WizardAsks ==
  LET q == requests[Wizard] IN
  q.pc # "idle" =>
    /\ task.pc \in DOMAIN Operation /\ q.op = Operation[task.pc]
    /\ task.pc = "resolve" => task.list[Len(task.ids) + 1].id = None
    /\ task.pc = "attach" /\ q.pc = "unset" => q.primary
    /\ q.pc # "done" =>
         /\ task.pc \in {"resolve", "lookup"} => q.passport = task.list[Len(task.ids) + 1].passport
         /\ task.pc \in {"attach", "mark", "start"} => q.case = task.case
         /\ task.pc = "attach" => /\ q.applicant = task.ids[task.next]
                                  /\ q.position = task.next
                                  /\ q.primary = AsPrimary(task.next)

\* The row among the first n that is the primary applicant, and the links the case
\* has when those rows are attached.
PrimaryAmong(rows_, n) ==
  IF \E i \in 1..n : rows_[i].primary THEN CHOOSE i \in 1..n : rows_[i].primary ELSE 1
AttachedLinks(t, n) ==
  {[applicant |-> t.ids[i], position |-> i, primary |-> i = PrimaryAmong(t.list, n)] : i \in 1..n}

\* The wizard has the good news, if it does not lose it.
Succeeded == requests[Wizard].pc = "done" /\ requests[Wizard].ok
\* The rows that are attached by now.
Attached == IF task.pc # "attach" THEN Len(task.list)
            ELSE IF Succeeded THEN task.next ELSE task.next - 1
\* The case went on from DRAFT.
Going(c) == cases[c].status \in {"READY", "RUNNING"}

\* The case of a submission, while no other caller writes it, has the rows attached
\* so far, and the status that mark ready and start give it; the insert of a link has
\* cleared the primary applicant of the case as it is now.
CaseProgress ==
  LET c == task.case
      q == requests[Wizard] IN
  task.pc \in HasCase /\ c \notin touched.cases =>
    /\ cases[c].links = AttachedLinks(task, Attached)
    /\ task.pc = "attach" \/ (task.pc = "mark" /\ ~Succeeded) => cases[c].status = "DRAFT"
    /\ (task.pc = "mark" /\ Succeeded) \/ task.pc = "start" \/ (task.pc = "left" /\ task.ready)
         => Going(c)
    /\ task.pc = "attach" /\ q.pc = "write" =>
         q.cleared = IF q.primary THEN Holders(cases[c].links) ELSE {}

\* A case just created is empty.
CaseCreated ==
  LET q == requests[Wizard] IN
  task.pc = "create" /\ Succeeded /\ q.id \notin touched.cases =>
    cases[q.id].links = {} /\ cases[q.id].status = "DRAFT"

\* The applicant a row stands for has its passport.
KnownAs(a, p) ==
  a \notin touched.people => registry[a].passport = p /\ registry[a].state # "UNBORN"
PeopleKnown ==
  \A i \in 1..Len(task.ids) : task.list[i].id = None => KnownAs(task.ids[i], task.list[i].passport)
\* So has the applicant in an answer the wizard waits for.
PersonFound ==
  LET q == requests[Wizard] IN
  q.pc = "done" /\ ((task.pc = "resolve" /\ q.id # None) \/ (task.pc = "lookup" /\ q.ok)) =>
    KnownAs(q.id, task.list[Len(task.ids) + 1].passport)

\* The cases of earlier submissions that went on: one for every lost answer.
Twins ==
  {c \in mine \ touched.cases : Going(c)} \ (IF task.pc \in HasCase THEN {task.case} ELSE {})
TwinsLost == Cardinality(Twins) <= spent.lost

\* The submission's part of the invariant.  SubmittedCaseIsForm speaks of its end;
\* this says of every step how far the case is.
SubmissionInv ==
  /\ CountersTyped /\ Fits(task) /\ WizardAsks
  /\ CaseProgress /\ CaseCreated /\ PeopleKnown /\ PersonFound /\ TwinsLost

\* The callers differ and there is a valid expiry.
LEMMA Console ==
  ASSUME ConsoleAssumption
  PROVE  /\ Wizard \in Callers /\ Page \in Callers /\ Script \in Callers
         /\ Page # Wizard /\ Script # Wizard /\ MaxList \in Nat
         /\ Valid \in Expiries
<1>1. Valid \in Expiries
  BY DEF ConsoleAssumption, Valid
<1>2. QED
  BY <1>1 DEF ConsoleAssumption

\* Operation, at each step of a submission
LEMMA Operations ==
  /\ DOMAIN Operation = {"resolve", "lookup", "create", "attach", "mark", "start"}
  /\ Operation["resolve"] = "person" /\ Operation["lookup"] = "lookup"
  /\ Operation["create"] = "create" /\ Operation["attach"] = "add"
  /\ Operation["mark"] = "ready" /\ Operation["start"] = "start"
BY DEF Operation

\* The answer the wizard has is the answer to the step it is at.
LEMMA WizardAnswer ==
  ASSUME RequestsTyped, ConsoleAssumption, WizardAsks, requests[Wizard].pc = "done"
  PROVE  LET q == requests[Wizard] IN
         /\ Answered(q) /\ q.op = Operation[task.pc] /\ task.pc \in DOMAIN Operation
         /\ task.pc = "create" /\ q.ok => q.id \in Cases
         /\ task.pc = "resolve" /\ q.id # None => q.id \in Applicants
         /\ task.pc = "lookup" /\ q.ok => q.id \in Applicants
<1> DEFINE q == requests[Wizard]
<1>1. Answered(q)
  BY Console DEF RequestsTyped, Idle, UnderWay, Steps
<1>2. q.op = Operation[task.pc] /\ task.pc \in DOMAIN Operation
  BY DEF WizardAsks
<1>3. QED
  BY <1>1, <1>2, Operations DEF Answered

\* A step that leaves the submission alone: every case that another caller does
\* not write by it keeps its links, and its status unless the worker takes it on.
OthersMove ==
  /\ requests'[Wizard] = requests[Wizard] /\ UNCHANGED <<task, mine>>
  /\ touched' \in [cases : SUBSET Cases, people : SUBSET Applicants]
  /\ touched.cases \subseteq touched'.cases /\ touched.people \subseteq touched'.people
  /\ spent' \in [saves : Nat, page : Nat, script : Nat, lost : Nat, tries : Nat]
  /\ spent'.lost = spent.lost
  /\ \A c \in Cases \ touched'.cases :
       /\ cases'[c].links = cases[c].links
       /\ \/ cases'[c].status = cases[c].status
          \/ cases[c].status = "READY" /\ cases'[c].status = "RUNNING"
  /\ \A a \in Applicants \ touched'.people : registry'[a] = registry[a]

\* A step of the others keeps the submission's part of the invariant.
LEMMA OthersKeep ==
  ASSUME RequestsTyped, ConsoleAssumption, SubmissionInv, OthersMove
  PROVE  SubmissionInv'
<1> DEFINE q == requests[Wizard]
<1>1. CountersTyped' /\ Fits(task)' /\ WizardAsks'
  BY DEF SubmissionInv, OthersMove, CountersTyped, Fits, Complete, SinglePrimary, WizardAsks, AsPrimary
<1>2. \A c \in Cases \ touched'.cases :
        /\ c \notin touched.cases /\ cases'[c].links = cases[c].links
        /\ (cases'[c].status \in {"READY", "RUNNING"} <=> cases[c].status \in {"READY", "RUNNING"})
        /\ (cases'[c].status = "DRAFT" <=> cases[c].status = "DRAFT")
  BY DEF OthersMove
<1>3. CaseProgress'
  <2>1. SUFFICES ASSUME task.pc \in HasCase, task.case \notin touched'.cases
                 PROVE  CaseProgress'
    BY DEF CaseProgress, OthersMove
  <2>2. task.case \in Cases \ touched'.cases
    BY <2>1 DEF SubmissionInv, Fits
  <2>3. /\ Attached' = Attached /\ (Succeeded' <=> Succeeded)
        /\ AttachedLinks(task, Attached)' = AttachedLinks(task, Attached)
    BY DEF OthersMove, Attached, Succeeded, AttachedLinks, PrimaryAmong
  <2>4. QED
    BY <1>2, <2>1, <2>2, <2>3 DEF SubmissionInv, CaseProgress, Going, OthersMove
<1>4. CaseCreated'
  <2>1. SUFFICES ASSUME task.pc = "create", Succeeded, q.id \notin touched'.cases
                 PROVE  cases'[q.id].links = {} /\ cases'[q.id].status = "DRAFT"
    BY DEF CaseCreated, OthersMove, Succeeded
  <2>2. q.id \in Cases \ touched'.cases
    BY <2>1, WizardAnswer DEF SubmissionInv, Succeeded
  <2>3. QED
    BY <1>2, <2>1, <2>2 DEF SubmissionInv, CaseCreated
<1>5. ASSUME NEW a \in Applicants, NEW p, KnownAs(a, p) PROVE KnownAs(a, p)'
  BY <1>5 DEF OthersMove, KnownAs
<1>6. PeopleKnown'
  <2>1. \A i \in 1..Len(task.ids) : task.ids[i] \in Applicants
    BY ElementOfSeq DEF SubmissionInv, Fits, Submission
  <2>2. QED
    BY <1>5, <2>1 DEF SubmissionInv, PeopleKnown, OthersMove
<1>7. PersonFound'
  BY <1>5, WizardAnswer DEF SubmissionInv, PersonFound, OthersMove
<1>8. TwinsLost'
  <2>1. Twins' \subseteq Twins
    BY <1>2 DEF SubmissionInv, CountersTyped, Twins, Going, OthersMove
  <2>2. IsFiniteSet(Twins)
    BY FS_Subset DEF SubmissionInv, CountersTyped, Twins
  <2>3. Cardinality(Twins') <= Cardinality(Twins) /\ Cardinality(Twins) \in Nat /\ Cardinality(Twins') \in Nat
    BY <2>1, <2>2, FS_Subset, FS_CardinalityType
  <2>4. QED
    BY <2>3 DEF SubmissionInv, CountersTyped, TwinsLost, OthersMove
<1>9. QED
  BY <1>1, <1>3, <1>4, <1>6, <1>7, <1>8 DEF SubmissionInv
-----------------------------------------------------------------------------
(* The requests of the wizard                                              *)

\* The primary row of the first n + 1 is the new one or that of the first n.
LEMMA PrimaryMoves ==
  ASSUME NEW rows_, NEW n \in Nat, 1..(n + 1) \subseteq DOMAIN rows_, SinglePrimary(rows_),
         \A i \in DOMAIN rows_ : rows_[i].primary \in BOOLEAN
  PROVE  /\ n >= 1 => PrimaryAmong(rows_, n) \in 1..n
         /\ rows_[n + 1].primary \/ n + 1 = 1 => PrimaryAmong(rows_, n + 1) = n + 1
         /\ ~ (rows_[n + 1].primary \/ n + 1 = 1) =>
              PrimaryAmong(rows_, n + 1) = PrimaryAmong(rows_, n)
<1>1. n + 1 \in 1..(n + 1) /\ 1..n \subseteq 1..(n + 1) /\ 1..(n + 1) = 1..n \cup {n + 1}
  OBVIOUS
<1>2. ASSUME NEW m \in {n, n + 1}, NEW i \in 1..m, rows_[i].primary
      PROVE  PrimaryAmong(rows_, m) = i
  <2>1. \A j, k \in 1..m : rows_[j].primary /\ rows_[k].primary => j = k
    BY <1>1 DEF SinglePrimary
  <2>2. (CHOOSE j \in 1..m : rows_[j].primary) = i
    BY <1>2, <2>1
  <2>3. QED
    BY <1>2, <2>2 DEF PrimaryAmong
<1>3. ASSUME NEW m \in {n, n + 1}, ~ \E i \in 1..m : rows_[i].primary
      PROVE  PrimaryAmong(rows_, m) = 1
  BY <1>3 DEF PrimaryAmong
<1>4. n >= 1 => PrimaryAmong(rows_, n) \in 1..n
  <2>1. n >= 1 => 1 \in 1..n
    OBVIOUS
  <2>2. CASE \E i \in 1..n : rows_[i].primary
    BY <1>2, <2>2
  <2>3. CASE ~ \E i \in 1..n : rows_[i].primary
    BY <1>3, <2>1, <2>3
  <2>4. QED
    BY <2>2, <2>3
<1>5. CASE rows_[n + 1].primary
  BY <1>1, <1>2, <1>4, <1>5
<1>6. CASE ~ rows_[n + 1].primary
  <2>1. CASE \E i \in 1..n : rows_[i].primary
    <3>1. PICK i \in 1..n : rows_[i].primary
      BY <2>1
    <3>2. PrimaryAmong(rows_, n) = i /\ PrimaryAmong(rows_, n + 1) = i /\ n + 1 # 1
      BY <1>1, <1>2, <3>1
    <3>3. QED
      BY <1>4, <1>6, <3>2
  <2>2. CASE ~ \E i \in 1..n : rows_[i].primary
    <3>1. ~ \E i \in 1..(n + 1) : rows_[i].primary
      BY <1>1, <1>6, <2>2
    <3>2. PrimaryAmong(rows_, n) = 1 /\ PrimaryAmong(rows_, n + 1) = 1
      BY <1>3, <2>2, <3>1
    <3>3. QED
      BY <1>4, <1>6, <3>2
  <2>3. QED
    BY <2>1, <2>2
<1>7. QED
  BY <1>5, <1>6

\* The flag of a link set anew.
LEMMA Flagged ==
  ASSUME NEW a, NEW i, NEW old, NEW new
  PROVE  [[applicant |-> a, position |-> i, primary |-> old] EXCEPT !.primary = new]
         = [applicant |-> a, position |-> i, primary |-> new]
OBVIOUS

\* An attach that goes through makes the links of the first n rows those of the
\* first n + 1: it clears the flag it has read, and sets its own.
LEMMA AttachedOneMore ==
  ASSUME NEW t, NEW q, NEW n \in Nat,
         1..(n + 1) \subseteq DOMAIN t.list, SinglePrimary(t.list),
         \A i \in DOMAIN t.list : t.list[i].primary \in BOOLEAN,
         q.primary = (t.list[n + 1].primary \/ n + 1 = 1),
         q.cleared = IF q.primary THEN Holders(AttachedLinks(t, n)) ELSE {}
  PROVE  Cleared(q, AttachedLinks(t, n)) \cup
           {[applicant |-> t.ids[n + 1], position |-> n + 1, primary |-> q.primary]}
         = AttachedLinks(t, n + 1)
<1> DEFINE P(m) == PrimaryAmong(t.list, m)
           L(m, i) == [applicant |-> t.ids[i], position |-> i, primary |-> i = P(m)]
           F(l) == [l EXCEPT !.primary = @ /\ l.applicant \notin q.cleared]
<1>1. /\ n >= 1 => P(n) \in 1..n
      /\ q.primary => P(n + 1) = n + 1
      /\ ~ q.primary => P(n + 1) = P(n)
  BY PrimaryMoves
<1>2. /\ AttachedLinks(t, n) = {L(n, i) : i \in 1..n}
      /\ AttachedLinks(t, n + 1) = {L(n + 1, i) : i \in 1..(n + 1)}
      /\ Cleared(q, AttachedLinks(t, n)) = {F(L(n, i)) : i \in 1..n}
  <2>1. AttachedLinks(t, n) = {L(n, i) : i \in 1..n}
    BY DEF AttachedLinks
  <2>2. AttachedLinks(t, n + 1) = {L(n + 1, i) : i \in 1..(n + 1)}
    BY DEF AttachedLinks
  <2>3. Cleared(q, AttachedLinks(t, n)) = {F(l) : l \in AttachedLinks(t, n)}
    BY DEF Cleared
  <2> HIDE DEF F, L
  <2>4. QED
    BY <2>1, <2>2, <2>3
<1>3. ASSUME NEW i \in 1..n PROVE F(L(n, i)) = L(n + 1, i)
  <2>1. F(L(n, i)) = [applicant |-> t.ids[i], position |-> i,
                      primary |-> i = P(n) /\ t.ids[i] \notin q.cleared]
    <3>1. L(n, i).primary = (i = P(n)) /\ L(n, i).applicant = t.ids[i]
      OBVIOUS
    <3> DEFINE flag == L(n, i).primary /\ L(n, i).applicant \notin q.cleared
    <3>2. F(L(n, i)) = [applicant |-> t.ids[i], position |-> i, primary |-> flag]
      BY Flagged
    <3>3. flag = (i = P(n) /\ t.ids[i] \notin q.cleared)
      BY <3>1
    <3> HIDE DEF flag, P
    <3>4. QED
      BY <3>2, <3>3
  <2>2. CASE q.primary
    <3>1. i = P(n) => L(n, i) \in AttachedLinks(t, n) /\ L(n, i).primary
      BY <1>2
    <3>2. i = P(n) => t.ids[i] \in q.cleared
      BY <2>2, <3>1 DEF Holders
    <3>3. i # P(n + 1)
      BY <1>1, <2>2
    <3>4. (i = P(n) /\ t.ids[i] \notin q.cleared) = (i = P(n + 1))
      BY <3>2, <3>3
    <3> HIDE DEF P
    <3>5. QED
      BY <2>1, <3>4
  <2>3. CASE ~ q.primary
    <3>1. (i = P(n) /\ t.ids[i] \notin q.cleared) = (i = P(n + 1))
      BY <1>1, <2>3
    <3> HIDE DEF P
    <3>2. QED
      BY <2>1, <3>1
  <2>4. QED
    BY <2>2, <2>3
<1>4. [applicant |-> t.ids[n + 1], position |-> n + 1, primary |-> q.primary] = L(n + 1, n + 1)
  <2>1. q.primary = (n + 1 = P(n + 1))
    <3>1. CASE q.primary
      BY <1>1, <3>1
    <3>2. CASE ~ q.primary
      <4>1. n >= 1
        <5>1. n + 1 # 1
          BY <3>2
        <5>2. QED
          BY <5>1
      <4>2. P(n + 1) \in 1..n
        BY <1>1, <3>2, <4>1
      <4> HIDE DEF P
      <4>3. n + 1 # P(n + 1)
        BY <4>2
      <4>4. QED
        BY <3>2, <4>3
    <3>3. QED
      BY <3>1, <3>2
  <2> HIDE DEF P
  <2>2. QED
    BY <2>1
<1>5. 1..(n + 1) = 1..n \cup {n + 1}
  OBVIOUS
<1> HIDE DEF F, L
<1>6. QED
  BY <1>2, <1>3, <1>4, <1>5
\* The wizard's requests write the registry by adding applicants, and no case but
\* the submission's.
LEMMA OwnWrites ==
  ASSUME RowsTyped, NEW w \in Callers, Outcome(w),
         requests[w].op \in {"person", "lookup", "create", "add", "ready", "start"}
  PROVE  /\ \A a \in Applicants : registry[a].state # "UNBORN" => registry'[a] = registry[a]
         /\ requests[w].op \in {"person", "lookup", "start"} => cases' = cases
         /\ requests[w].op \in {"add", "ready"} =>
              \A c \in Cases : c # requests[w].case => cases'[c] = cases[c]
<1>1. CASE UNCHANGED rows \/ (queued' \subseteq Cases /\ UNCHANGED <<cases, registry, clients, overtaken>>)
  BY <1>1 DEF rows
<1>2. ASSUME NEW c \in Cases, NEW row \in CaseRow, Created(w, c, row) \/ Written(w, c, row)
      PROVE  /\ registry' = registry /\ requests[w].op \in CaseOps \cup {"create"}
             /\ requests[w].op # "create" =>
                  \A d \in Cases : d # requests[w].case => cases'[d] = cases[d]
  BY <1>2 DEF Created, Written, CaseWritten, RowsTyped
<1>3. CASE RegistryWritten(w)
  BY <1>3 DEF RegistryWritten, Added, RowsTyped
<1>4. QED
  BY <1>1, <1>2, <1>3 DEF Outcome, CaseOps

\* A step of the API for the wizard: the rows it writes are those the submission's
\* progress counts.
LEMMA WizardServed ==
  ASSUME BookingInv, BookingAssumption, ConsoleAssumption, SubmissionInv, Handle(Wizard)
  PROVE  SubmissionInv'
<1> DEFINE q == requests[Wizard]
           r == requests'[Wizard]
           c == task.case
<1>1. /\ Wizard \in Callers /\ Serve(Wizard) /\ RowsTyped /\ RequestsTyped
      /\ UNCHANGED <<task, mine, touched, spent>>
  BY Console DEF Handle, BookingInv
<1>2. RequestMoves(Wizard) /\ Outcome(Wizard) /\ UnderWay(q)
  BY <1>1, Served, ServesOp
<1>3. q.pc \notin {"idle", "done"}
  BY <1>2 DEF UnderWay, Steps
<1>4. task.pc \in DOMAIN Operation /\ q.op = Operation[task.pc] /\ r.op = q.op
  BY <1>2, <1>3 DEF SubmissionInv, WizardAsks, RequestMoves
<1>5. /\ task.pc \in {"resolve", "lookup"} => q.passport = task.list[Len(task.ids) + 1].passport
      /\ task.pc \in {"attach", "mark", "start"} => q.case = c
      /\ task.pc = "attach" => /\ q.applicant = task.ids[task.next] /\ q.position = task.next
                               /\ q.primary = AsPrimary(task.next)
  BY <1>3 DEF SubmissionInv, WizardAsks
<1>6. CountersTyped' /\ Fits(task)'
  BY <1>1 DEF SubmissionInv, CountersTyped, Fits, Complete, SinglePrimary
<1>7. /\ \A a \in Applicants : registry[a].state # "UNBORN" => registry'[a] = registry[a]
      /\ q.op \in {"person", "lookup", "start"} => cases' = cases
      /\ q.op \in {"add", "ready"} => \A d \in Cases : d # q.case => cases'[d] = cases[d]
  BY <1>1, <1>2, <1>4, Operations, OwnWrites
<1>8. PeopleKnown'
  <2>1. ASSUME NEW a \in Applicants, NEW p, KnownAs(a, p) PROVE KnownAs(a, p)'
    BY <1>1, <1>7, <2>1 DEF KnownAs
  <2>2. \A i \in 1..Len(task.ids) : task.ids[i] \in Applicants
    BY ElementOfSeq DEF SubmissionInv, Fits, Submission
  <2>3. QED
    BY <1>1, <2>1, <2>2 DEF SubmissionInv, PeopleKnown
<1>9. Twins' \subseteq Twins => TwinsLost'
  <2>1. SUFFICES ASSUME Twins' \subseteq Twins PROVE TwinsLost'
    OBVIOUS
  <2>2. IsFiniteSet(Twins)
    BY FS_Subset DEF SubmissionInv, CountersTyped, Twins
  <2>3. Cardinality(Twins') <= Cardinality(Twins) /\ Cardinality(Twins) \in Nat /\ Cardinality(Twins') \in Nat
    BY <2>1, <2>2, FS_Subset, FS_CardinalityType
  <2>4. QED
    BY <1>1, <2>3 DEF SubmissionInv, CountersTyped, TwinsLost
<1>10. ASSUME r.pc # "done"
       PROVE  /\ UnderWay(r)
              /\ q.op \in {"person", "lookup"} => r.passport = q.passport
              /\ q.op \in {"add", "ready", "start"} => r.case = q.case
              /\ q.op = "add" => /\ r.applicant = q.applicant /\ r.position = q.position
                                 /\ r.primary = q.primary
  <2>1. UnderWay(r) /\ \A f \in Inputs \cap DOMAIN q : r[f] = q[f]
    BY <1>2, <1>10 DEF RequestMoves, Answered
  <2>2. /\ q.op \in {"person", "lookup"} => "passport" \in DOMAIN q
        /\ q.op \in {"add", "ready", "start"} => "case" \in DOMAIN q
        /\ q.op = "add" => {"applicant", "position", "primary"} \subseteq DOMAIN q
    BY <1>2 DEF UnderWay, Accepted, Fields
  <2>3. QED
    BY <2>1, <2>2 DEF Inputs
<1>11. ASSUME task.pc = "attach" /\ r.pc = "unset" => r.primary
       PROVE  WizardAsks'
  <2>1. r.pc # "done" =>
          /\ task.pc \in {"resolve", "lookup"} => r.passport = task.list[Len(task.ids) + 1].passport
          /\ task.pc \in {"attach", "mark", "start"} => r.case = c
          /\ task.pc = "attach" => /\ r.applicant = task.ids[task.next] /\ r.position = task.next
                                   /\ r.primary = AsPrimary(task.next)
    BY <1>4, <1>5, <1>10, Operations
  <2>2. task.pc = "resolve" => task.list[Len(task.ids) + 1].id = None
    BY <1>3 DEF SubmissionInv, WizardAsks
  <2>3. QED
    BY <1>1, <1>4, <1>11, <2>1, <2>2 DEF WizardAsks, AsPrimary
<1>12. CASE task.pc \in {"resolve", "lookup"}
  <2>1. q.op \in {"person", "lookup"} /\ cases' = cases
    BY <1>4, <1>7, <1>12, Operations
  <2>2. PersonFound'
    BY <1>1, <1>4, <1>5, <1>12, <2>1, Operations, PersonServed DEF PersonFound, KnownAs
  <2>3. CaseProgress' /\ CaseCreated'
    BY <1>1, <1>12 DEF CaseProgress, CaseCreated, HasCase
  <2>4. Twins' = Twins
    BY <1>1, <2>1 DEF Twins, Going
  <2>5. QED
    BY <1>6, <1>8, <1>9, <1>11, <1>12, <2>2, <2>3, <2>4 DEF SubmissionInv
<1>13. CASE task.pc = "create"
  <2>1. CreateCase(Wizard)
    BY <1>1, <1>4, <1>13, Operations, ServesOp
  <2>2. \/ cases' = cases /\ ~ r.ok
        \/ \E d \in Cases, row \in CaseRow : Created(Wizard, d, row)
    BY <1>1, <2>1, Creating DEF rows
  <2>3. ASSUME NEW d \in Cases, NEW row \in CaseRow, Created(Wizard, d, row)
        PROVE  /\ r.id = d /\ cases'[d].links = {} /\ cases'[d].status = "DRAFT"
               /\ \A e \in Cases : e # d => cases'[e] = cases[e]
    BY <1>1, <2>3 DEF Created, CaseWritten, RowsTyped
  <2>4. CaseCreated'
    BY <2>2, <2>3 DEF CaseCreated, Succeeded
  <2>5. CaseProgress' /\ PersonFound'
    BY <1>1, <1>13 DEF CaseProgress, PersonFound, HasCase
  <2>6. Twins' \subseteq Twins
    BY <1>1, <1>13, <2>2, <2>3 DEF Twins, Going, HasCase, SubmissionInv, CountersTyped
  <2>7. QED
    BY <1>6, <1>8, <1>9, <1>11, <1>13, <2>4, <2>5, <2>6 DEF SubmissionInv
<1>14. ASSUME task.pc \in {"attach", "mark", "start"}
       PROVE  /\ CaseCreated' /\ PersonFound' /\ Twins' \subseteq Twins
              /\ c \in Cases /\ cases \in [Cases -> CaseRow] /\ task.pc \in HasCase
              /\ ~ Succeeded
  <2>1. CaseCreated' /\ PersonFound' /\ task.pc \in HasCase
    BY <1>1, <1>14 DEF CaseCreated, PersonFound, HasCase
  <2>2. c \in Cases /\ \A d \in Cases : d # c => cases'[d] = cases[d]
    BY <1>4, <1>5, <1>7, <1>14, Operations DEF SubmissionInv, Fits, HasCase
  <2>3. Twins' \subseteq Twins
    BY <1>1, <2>1, <2>2 DEF Twins, Going, SubmissionInv, CountersTyped
  <2>4. QED
    BY <1>1, <1>3, <2>1, <2>2, <2>3 DEF RowsTyped, Succeeded
<1>15. CASE task.pc = "attach"
  <2> DEFINE links == cases[c].links
             known == c \notin touched.cases
             got == Cleared(q, links) \cup
                      {[applicant |-> q.applicant, position |-> Wanted(q), primary |-> q.primary]}
  <2>1. \/ cases' = cases /\ r.pc = "check"
        \/ cases' = cases /\ r.pc = "done" /\ ~r.ok
        \/ cases' = cases /\ r.pc = "unset" /\ q.primary
        \/ cases' = cases /\ r.pc = "write" /\ ~q.primary /\ r.cleared = {}
        \/ /\ cases' = cases /\ q.pc = "unset" /\ r.pc = "write"
           /\ r.cleared = Holders(links)
        \/ /\ q.pc = "write" /\ r.pc = "done" /\ r.ok
           /\ cases' = [cases EXCEPT ![c].links = got]
    <3>1. q.op = "add" /\ q.case = c
      BY <1>4, <1>5, <1>15, Operations
    <3>2. \/ cases' = cases /\ r.pc = "check"
          \/ cases' = cases /\ r.pc = "done" /\ ~r.ok
          \/ cases' = cases /\ r.pc = "unset" /\ q.primary
          \/ cases' = cases /\ r.pc = "write" /\ ~q.primary /\ r.cleared = {}
          \/ /\ cases' = cases /\ q.pc = "unset" /\ r.pc = "write"
             /\ r.cleared = Holders(cases[q.case].links)
          \/ /\ q.pc = "write" /\ r.pc = "done" /\ r.ok
             /\ cases' = [cases EXCEPT ![q.case].links = Cleared(q, cases[q.case].links) \cup
                 {[applicant |-> q.applicant, position |-> Wanted(q), primary |-> q.primary]}]
      BY <1>1, <3>1, AddServed
    <3>3. QED
      BY <3>1, <3>2
  <2>2. /\ task.next \in 1..Len(task.list) /\ task.list \in Seq(Entry)
        /\ SinglePrimary(task.list)
    BY <1>15 DEF SubmissionInv, Fits, Submission, Complete, HasCase
  <2>3. /\ Len(task.list) \in Nat /\ DOMAIN task.list = 1..Len(task.list)
        /\ \A i \in DOMAIN task.list : task.list[i].primary \in BOOLEAN
    <3>1. \A i \in 1..Len(task.list) : task.list[i] \in Entry
      BY <2>2, ElementOfSeq
    <3>2. Len(task.list) \in Nat /\ DOMAIN task.list = 1..Len(task.list)
      BY <2>2, LenProperties
    <3>3. \A i \in 1..Len(task.list) : task.list[i].primary \in BOOLEAN
      BY <3>1 DEF Entry
    <3>4. QED
      BY <3>2, <3>3
  <2>4. PICK n \in Nat :
          /\ n + 1 = task.next /\ n = task.next - 1 /\ task.next \in Nat
          /\ 1..(n + 1) \subseteq DOMAIN task.list
    <3>1. /\ task.next \in Nat /\ task.next - 1 \in Nat /\ (task.next - 1) + 1 = task.next
          /\ 1..task.next \subseteq DOMAIN task.list
      <4>1. /\ task.next \in 1..Len(task.list) /\ Len(task.list) \in Nat
            /\ DOMAIN task.list = 1..Len(task.list)
        BY <2>2, <2>3
      <4>2. QED
        BY ONLY <4>1
    <3>2. PICK n \in Nat : n = task.next - 1
      BY <3>1
    <3>3. n + 1 = task.next
      BY <3>1, <3>2
    <3>4. QED
      BY <3>1, <3>2, <3>3
  <2>5. known => /\ links = AttachedLinks(task, n) /\ cases[c].status = "DRAFT"
                 /\ q.pc = "write" => q.cleared =
                      IF q.primary THEN Holders(links) ELSE {}
    BY <1>14, <1>15, <2>4 DEF SubmissionInv, CaseProgress, Attached
  <2>6. r.pc \in {"unset", "write"} => r.primary = q.primary
    BY <1>4, <1>10, <1>15, Operations
  <2>7. q.pc = "unset" => q.primary
    BY <1>3, <1>15 DEF SubmissionInv, WizardAsks
  <2>8. WizardAsks'
    <3>1. r.pc = "unset" => r.primary
      BY <2>1, <2>6
    <3>2. QED
      BY <1>11, <3>1
  <2>9. CaseProgress'
    <3>1. SUFFICES ASSUME known PROVE CaseProgress'
      BY <1>1 DEF CaseProgress
    <3>2. CASE cases' = cases /\ ~ (r.pc = "done" /\ r.ok)
      <4>1. Attached' = n
        BY <1>1, <1>15, <2>4, <3>2 DEF Attached, Succeeded
      <4>2. cases'[c].links = AttachedLinks(task, Attached)'
        BY <1>1, <2>5, <3>1, <3>2, <4>1 DEF AttachedLinks, PrimaryAmong
      <4>3. r.pc = "write" => r.cleared =
              IF r.primary THEN Holders(cases'[c].links) ELSE {}
        BY <2>1, <2>6, <2>7, <3>2
      <4>4. QED
        BY <1>1, <1>15, <2>5, <3>1, <3>2, <4>2, <4>3 DEF CaseProgress
    <3>3. CASE /\ q.pc = "write" /\ r.pc = "done" /\ r.ok
               /\ cases' = [cases EXCEPT ![c].links = got]
      <4>1. Attached' = task.next
        BY <1>1, <1>15, <3>3 DEF Attached, Succeeded
      <4>2. Wanted(q) = n + 1
        BY <1>5, <1>15, <2>4 DEF Wanted, BookingAssumption
      <4>3. q.primary = (task.list[n + 1].primary \/ n + 1 = 1) /\ q.applicant = task.ids[n + 1]
        BY <1>5, <1>15, <2>4 DEF AsPrimary
      <4>4. got = AttachedLinks(task, n + 1)
        <5>1. q.cleared = IF q.primary
                THEN Holders(AttachedLinks(task, n)) ELSE {}
          BY <2>5, <3>1, <3>3
        <5>2. Cleared(q, AttachedLinks(task, n)) \cup
                {[applicant |-> task.ids[n + 1], position |-> n + 1, primary |-> q.primary]}
              = AttachedLinks(task, n + 1)
          <6>1. 1..(n + 1) \subseteq DOMAIN task.list
            BY <2>4
          <6>2. SinglePrimary(task.list)
            BY <2>2
          <6>3. \A i \in DOMAIN task.list : task.list[i].primary \in BOOLEAN
            BY <2>3
          <6>4. q.primary = (task.list[n + 1].primary \/ n + 1 = 1)
            BY <4>3
          <6> HIDE DEF q
          <6>5. QED
            BY <5>1, <6>1, <6>2, <6>3, <6>4, AttachedOneMore
        <5>3. QED
          BY <2>5, <3>1, <4>2, <4>3, <5>2
      <4> HIDE DEF got
      <4>5. cases'[c].links = got /\ cases'[c].status = cases[c].status
        BY <1>14, <1>15, <3>3 DEF CaseRow
      <4>6. cases'[c].links = AttachedLinks(task, Attached)'
        BY <1>1, <2>4, <4>1, <4>4, <4>5 DEF AttachedLinks, PrimaryAmong
      <4>7. QED
        BY <1>1, <1>15, <2>5, <3>1, <3>3, <4>5, <4>6 DEF CaseProgress
    <3>4. QED
      BY <2>1, <3>2, <3>3
  <2>10. QED
    BY <1>6, <1>8, <1>9, <1>14, <1>15, <2>8, <2>9 DEF SubmissionInv
<1>16. CASE task.pc \in {"mark", "start"}
  <2>1. /\ Attached = Len(task.list) /\ Attached' = Len(task.list)
        /\ AttachedLinks(task, Attached)' = AttachedLinks(task, Attached)
    <3>1. Attached = Len(task.list) /\ Attached' = Len(task.list)
      BY <1>1, <1>16 DEF Attached
    <3>2. AttachedLinks(task, Len(task.list))' = AttachedLinks(task, Len(task.list))
      BY <1>1 DEF AttachedLinks, PrimaryAmong
    <3>3. QED
      BY <1>1, <3>1, <3>2 DEF AttachedLinks
  <2>2. WizardAsks'
    BY <1>11, <1>16
  <2>3. CASE task.pc = "mark"
    <3>1. \/ cases' = cases /\ ~ (r.pc = "done" /\ r.ok)
          \/ cases' = [cases EXCEPT ![c].status = "READY"] /\ r.pc = "done" /\ r.ok
      <4>1. \/ cases' = cases /\ r.pc = "write"
            \/ cases' = cases /\ r.pc = "done" /\ ~r.ok
            \/ cases' = [cases EXCEPT ![c].status = "READY"] /\ r.pc = "done" /\ r.ok
        BY <1>1, <1>4, <1>5, <2>3, Operations, MarkServed
      <4>2. QED
        BY <4>1
    <3>2. CaseProgress'
      <4>1. CASE cases' = cases /\ ~ (r.pc = "done" /\ r.ok)
        <5>1. ~ Succeeded /\ ~ Succeeded'
          BY <1>14, <2>3, <4>1 DEF Succeeded
        <5>2. QED
          BY <1>1, <1>14, <2>1, <2>3, <4>1, <5>1 DEF SubmissionInv, CaseProgress
      <4>2. CASE cases' = [cases EXCEPT ![c].status = "READY"] /\ r.pc = "done" /\ r.ok
        <5>1. cases'[c].status = "READY" /\ cases'[c].links = cases[c].links
          BY <1>14, <2>3, <4>2 DEF CaseRow
        <5>2. Succeeded' /\ Going(c)'
          BY <1>1, <4>2, <5>1 DEF Succeeded, Going
        <5>3. QED
          BY <1>1, <1>14, <2>1, <2>3, <5>1, <5>2 DEF SubmissionInv, CaseProgress
      <4>3. QED
        BY <3>1, <4>1, <4>2
    <3>3. QED
      BY <1>6, <1>8, <1>9, <1>14, <2>2, <2>3, <3>2 DEF SubmissionInv
  <2>4. CASE task.pc = "start"
    <3>1. cases' = cases
      BY <1>4, <1>7, <2>4, Operations
    <3>2. CaseProgress'
      BY <1>1, <1>14, <2>1, <2>4, <3>1 DEF SubmissionInv, CaseProgress, Going
    <3>3. QED
      BY <1>6, <1>8, <1>9, <1>14, <2>2, <2>4, <3>2 DEF SubmissionInv
  <2>5. QED
    BY <1>16, <2>3, <2>4
<1>17. QED
  BY <1>4, <1>12, <1>13, <1>15, <1>16, Operations
\* What the wizard asks is a request the API accepts, with the values of its step.
LEMMA RequestFits ==
  ASSUME Fits(task), Working, ConsoleAssumption
  PROVE  LET q == Request IN
         /\ UnderWay(q) /\ "seen" \notin DOMAIN q /\ q.pc = "read"
         /\ task.pc \in DOMAIN Operation /\ q.op = Operation[task.pc]
         /\ task.pc \in {"resolve", "lookup"} => q.passport = task.list[Len(task.ids) + 1].passport
         /\ task.pc \in {"attach", "mark", "start"} => q.case = task.case
         /\ task.pc = "attach" => /\ q.applicant = task.ids[task.next] /\ q.position = task.next
                                  /\ q.primary = AsPrimary(task.next)
<1> DEFINE p == task.list[Len(task.ids) + 1].passport
<1>1. /\ task \in Submission /\ Complete(task) /\ task.pc \notin {"none", "left"}
      /\ task.list \in Seq(Entry) /\ task.ids \in Seq(Applicants)
  BY DEF Working, Fits, Submission
<1>2. /\ Len(task.list) \in Nat /\ Len(task.ids) \in Nat
      /\ DOMAIN task.list = 1..Len(task.list)
      /\ \A i \in 1..Len(task.list) :
           /\ task.list[i] \in Entry /\ task.list[i].passport \in Passports
           /\ task.list[i].primary \in BOOLEAN
      /\ \A i \in 1..Len(task.ids) : task.ids[i] \in Applicants
  <2>1. \A i \in 1..Len(task.list) : task.list[i] \in Entry
    BY <1>1, ElementOfSeq
  <2>2. \A i \in 1..Len(task.ids) : task.ids[i] \in Applicants
    BY <1>1, ElementOfSeq
  <2>3. Len(task.ids) \in Nat /\ Len(task.list) \in Nat /\ DOMAIN task.list = 1..Len(task.list)
    BY <1>1, LenProperties
  <2>4. \A i \in 1..Len(task.list) :
          task.list[i].passport \in Passports /\ task.list[i].primary \in BOOLEAN
    BY <1>1, <2>1, <2>3 DEF Complete, Entry
  <2>5. QED
    BY <2>1, <2>2, <2>3, <2>4
<1>3. task.pc \in {"resolve", "lookup"} => p \in Passports
  <2>1. task.pc \in {"resolve", "lookup"} => Len(task.ids) < Len(task.list)
    BY DEF Fits
  <2>2. task.pc \in {"resolve", "lookup"} => Len(task.ids) + 1 \in 1..Len(task.list)
    BY <1>2, <2>1
  <2>3. QED
    BY <1>2, <2>2
<1> HIDE DEF p
<1>4. CASE task.pc = "resolve"
  <2>1. Request = [op |-> "person", pc |-> "read", client |-> None, passport |-> p,
                   expiry |-> Valid]
    BY <1>4 DEF Request, p
  <2>2. UnderWay(Request)
    BY <1>3, <1>4, <2>1, Console DEF UnderWay, Accepted, Valued, Fields, Steps, CaseOps
  <2>3. QED
    BY <1>4, <2>1, <2>2, Operations DEF p
<1>5. CASE task.pc = "lookup"
  <2>1. Request = [op |-> "lookup", pc |-> "read", passport |-> p]
    BY <1>5 DEF Request, p
  <2>2. UnderWay(Request)
    BY <1>3, <1>5, <2>1 DEF UnderWay, Accepted, Valued, Fields, Steps, CaseOps
  <2>3. QED
    BY <1>5, <2>1, <2>2, Operations DEF p
<1>6. CASE task.pc = "create"
  <2>1. Request = [op |-> "create", pc |-> "read", route |-> task.route, split |-> FALSE,
                   travel |-> None]
    BY <1>6 DEF Request
  <2>2. UnderWay(Request)
    BY <1>1, <2>1 DEF UnderWay, Accepted, Valued, Fields, Steps, CaseOps, Complete
  <2>3. QED
    BY <1>6, <2>1, <2>2, Operations
<1>7. CASE task.pc = "attach"
  <2> DEFINE i == task.next
             primary == AsPrimary(i)
  <2>1. Request = [op |-> "add", pc |-> "read", case |-> task.case,
                   applicant |-> task.ids[i], position |-> i, primary |-> primary]
    BY <1>7 DEF Request
  <2>2. /\ task.case \in Cases /\ Len(task.ids) = Len(task.list)
        /\ i \in 1..Len(task.list)
    BY <1>7 DEF Fits, HasCase
  <2>3. task.ids[i] \in Applicants /\ i \in Positions
    BY <1>2, <2>2 DEF Positions
  <2>4. primary \in BOOLEAN
    BY <1>2, <2>2 DEF AsPrimary
  <2> HIDE DEF primary
  <2>5. UnderWay(Request)
    BY <2>1, <2>2, <2>3, <2>4 DEF UnderWay, Accepted, Valued, Fields, Steps, CaseOps
  <2>6. QED
    BY <1>7, <2>1, <2>5, Operations DEF primary
<1>8. CASE task.pc \in {"mark", "start"}
  <2>1. /\ Request = [op |-> Operation[task.pc], pc |-> "read", case |-> task.case]
        /\ Operation[task.pc] \in {"ready", "start"} /\ task.case \in Cases
    BY <1>8, Operations DEF Request, Fits, HasCase
  <2>2. UnderWay(Request)
    BY <2>1 DEF UnderWay, Accepted, Valued, Fields, Steps, CaseOps
  <2>3. QED
    BY <1>8, <2>1, <2>2, Operations
<1>9. QED
  BY <1>1, <1>4, <1>5, <1>6, <1>7, <1>8 DEF Submission

\* Sending the next request.
LEMMA SendKeeps ==
  ASSUME BookingInv, SubmissionInv, ConsoleAssumption, Send
  PROVE  BookingInv' /\ SubmissionInv'
<1>1. /\ requests[Wizard].pc = "idle" /\ requests' = [requests EXCEPT ![Wizard] = Request]
      /\ UNCHANGED rows /\ UNCHANGED <<task, mine, touched, spent>>
      /\ Working /\ Wizard \in Callers
      /\ task.pc = "resolve" => task.list[Len(task.ids) + 1].id = None
  BY Console DEF Send, Issue
<1>2. /\ UnderWay(Request) /\ "seen" \notin DOMAIN Request /\ Request.pc = "read"
      /\ task.pc \in DOMAIN Operation /\ Request.op = Operation[task.pc]
      /\ task.pc \in {"resolve", "lookup"} => Request.passport = task.list[Len(task.ids) + 1].passport
      /\ task.pc \in {"attach", "mark", "start"} => Request.case = task.case
      /\ task.pc = "attach" => /\ Request.applicant = task.ids[task.next]
                               /\ Request.position = task.next
                               /\ Request.primary = AsPrimary(task.next)
  BY <1>1, RequestFits DEF SubmissionInv
<1>3. BookingInv'
  BY <1>1, <1>2, RequestInv
<1>4. requests'[Wizard] = Request
  BY <1>1 DEF BookingInv, RequestsTyped
<1>5. WizardAsks'
  BY <1>1, <1>2, <1>4 DEF WizardAsks, AsPrimary
<1>6. CountersTyped' /\ Fits(task)' /\ PeopleKnown' /\ TwinsLost'
  BY <1>1 DEF SubmissionInv, CountersTyped, Fits, Complete, SinglePrimary, PeopleKnown, KnownAs,
    TwinsLost, Twins, Going, rows
<1>7. CaseCreated' /\ PersonFound'
  BY <1>2, <1>4 DEF CaseCreated, PersonFound, Succeeded
<1>8. CaseProgress'
  <2>1. ~ Succeeded /\ ~ Succeeded'
    BY <1>1, <1>2, <1>4 DEF Succeeded
  <2>2. Attached' = Attached
    BY <1>1, <2>1 DEF Attached
  <2>3. AttachedLinks(task, Attached)' = AttachedLinks(task, Attached)
    BY <1>1, <2>2 DEF AttachedLinks, PrimaryAmong
  <2>4. QED
    BY <1>1, <1>2, <1>4, <2>1, <2>3 DEF SubmissionInv, CaseProgress, Going, rows
<1>9. QED
  BY <1>3, <1>5, <1>6, <1>7, <1>8 DEF SubmissionInv
-----------------------------------------------------------------------------
(* The answers the wizard takes                                            *)

\* An applicant that has its id: the submission goes to the next one, or on.
LEMMA ResolvedFits ==
  ASSUME Fits(task), PeopleKnown, task.pc \in {"resolve", "lookup"}, NEW id \in Applicants,
         task.list[Len(task.ids) + 1].id = None =>
           KnownAs(id, task.list[Len(task.ids) + 1].passport)
  PROVE  LET t == Resolved(id) IN
         /\ Fits(t) /\ t.pc \notin HasCase
         /\ \A i \in 1..Len(t.ids) : t.list[i].id = None => KnownAs(t.ids[i], t.list[i].passport)
<1> DEFINE n == Len(task.ids)
           pc == IF n + 1 = Len(task.list) THEN "create" ELSE "resolve"
           ids == Append(task.ids, id)
           t == Resolved(id)
<1>1. /\ task \in Submission /\ task.ids \in Seq(Applicants) /\ task.list \in Seq(Entry)
      /\ n \in Nat /\ Len(task.list) \in Nat /\ n < Len(task.list) /\ Complete(task)
  BY LenProperties DEF Fits, Submission
<1>2. /\ ids \in Seq(Applicants) /\ Len(ids) = n + 1 /\ ids[n + 1] = id
      /\ \A i \in 1..n : ids[i] = task.ids[i]
  BY <1>1, AppendProperties
<1>3. pc \in {"create", "resolve"} /\ (pc = "create" <=> n + 1 = Len(task.list))
  OBVIOUS
<1>4. t = [task EXCEPT !.ids = ids, !.pc = pc]
  BY DEF Resolved
<1> HIDE DEF t, ids, pc, n
<1>5. /\ t \in Submission /\ t.ids = ids /\ t.pc = pc /\ t.list = task.list
      /\ t.route = task.route
  BY <1>1, <1>2, <1>3, <1>4 DEF Submission
<1>6. Complete(t)
  BY <1>1, <1>5 DEF Complete, SinglePrimary
<1>7. Fits(t) /\ t.pc \notin HasCase
  <2>1. pc = "resolve" => n + 1 < Len(task.list)
    BY <1>1, <1>3
  <2>2. QED
    BY <1>2, <1>3, <1>5, <1>6, <2>1 DEF Fits, HasCase
<1>8. ASSUME NEW i \in 1..Len(t.ids), t.list[i].id = None
      PROVE  KnownAs(t.ids[i], t.list[i].passport)
  <2>1. i \in 1..n \/ i = n + 1
    BY <1>1, <1>2, <1>5
  <2>2. QED
    BY <1>2, <1>5, <1>8, <2>1 DEF PeopleKnown, n
<1>9. QED
  BY <1>7, <1>8 DEF t

\* After an answer nothing is asked: what is left to show.
LEMMA NothingAsked ==
  ASSUME requests'[Wizard].pc = "idle",
         CountersTyped', Fits(task)', PeopleKnown', CaseProgress', TwinsLost'
  PROVE  SubmissionInv'
<1>1. WizardAsks'
  BY DEF WizardAsks
<1>2. CaseCreated' /\ PersonFound'
  BY DEF CaseCreated, PersonFound, Succeeded
<1>3. QED
  BY <1>1, <1>2 DEF SubmissionInv

\* No more cases of earlier submissions are going, but one when an answer was lost.
LEMMA TwinsCount ==
  ASSUME CountersTyped, CountersTyped', TwinsLost, NEW c,
         \/ Twins' \subseteq Twins /\ spent'.lost >= spent.lost
         \/ Twins' \subseteq Twins \cup {c} /\ spent'.lost = spent.lost + 1
  PROVE  TwinsLost'
<1>1. IsFiniteSet(Twins) /\ Cardinality(Twins) \in Nat
  BY FS_Subset, FS_CardinalityType DEF CountersTyped, Twins
<1>2. spent.lost \in Nat /\ spent'.lost \in Nat /\ Cardinality(Twins) <= spent.lost
  BY DEF CountersTyped, TwinsLost
<1>3. CASE Twins' \subseteq Twins /\ spent'.lost >= spent.lost
  <2>1. Cardinality(Twins') <= Cardinality(Twins) /\ Cardinality(Twins') \in Nat
    BY <1>1, <1>3, FS_Subset, FS_CardinalityType
  <2>2. QED
    BY <1>1, <1>2, <1>3, <2>1 DEF TwinsLost
<1>4. CASE Twins' \subseteq Twins \cup {c} /\ spent'.lost = spent.lost + 1
  <2>1. /\ IsFiniteSet(Twins \cup {c})
        /\ Cardinality(Twins \cup {c}) = Cardinality(Twins)
             \/ Cardinality(Twins \cup {c}) = Cardinality(Twins) + 1
    BY <1>1, FS_AddElement
  <2>2. /\ Cardinality(Twins') <= Cardinality(Twins \cup {c}) /\ Cardinality(Twins') \in Nat
        /\ Cardinality(Twins \cup {c}) \in Nat
    BY <1>4, <2>1, FS_Subset, FS_CardinalityType
  <2>3. QED
    BY <1>1, <1>2, <1>4, <2>1, <2>2 DEF TwinsLost
<1>5. QED
  BY <1>3, <1>4

\* Starting a submission from a list that the form lets through.
LEMMA SubmitKeeps ==
  ASSUME RequestsTyped, ConsoleAssumption, FormInv, SubmissionInv,
         NEW ready \in BOOLEAN, NEW start \in BOOLEAN, Submit(ready, start)
  PROVE  SubmissionInv'
<1>1. /\ task.pc = "none" /\ UNCHANGED <<bookingVars, mine, touched>>
      /\ spent' = [spent EXCEPT !.tries = @ + 1]
      /\ \/ task' = task
         \/ /\ route # None /\ list # <<>> /\ ~Incomplete(list)
            /\ task' = [NoTask EXCEPT !.pc = "resolve", !.ready = ready, !.start = start,
                          !.list = list, !.route = route]
  BY DEF Submit
<1>2. UNCHANGED <<cases, registry, requests>>
  BY <1>1 DEF bookingVars
<1>3. spent' \in [saves : Nat, page : Nat, script : Nat, lost : Nat, tries : Nat]
      /\ spent'.lost = spent.lost
  <2>1. /\ spent \in [saves : Nat, page : Nat, script : Nat, lost : Nat, tries : Nat]
        /\ spent' = [spent EXCEPT !.tries = @ + 1]
    BY <1>1 DEF SubmissionInv, CountersTyped
  <2>2. QED
    BY ONLY <2>1
<1>4. CASE task' = task
  <2>1. OthersMove
    BY <1>1, <1>2, <1>3, <1>4 DEF OthersMove, SubmissionInv, CountersTyped
  <2>2. QED
    BY <2>1, OthersKeep
<1>5. CASE /\ route # None /\ list # <<>> /\ ~Incomplete(list)
           /\ task' = [NoTask EXCEPT !.pc = "resolve", !.ready = ready, !.start = start,
                         !.list = list, !.route = route]
  <2>1. requests'[Wizard].pc = "idle"
    BY <1>1, <1>2, Operations DEF SubmissionInv, WizardAsks
  <2>2. task' = [pc |-> "resolve", ready |-> ready, start |-> start, list |-> list,
                 route |-> route, ids |-> <<>>, case |-> None, next |-> 0]
    BY <1>5 DEF NoTask
  <2>3. /\ list \in Seq(Entry) /\ route \in Routes /\ SinglePrimary(list)
        /\ Len(list) \in Nat \ {0} /\ DOMAIN list = 1..Len(list)
        /\ \A i \in DOMAIN list : list[i].passport # None
    <3>1. list \in Seq(Entry) /\ route \in Routes /\ SinglePrimary(list)
      BY <1>5 DEF FormInv, FormTyped
    <3>2. Len(list) \in Nat \ {0} /\ DOMAIN list = 1..Len(list)
      BY <1>5, <3>1, EmptySeq, LenProperties
    <3>3. \A i \in 1..Len(list) : list[i] # Hole
      BY <1>5 DEF Incomplete, Contains
    <3>4. QED
      BY <3>1, <3>2, <3>3 DEF FormInv, FormTyped
  <2>4. <<>> \in Seq(Applicants) /\ Len(<<>>) = 0
    BY EmptySeq
  <2>5. Fits(task')
    <3>1. task' \in Submission
      BY <2>2, <2>3, <2>4 DEF Submission
    <3>2. Complete(task')
      BY <1>5, <2>2, <2>3 DEF Complete, SinglePrimary
    <3>3. Len(task'.ids) < Len(task'.list)
      BY <2>2, <2>3, <2>4
    <3>4. QED
      BY <2>2, <3>1, <3>2, <3>3 DEF Fits, HasCase
  <2>6. CountersTyped'
    BY <1>1, <1>3 DEF SubmissionInv, CountersTyped
  <2>7. CaseProgress' /\ PeopleKnown'
    <3>1. 1..Len(task'.ids) = {}
      BY <2>2, <2>4
    <3>2. QED
      BY <2>2, <3>1 DEF CaseProgress, PeopleKnown, HasCase
  <2>8. TwinsLost'
    <3>1. Twins' = Twins
      BY <1>1, <1>2, <2>2 DEF Twins, Going, HasCase
    <3>2. QED
      BY <1>3, <3>1 DEF SubmissionInv, TwinsLost
  <2>9. Fits(task)'
    BY <2>5 DEF Fits, Complete, SinglePrimary
  <2>10. QED
    BY <2>1, <2>6, <2>7, <2>8, <2>9, NothingAsked
<1>6. QED
  BY <1>1, <1>4, <1>5

\* An applicant the form already knows needs no request.
LEMMA ResolveKeeps ==
  ASSUME SubmissionInv, ResolveKnown
  PROVE  SubmissionInv'
<1> DEFINE known == task.list[Len(task.ids) + 1].id
<1>1. /\ task.pc = "resolve" /\ requests[Wizard].pc = "idle" /\ known # None
      /\ task' = Resolved(known) /\ UNCHANGED <<bookingVars, mine, touched, spent>>
  BY DEF ResolveKnown
<1>2. UNCHANGED <<cases, registry, requests>>
  BY <1>1 DEF bookingVars
<1>3. known \in Applicants
  <2>1. Len(task.ids) \in Nat /\ Len(task.list) \in Nat /\ Len(task.ids) < Len(task.list)
    BY <1>1, LenProperties DEF SubmissionInv, Fits, Submission
  <2>2. Len(task.ids) + 1 \in 1..Len(task.list)
    BY <2>1
  <2>3. task.list[Len(task.ids) + 1] \in Entry
    BY <2>2, ElementOfSeq DEF SubmissionInv, Fits, Submission
  <2>4. QED
    BY <1>1, <2>3 DEF Entry
<1>4. LET t == Resolved(known) IN
      /\ Fits(t) /\ t.pc \notin HasCase
      /\ \A i \in 1..Len(t.ids) : t.list[i].id = None => KnownAs(t.ids[i], t.list[i].passport)
  BY <1>1, <1>3, ResolvedFits DEF SubmissionInv
<1> HIDE DEF known
<1>5. Fits(task)' /\ PeopleKnown'
  BY <1>1, <1>2, <1>4 DEF Fits, Complete, SinglePrimary, PeopleKnown, KnownAs
<1>6. CaseProgress'
  BY <1>1, <1>4 DEF CaseProgress
<1>7. TwinsLost' /\ CountersTyped'
  <2>1. Twins' = Twins
    BY <1>1, <1>2, <1>4 DEF Twins, Going, HasCase
  <2>2. QED
    BY <1>1, <2>1 DEF SubmissionInv, TwinsLost, CountersTyped
<1>8. QED
  BY <1>1, <1>2, <1>5, <1>6, <1>7, NothingAsked

\* A submission moves on with its case.
LEMMA MovesOn ==
  ASSUME Fits(task), task.pc \in {"create", "attach", "mark", "start"},
         NEW pc \in HasCase, NEW c \in Cases, NEW n \in Nat,
         pc = "attach" => n \in 1..Len(task.list),
         task' = [task EXCEPT !.pc = pc, !.case = c, !.next = n]
  PROVE  /\ Fits(task') /\ task'.list = task.list /\ task'.ids = task.ids /\ task'.ready = task.ready
         /\ task'.pc = pc /\ task'.case = c /\ task'.next = n
<1>1. /\ task' \in Submission /\ task'.list = task.list /\ task'.ids = task.ids /\ task'.ready = task.ready
      /\ task'.route = task.route /\ task'.pc = pc /\ task'.case = c /\ task'.next = n
  BY DEF Fits, Submission, HasCase
<1>2. Complete(task) /\ Len(task.ids) = Len(task.list)
  BY DEF Fits, HasCase
<1>3. Complete(task')
  BY <1>1, <1>2 DEF Complete, SinglePrimary
<1>4. QED
  BY <1>1, <1>2, <1>3 DEF Fits, HasCase

\* No submission is under way.
LEMMA NoTaskFits ==
  /\ Fits(NoTask) /\ NoTask.pc = "none" /\ 1..Len(NoTask.ids) = {}
<1>1. /\ <<>> \in Seq(Applicants) /\ <<>> \in Seq(Entry) /\ Len(<<>>) = 0
  BY EmptySeq
<1>2. NoTask \in Submission /\ NoTask.ids = <<>> /\ NoTask.pc = "none"
  BY <1>1 DEF NoTask, Submission
<1>3. QED
  BY <1>1, <1>2 DEF Fits, HasCase

\* The links of no rows, and that they are those of the list and its ids only.
LEMMA LinksOf ==
  /\ \A t : AttachedLinks(t, 0) = {}
  /\ \A t, u, n : t.list = u.list /\ t.ids = u.ids => AttachedLinks(t, n) = AttachedLinks(u, n)
<1>1. 1..0 = {}
  OBVIOUS
<1>2. ASSUME NEW t PROVE AttachedLinks(t, 0) = {}
  BY <1>1 DEF AttachedLinks
<1>3. ASSUME NEW t, NEW u, NEW n, t.list = u.list, t.ids = u.ids
      PROVE  AttachedLinks(t, n) = AttachedLinks(u, n)
  BY <1>3 DEF AttachedLinks, PrimaryAmong
<1>4. QED
  BY <1>2, <1>3

\* Taking an answer changes no row.
LEMMA ReceiveBooking ==
  ASSUME BookingInv, ConsoleAssumption, NEW lost \in BOOLEAN, Receive(lost)
  PROVE  BookingInv'
<1>1. /\ requests' = [requests EXCEPT ![Wizard] = Idle] /\ UNCHANGED rows
      /\ Wizard \in Callers /\ "seen" \notin DOMAIN Idle
  BY Console DEF Receive, Idle
<1>2. QED
  BY <1>1, RequestInv

\* An answer, or its loss: the submission goes on by what its request wrote, or ends;
\* a case it leaves going without being told is one lost answer more.
LEMMA ReceiveKeeps ==
  ASSUME BookingInv, SubmissionInv, ConsoleAssumption, BookingAssumption,
         NEW lost \in BOOLEAN, Receive(lost)
  PROVE  SubmissionInv'
<1> DEFINE q == requests[Wizard]
           ok == q.ok /\ ~lost
           id == IF lost THEN None ELSE q.id
           c == task.case
<1>1. /\ q.pc = "done" /\ requests' = [requests EXCEPT ![Wizard] = Idle]
      /\ spent' = [spent EXCEPT !.lost = IF lost THEN @ + 1 ELSE @]
      /\ mine' = IF q.op = "create" /\ q.ok THEN mine \cup {q.id} ELSE mine
      /\ UNCHANGED rows /\ touched' = touched /\ Wizard \in Callers
  BY Console DEF Receive
<1>2. /\ task.pc = "resolve" =>
           \/ id # None /\ task' = Resolved(id)
           \/ id = None /\ task' = [task EXCEPT !.pc = "lookup"]
      /\ task.pc = "lookup" => IF ok THEN task' = Resolved(id) ELSE task' = NoTask
      /\ task.pc = "create" =>
           IF ok THEN task' = [task EXCEPT !.pc = "attach", !.case = id, !.next = 1]
           ELSE task' = NoTask
      /\ task.pc = "attach" =>
           IF ~ok THEN task' = NoTask
           ELSE IF task.next < Len(task.list) THEN task' = [task EXCEPT !.next = @ + 1]
           ELSE task' = [task EXCEPT !.pc = IF task.ready THEN "mark" ELSE "left"]
      /\ task.pc = "mark" =>
           IF ok THEN task' = [task EXCEPT !.pc = IF task.start THEN "start" ELSE "left"]
           ELSE task' = NoTask
      /\ task.pc = "start" => task' = [task EXCEPT !.pc = "left"]
  BY DEF Receive, Goes, Failed
<1>3. /\ Answered(q) /\ q.op = Operation[task.pc] /\ task.pc \in DOMAIN Operation
      /\ task.pc = "create" /\ q.ok => q.id \in Cases
      /\ task.pc = "resolve" /\ q.id # None => q.id \in Applicants
      /\ task.pc = "lookup" /\ q.ok => q.id \in Applicants
  BY <1>1, WizardAnswer DEF SubmissionInv, BookingInv
<1>4. requests'[Wizard] = Idle /\ UNCHANGED <<cases, registry>> /\ q.ok \in BOOLEAN
  BY <1>1, <1>3 DEF BookingInv, RequestsTyped, rows, Answered
<1>6. CountersTyped' /\ spent'.lost = IF lost THEN spent.lost + 1 ELSE spent.lost
  <2>1. /\ spent' \in [saves : Nat, page : Nat, script : Nat, lost : Nat, tries : Nat]
        /\ spent'.lost = IF lost THEN spent.lost + 1 ELSE spent.lost
    BY <1>1 DEF SubmissionInv, CountersTyped
  <2>2. mine' \subseteq Cases /\ IsFiniteSet(mine')
    <3>1. mine \subseteq Cases /\ IsFiniteSet(mine)
      BY DEF SubmissionInv, CountersTyped
    <3>2. q.op = "create" /\ q.ok => q.id \in Cases
      BY <1>3, Operations
    <3>3. mine' = IF q.op = "create" /\ q.ok THEN mine \cup {q.id} ELSE mine
      BY <1>1
    <3> HIDE DEF q
    <3>4. QED
      BY ONLY <3>1, <3>2, <3>3, FS_AddElement
  <2>3. QED
    BY <1>1, <2>1, <2>2 DEF SubmissionInv, CountersTyped
<1>7. task.pc # "create" => mine' = mine
  BY <1>1, <1>3, Operations
<1>8. spent.lost \in Nat
  BY DEF SubmissionInv, CountersTyped
<1> DEFINE Same == Twins' \subseteq Twins
           OneMore == lost /\ Twins' \subseteq Twins \cup {c}
<1>9. ASSUME Fits(task'), 
             \A i \in 1..Len(task'.ids) :
               task'.list[i].id = None => KnownAs(task'.ids[i], task'.list[i].passport),
             CaseProgress', Same \/ OneMore
      PROVE  SubmissionInv'
  <2>1. Fits(task)' /\ PeopleKnown'
    BY <1>1, <1>4, <1>9 DEF Fits, Complete, SinglePrimary, PeopleKnown, KnownAs
  <2>2. TwinsLost'
    <3>1. CASE Same
      BY <1>6, <1>8, <3>1, TwinsCount DEF SubmissionInv
    <3>2. CASE OneMore
      BY <1>6, <3>2, TwinsCount DEF SubmissionInv
    <3>3. QED
      BY <1>9, <3>1, <3>2
  <2>3. requests'[Wizard].pc = "idle"
    BY <1>4 DEF Idle
  <2>4. QED
    BY <1>6, <1>9, <2>1, <2>2, <2>3, NothingAsked
<1>10. ASSUME task'.pc \notin HasCase PROVE CaseProgress'
  BY <1>10 DEF CaseProgress
<1>11. ASSUME task' = NoTask, Same \/ OneMore PROVE SubmissionInv'
  BY <1>9, <1>10, <1>11, NoTaskFits DEF HasCase
<1>12. CASE task.pc \in {"resolve", "lookup"}
  <2>1. task'.pc \notin HasCase => Same
    BY <1>1, <1>4, <1>7, <1>12 DEF Twins, Going, HasCase
  <2>2. ASSUME id \in Applicants, ~ lost, task' = Resolved(id),
               task.pc = "resolve" => id # None, task.pc = "lookup" => q.ok
        PROVE  SubmissionInv'
    <3>1. KnownAs(id, task.list[Len(task.ids) + 1].passport)
      BY <1>1, <1>12, <2>2 DEF SubmissionInv, PersonFound
    <3>2. LET t == Resolved(id) IN
          /\ Fits(t) /\ t.pc \notin HasCase
          /\ \A i \in 1..Len(t.ids) : t.list[i].id = None => KnownAs(t.ids[i], t.list[i].passport)
      BY <1>12, <2>2, <3>1, ResolvedFits DEF SubmissionInv
    <3>3. QED
      BY <1>9, <1>10, <2>1, <2>2, <3>2
  <2>3. CASE task.pc = "resolve" /\ id # None
    <3>1. ~ lost /\ id = q.id /\ id \in Applicants
      BY <1>3, <2>3
    <3>2. QED
      BY <1>2, <2>2, <2>3, <3>1
  <2>4. CASE task.pc = "resolve" /\ id = None
    <3>1. task' = [task EXCEPT !.pc = "lookup"]
      BY <1>2, <2>4
    <3>2. task.list[Len(task.ids) + 1].id = None
      BY <1>1, <2>4 DEF SubmissionInv, WizardAsks
    <3>3. /\ task' \in Submission /\ task'.pc = "lookup" /\ task'.list = task.list
          /\ task'.ids = task.ids /\ task'.route = task.route
      BY <3>1 DEF SubmissionInv, Fits, Submission
    <3>4. Fits(task') /\ task'.pc \notin HasCase
      BY <2>4, <3>2, <3>3 DEF SubmissionInv, Fits, Complete, SinglePrimary, HasCase
    <3>5. QED
      BY <1>9, <1>10, <2>1, <3>3, <3>4 DEF SubmissionInv, PeopleKnown
  <2>5. CASE task.pc = "lookup"
    <3>1. CASE ok
      <4>1. task' = Resolved(id) /\ ~ lost /\ id = q.id /\ q.ok
        BY <1>2, <2>5, <3>1
      <4>2. QED
        BY <1>3, <2>2, <2>5, <4>1
    <3>2. CASE ~ ok
      <4>1. task' = NoTask
        BY <1>2, <2>5, <3>2
      <4>2. QED
        BY <1>11, <2>1, <4>1, NoTaskFits DEF HasCase
    <3>3. QED
      BY <3>1, <3>2
  <2>6. QED
    BY <1>12, <2>3, <2>4, <2>5
<1>13. CASE task.pc = "create"
  <2>1. q.ok /\ q.id \notin touched.cases =>
          cases[q.id].links = {} /\ cases[q.id].status = "DRAFT"
    BY <1>1, <1>13 DEF SubmissionInv, CaseCreated, Succeeded
  <2>2. Same
    BY <1>1, <1>4, <1>13, <2>1 DEF Twins, Going, HasCase
  <2>3. CASE ok
    <3>1. task' = [task EXCEPT !.pc = "attach", !.case = q.id, !.next = 1] /\ q.ok /\ q.id \in Cases
      BY <1>2, <1>3, <1>13, <2>3
    <3>2. Len(task.list) \in Nat /\ 1 \in 1..Len(task.list)
      BY <1>13, EmptySeq, LenProperties DEF SubmissionInv, Fits, Complete, Submission
    <3>3. /\ Fits(task') /\ task'.list = task.list /\ task'.ids = task.ids
          /\ task'.pc = "attach" /\ task'.case = q.id /\ task'.next = 1
      <4>1. "attach" \in HasCase /\ 1 \in Nat
        BY DEF HasCase
      <4>2. QED
        BY <1>13, <3>1, <3>2, <4>1, MovesOn DEF SubmissionInv
    <3>4. Attached' = 0 /\ ~ Succeeded'
      BY <1>4, <3>3 DEF Attached, Succeeded, Idle
    <3>5. AttachedLinks(task, Attached)' = {}
      <4>1. AttachedLinks(task', 0) = {}
        BY LinksOf
      <4>2. QED
        BY <3>4, <4>1 DEF AttachedLinks, PrimaryAmong
    <3>6. CaseProgress'
      <4>1. requests'[Wizard].pc = "idle" /\ cases' = cases /\ touched' = touched
        BY <1>1, <1>4 DEF Idle
      <4>2. q.id \notin touched.cases => cases'[q.id].links = {} /\ cases'[q.id].status = "DRAFT"
        BY <2>1, <3>1, <4>1
      <4>3. QED
        BY <3>3, <3>5, <4>1, <4>2 DEF CaseProgress
    <3>7. QED
      BY <1>9, <2>2, <3>3, <3>6 DEF SubmissionInv, PeopleKnown
  <2>4. CASE ~ ok
    BY <1>2, <1>11, <1>13, <2>2, <2>4
  <2>5. QED
    BY <2>3, <2>4
<1>14. ASSUME task.pc \in {"attach", "mark", "start"}
       PROVE  /\ c \in Cases /\ task \in Submission /\ task.next \in Nat /\ Fits(task)
              /\ mine' = mine /\ task.pc \in HasCase
              /\ task'.pc \in HasCase /\ task'.case = c => Same
              /\ Twins' \subseteq Twins \cup {c}
              /\ task' = NoTask /\ (c \notin touched.cases => ~ Going(c)) => Same
  <2>1. task.pc \in HasCase /\ mine' = mine
    BY <1>7, <1>14 DEF HasCase
  <2>2. c \in Cases /\ task \in Submission /\ task.next \in Nat /\ Fits(task)
    BY <2>1 DEF SubmissionInv, Fits, Submission
  <2>3. \A d : d \in Twins' => d = c \/ d \in Twins
    BY <1>1, <1>4, <2>1 DEF Twins, Going
  <2>4. task'.pc \in HasCase /\ task'.case = c => c \notin Twins'
    BY DEF Twins
  <2>5. (c \notin touched.cases => ~ Going(c)) => c \notin Twins'
    BY <1>1, <1>4 DEF Twins, Going
  <2>6. QED
    BY <2>1, <2>2, <2>3, <2>4, <2>5
<1>15. ASSUME NEW pc \in HasCase, NEW n \in Nat, pc = "attach" => n \in 1..Len(task.list),
              task.pc \in {"attach", "mark", "start"},
              task' = [task EXCEPT !.pc = pc, !.case = c, !.next = n],
              Attached = IF pc = "attach" THEN n - 1 ELSE Len(task.list),
              c \notin touched.cases =>
                /\ pc \in {"attach", "mark"} => cases[c].status = "DRAFT"
                /\ pc = "start" \/ (pc = "left" /\ task.ready) => Going(c)
       PROVE  SubmissionInv'
  <2>1. /\ Fits(task') /\ task'.list = task.list /\ task'.ids = task.ids
        /\ task'.ready = task.ready /\ task'.pc = pc /\ task'.case = c /\ task'.next = n
    BY <1>14, <1>15, MovesOn
  <2>2. Same
    BY <1>14, <1>15, <2>1
  <2>3. Attached' = Attached /\ ~ Succeeded'
    BY <1>4, <1>15, <2>1 DEF Attached, Succeeded, Idle
  <2>4. AttachedLinks(task, Attached)' = AttachedLinks(task, Attached)
    BY <2>1, <2>3 DEF AttachedLinks, PrimaryAmong
  <2>5. CaseProgress'
    BY <1>1, <1>4, <1>14, <1>15, <2>1, <2>3, <2>4 DEF SubmissionInv, CaseProgress, Going, Idle
  <2>6. QED
    BY <1>9, <2>1, <2>2, <2>5 DEF SubmissionInv, PeopleKnown
<1>16. CASE task.pc = "attach"
  <2>1. c \notin touched.cases => cases[c].status = "DRAFT"
    BY <1>14, <1>16 DEF SubmissionInv, CaseProgress
  <2>2. CASE ~ ok
    <3>1. Same
      BY <1>2, <1>14, <1>16, <2>1, <2>2 DEF Going
    <3>2. QED
      BY <1>2, <1>11, <1>16, <2>2, <3>1
  <2>3. CASE ok
    <3>1. Attached = task.next /\ task.next \in 1..Len(task.list) /\ Len(task.list) \in Nat
      <4>1. Succeeded
        BY <1>1, <2>3 DEF Succeeded
      <4>2. QED
        BY <1>14, <1>16, <4>1, LenProperties DEF Attached, Fits, Submission
    <3>2. CASE task.next < Len(task.list)
      <4> DEFINE n == task.next + 1
      <4>1. n \in Nat /\ n \in 1..Len(task.list) /\ n - 1 = task.next /\ "attach" \in HasCase
        <5>1. n \in Nat /\ n \in 1..Len(task.list) /\ n - 1 = task.next
          BY ONLY <3>1, <3>2
        <5>2. QED
          BY <5>1 DEF HasCase
      <4>2. task' = [task EXCEPT !.next = n]
        BY <1>2, <1>16, <2>3, <3>2
      <4> HIDE DEF n
      <4>3. task' = [task EXCEPT !.pc = "attach", !.case = c, !.next = n]
        BY <1>14, <1>16, <4>2 DEF Submission
      <4>4. QED
        BY <1>15, <1>16, <2>1, <3>1, <4>1, <4>3
    <3>3. CASE ~ (task.next < Len(task.list))
      <4> DEFINE pc == IF task.ready THEN "mark" ELSE "left"
      <4>1. task' = [task EXCEPT !.pc = pc]
        BY <1>2, <1>16, <2>3, <3>3
      <4>2. pc \in HasCase /\ pc \in {"mark", "left"} /\ (pc = "left" => ~ task.ready)
        BY DEF HasCase
      <4> HIDE DEF pc
      <4>3. task' = [task EXCEPT !.pc = pc, !.case = c, !.next = task.next]
        BY <1>14, <4>1 DEF Submission
      <4>4. Attached = Len(task.list)
        BY <3>1, <3>3
      <4>5. QED
        BY <1>14, <1>15, <1>16, <2>1, <4>2, <4>3, <4>4
    <3>4. QED
      BY <3>2, <3>3
  <2>4. QED
    BY <2>2, <2>3
<1>17. CASE task.pc = "mark"
  <2>1. CASE ~ ok
    <3>1. task' = NoTask
      BY <1>2, <1>17, <2>1
    <3>2. CASE lost
      BY <1>11, <1>14, <1>17, <3>1, <3>2
    <3>3. CASE ~ lost
      <4>1. ~ Succeeded
        BY <2>1, <3>3 DEF Succeeded
      <4>2. Same
        BY <1>14, <1>17, <3>1, <4>1 DEF SubmissionInv, CaseProgress, Going
      <4>3. QED
        BY <1>11, <3>1, <4>2
    <3>4. QED
      BY <3>2, <3>3
  <2>2. CASE ok
    <3> DEFINE pc == IF task.start THEN "start" ELSE "left"
    <3>1. task' = [task EXCEPT !.pc = pc]
      BY <1>2, <1>17, <2>2
    <3>2. pc \in HasCase /\ pc \in {"start", "left"}
      BY DEF HasCase
    <3> HIDE DEF pc
    <3>3. task' = [task EXCEPT !.pc = pc, !.case = c, !.next = task.next]
      BY <1>14, <1>17, <3>1 DEF Submission
    <3>4. Attached = Len(task.list) /\ Succeeded
      BY <1>1, <1>17, <2>2 DEF Attached, Succeeded
    <3>5. c \notin touched.cases => Going(c)
      BY <1>14, <1>17, <3>4 DEF SubmissionInv, CaseProgress
    <3>6. QED
      BY <1>14, <1>15, <1>17, <3>2, <3>3, <3>4, <3>5
  <2>3. QED
    BY <2>1, <2>2
<1>18. CASE task.pc = "start"
  <2>1. task' = [task EXCEPT !.pc = "left", !.case = c, !.next = task.next]
    BY <1>2, <1>14, <1>18 DEF Submission
  <2>2. Attached = Len(task.list) /\ "left" \in HasCase
    BY <1>18 DEF Attached, HasCase
  <2>3. c \notin touched.cases => Going(c)
    BY <1>14, <1>18 DEF SubmissionInv, CaseProgress
  <2>4. QED
    BY <1>14, <1>15, <1>18, <2>1, <2>2, <2>3
<1>19. QED
  BY <1>3, <1>12, <1>13, <1>16, <1>17, <1>18, Operations

-----------------------------------------------------------------------------
(* The steps of the others                                                 *)

\* Nothing that is kept in the rows or asked of them has changed.
LEMMA BookingStays ==
  ASSUME BookingInv, UNCHANGED bookingVars
  PROVE  BookingInv'
<1>1. UNCHANGED <<cases, registry, clients, queued, requests, overtaken>>
  BY DEF bookingVars
<1>2. RowsTyped' /\ RequestsTyped' /\ LinksResolve' /\ PassportsDiffer'
  BY <1>1 DEF BookingInv, RowsTyped, RequestsTyped, LinksResolve, PassportsDiffer, Alive
<1>3. ReadyCaseIsBookable'
  BY <1>1 DEF BookingInv, ReadyCaseIsBookable, Ready, Alive
<1>4. SeenBorn' /\ SeenReady'
  BY <1>1 DEF BookingInv, SeenBorn, SeenReady, ReadyWhenRead, Alive
<1>5. QED
  BY <1>2, <1>3, <1>4 DEF BookingInv

\* A step outside the form.
LEMMA FormStays ==
  ASSUME FormInv, UNCHANGED wizardVars
  PROVE  FormInv'
BY DEF FormInv, FormTyped, SinglePrimary, wizardVars

\* A step that writes no row and keeps the wizard's request and the histories.
LEMMA RowsStay ==
  ASSUME SubmissionInv, requests'[Wizard] = requests[Wizard],
         UNCHANGED <<cases, registry, task, mine, touched>>,
         spent' \in [saves : Nat, page : Nat, script : Nat, lost : Nat, tries : Nat],
         spent'.lost = spent.lost
  PROVE  OthersMove
BY DEF SubmissionInv, CountersTyped, OthersMove

\* A request of the case page or of the other client.
LEMMA IssueKeeps ==
  ASSUME BookingInv, FormInv, SubmissionInv, ConsoleAssumption,
         NEW w \in Callers \ {Wizard}, NEW q, Accepted(q), q.pc = "read",
         "seen" \notin DOMAIN q, Issue(w, q),
         UNCHANGED <<wizardVars, task, mine, touched>>,
         spent' \in [saves : Nat, page : Nat, script : Nat, lost : Nat, tries : Nat],
         spent'.lost = spent.lost
  PROVE  BookingInv' /\ FormInv' /\ SubmissionInv'
<1>1. requests' = [requests EXCEPT ![w] = q] /\ UNCHANGED rows
  BY DEF Issue
<1>2. UnderWay(q)
  BY DEF UnderWay, Steps
<1>3. BookingInv'
  BY <1>1, <1>2, RequestInv
<1>4. requests'[Wizard] = requests[Wizard] /\ UNCHANGED <<cases, registry>> /\ RequestsTyped
  BY <1>1 DEF BookingInv, RequestsTyped, rows
<1>5. SubmissionInv'
  BY <1>4, RowsStay, OthersKeep
<1>6. QED
  BY <1>3, <1>5, FormStays

\* The buttons of the case page.
LEMMA PressKeeps ==
  ASSUME BookingInv, FormInv, SubmissionInv, ConsoleAssumption, NEW c \in Cases, Press(c)
  PROVE  BookingInv' /\ FormInv' /\ SubmissionInv'
<1>1. /\ UNCHANGED <<wizardVars, task, mine, touched>> /\ Page \in Callers \ {Wizard}
      /\ spent' \in [saves : Nat, page : Nat, script : Nat, lost : Nat, tries : Nat]
      /\ spent'.lost = spent.lost
  BY Console DEF Press, SubmissionInv, CountersTyped
<1>2. ASSUME NEW op \in {"ready", "start", "delete"},
             Issue(Page, [op |-> op, pc |-> "read", case |-> c])
      PROVE  BookingInv' /\ FormInv' /\ SubmissionInv'
  <2> DEFINE q == [op |-> op, pc |-> "read", case |-> c]
  <2>1. Accepted(q) /\ q.pc = "read" /\ "seen" \notin DOMAIN q
    BY DEF Accepted, Valued, Fields
  <2>2. Issue(Page, q)
    BY <1>2
  <2> HIDE DEF q
  <2>3. QED
    BY <1>1, <2>1, <2>2, IssueKeeps
<1>3. QED
  BY <1>2 DEF Press

\* A request of the other client.
LEMMA CallKeeps ==
  ASSUME BookingInv, FormInv, SubmissionInv, ConsoleAssumption, NEW q \in Scripted, Call(q)
  PROVE  BookingInv' /\ FormInv' /\ SubmissionInv'
<1>1. /\ UNCHANGED <<wizardVars, task, mine, touched>> /\ Script \in Callers \ {Wizard}
      /\ spent' \in [saves : Nat, page : Nat, script : Nat, lost : Nat, tries : Nat]
      /\ spent'.lost = spent.lost /\ Issue(Script, q)
  BY Console DEF Call, SubmissionInv, CountersTyped
<1>2. Accepted(q) /\ q.pc = "read" /\ "seen" \notin DOMAIN q
  BY DEF ConsoleAssumption
<1>3. QED
  BY <1>1, <1>2, IssueKeeps

\* The polling of the case page.
LEMMA PollKeeps ==
  ASSUME BookingInv, FormInv, SubmissionInv, ConsoleAssumption, NEW c \in Cases, Poll(c)
  PROVE  BookingInv' /\ FormInv' /\ SubmissionInv'
<1>1. UNCHANGED <<wizardVars, task, mine, touched, spent>> /\ UNCHANGED bookingVars
  BY DEF Poll
<1>2. UNCHANGED <<cases, registry, requests>>
  BY <1>1 DEF bookingVars
<1>3. OthersMove
  BY <1>1, <1>2, RowsStay DEF SubmissionInv, CountersTyped
<1>4. QED
  BY <1>1, <1>3, BookingStays, FormStays, OthersKeep DEF BookingInv

\* The answer another caller takes.
LEMMA DismissKeeps ==
  ASSUME BookingInv, FormInv, SubmissionInv, ConsoleAssumption, NEW w \in Callers, Dismiss(w)
  PROVE  BookingInv' /\ FormInv' /\ SubmissionInv'
<1>1. /\ w # Wizard /\ requests' = [requests EXCEPT ![w] = Idle] /\ UNCHANGED rows
      /\ UNCHANGED <<wizardVars, task, mine, touched, spent>> /\ "seen" \notin DOMAIN Idle
  BY DEF Dismiss, Idle
<1>2. BookingInv'
  BY <1>1, RequestInv
<1>3. requests'[Wizard] = requests[Wizard] /\ UNCHANGED <<cases, registry>> /\ RequestsTyped
  BY <1>1, Console DEF BookingInv, RequestsTyped, rows
<1>4. OthersMove
  BY <1>1, <1>3, RowsStay DEF SubmissionInv, CountersTyped
<1>5. QED
  BY <1>1, <1>2, <1>3, <1>4, FormStays, OthersKeep

\* What another caller writes is in the history of what it touched.
LEMMA OtherServed ==
  ASSUME BookingInv, FormInv, SubmissionInv, BookingAssumption, ConsoleAssumption,
         NEW w \in Callers \ {Wizard}, Handle(w)
  PROVE  BookingInv' /\ FormInv' /\ SubmissionInv'
<1>1. /\ Serve(w) /\ UNCHANGED <<wizardVars, task, mine, spent>>
      /\ touched' = [cases  |-> touched.cases \cup {c \in Cases : cases'[c] # cases[c]},
                     people |-> touched.people \cup {a \in Applicants : registry'[a] # registry[a]}]
  BY DEF Handle
<1>2. BookingInv' /\ RequestsTyped
  BY <1>1, ServeInv DEF BookingInv
<1>3. requests'[Wizard] = requests[Wizard]
  BY <1>1, Served, Console DEF BookingInv, RequestMoves
<1>4. /\ touched' \in [cases : SUBSET Cases, people : SUBSET Applicants]
      /\ touched.cases \subseteq touched'.cases /\ touched.people \subseteq touched'.people
      /\ \A c \in Cases \ touched'.cases : cases'[c] = cases[c]
      /\ \A a \in Applicants \ touched'.people : registry'[a] = registry[a]
  BY <1>1 DEF SubmissionInv, CountersTyped
<1>5. OthersMove
  BY <1>1, <1>3, <1>4 DEF OthersMove, SubmissionInv, CountersTyped
<1>6. QED
  BY <1>1, <1>2, <1>5, FormStays, OthersKeep

\* The worker takes a READY case on.
LEMMA JobKeeps ==
  ASSUME BookingInv, FormInv, SubmissionInv, ConsoleAssumption, NEW c \in Cases, TakeJob(c),
         UNCHANGED <<wizardVars, task, seen, mine, touched, spent>>
  PROVE  BookingInv' /\ FormInv' /\ SubmissionInv'
<1>1. /\ cases' = [cases EXCEPT ![c].status = IF @ = "READY" THEN "RUNNING" ELSE @]
      /\ UNCHANGED <<registry, requests>> /\ RowsTyped /\ RequestsTyped
  BY DEF TakeJob, BookingInv
<1>2. \A d \in Cases : /\ cases'[d].links = cases[d].links
                       /\ \/ cases'[d].status = cases[d].status
                          \/ cases[d].status = "READY" /\ cases'[d].status = "RUNNING"
  BY <1>1 DEF RowsTyped, CaseRow
<1>3. OthersMove
  BY <1>1, <1>2 DEF OthersMove, SubmissionInv, CountersTyped
<1>4. QED
  BY <1>1, <1>3, TakeJobInv, FormStays, OthersKeep

\* The operator edits the form.
LEMMA FormWork ==
  ASSUME BookingInv, FormInv, SubmissionInv, BornAssumption, ConsoleAssumption,
         EditForm \/ SaveApplicant
  PROVE  BookingInv' /\ FormInv' /\ SubmissionInv'
<1>1. FormInv'
  BY Console, EditKeepsForm, SaveKeepsForm DEF SaveApplicant
<1>2. UNCHANGED <<task, mine, touched>> /\ UNCHANGED bookingVars
  BY DEF EditForm, SaveApplicant
<1>3. /\ spent' \in [saves : Nat, page : Nat, script : Nat, lost : Nat, tries : Nat]
      /\ spent'.lost = spent.lost
  <2>1. spent \in [saves : Nat, page : Nat, script : Nat, lost : Nat, tries : Nat]
    BY DEF SubmissionInv, CountersTyped
  <2>2. spent' = spent \/ spent' = [spent EXCEPT !.saves = @ + 1]
    BY DEF EditForm, SaveApplicant, Save
  <2>3. QED
    BY <2>1, <2>2
<1>4. UNCHANGED <<cases, registry, requests>> /\ RequestsTyped
  BY <1>2 DEF bookingVars, BookingInv
<1>5. OthersMove
  BY <1>2, <1>3, <1>4, RowsStay
<1>6. QED
  BY <1>1, <1>2, <1>4, <1>5, BookingStays, OthersKeep

-----------------------------------------------------------------------------
(* The invariant of the console                                            *)

\* The inductive invariant of the system.
ConsoleInv == BookingInv /\ FormInv /\ SubmissionInv

\* It holds at the start,
LEMMA ConsoleStarts ==
  ASSUME BookingAssumption, BornAssumption, ConsoleAssumption, Init
  PROVE  ConsoleInv
<1>1. BookingInv
  BY BookingStarts DEF Init
<1>2. FormInv
  <2>1. Hole \in Entry
    BY Holes
  <2>2. list = <<>> /\ list \in Seq(Entry) /\ Len(list) = 0 /\ DOMAIN list = {}
    BY EmptySeq DEF Init
  <2>3. form \in [open : BOOLEAN, row : 0..MaxList, entry : Entry]
    BY <2>1, Console DEF Init, Closed
  <2>4. SinglePrimary(list) /\ Len(list) <= MaxList /\ \A i \in DOMAIN list : FALSE
    BY <2>2, Console DEF SinglePrimary
  <2>5. step \in 1..5 /\ depth \in 0..4 /\ route \in Routes \cup {None}
    BY DEF Init
  <2>6. terms \in BOOLEAN /\ error \in BOOLEAN
    BY Zenon DEF Init
  <2>7. QED
    BY <2>2, <2>3, <2>4, <2>5, <2>6 DEF FormInv, FormTyped
<1>3. task = NoTask /\ task.pc = "none" /\ Fits(task) /\ 1..Len(task.ids) = {}
  BY NoTaskFits DEF Init
<1>4. CountersTyped
  BY FS_EmptySet DEF Init, CountersTyped
<1>5. requests[Wizard].pc = "idle"
  BY Console DEF Init, BookingInit, Idle
<1>6. WizardAsks /\ CaseProgress /\ CaseCreated /\ PeopleKnown /\ PersonFound
  BY <1>3, <1>5 DEF WizardAsks, CaseProgress, CaseCreated, PeopleKnown, PersonFound,
    HasCase, Succeeded
<1>7. TwinsLost
  <2>1. Twins = {} /\ spent.lost = 0
    BY DEF Init, Twins
  <2>2. QED
    BY <2>1, FS_EmptySet DEF TwinsLost
<1>8. QED
  BY <1>1, <1>2, <1>3, <1>4, <1>6, <1>7 DEF ConsoleInv, SubmissionInv

\* and every step keeps it.
LEMMA ConsoleStep ==
  ASSUME BookingAssumption, BornAssumption, ConsoleAssumption, ConsoleInv, Next
  PROVE  ConsoleInv'
<1>1. BookingInv /\ FormInv /\ SubmissionInv /\ RequestsTyped
  BY DEF ConsoleInv, BookingInv
<1>2. ASSUME EditForm \/ SaveApplicant PROVE ConsoleInv'
  BY <1>1, <1>2, FormWork DEF ConsoleInv
<1>3. ASSUME NEW ready \in BOOLEAN, NEW start \in BOOLEAN, Submit(ready, start)
      PROVE  ConsoleInv'
  <2>1. UNCHANGED bookingVars /\ UNCHANGED <<step, depth, route, list, form, terms>>
        /\ error' \in BOOLEAN
    BY <1>1, <1>3 DEF Submit
  <2>2. FormInv'
    BY <1>1, <2>1 DEF FormInv, FormTyped, SinglePrimary
  <2>3. QED
    BY <1>1, <1>3, <2>1, <2>2, SubmitKeeps, BookingStays DEF ConsoleInv
<1>4. ASSUME ResolveKnown PROVE ConsoleInv'
  <2>1. UNCHANGED bookingVars /\ UNCHANGED wizardVars
    BY <1>4 DEF ResolveKnown, KeepForm
  <2>2. QED
    BY <1>1, <1>4, <2>1, ResolveKeeps, BookingStays, FormStays DEF ConsoleInv
<1>5. ASSUME Send PROVE ConsoleInv'
  <2>1. UNCHANGED wizardVars
    BY <1>5 DEF Send, KeepForm
  <2>2. QED
    BY <1>1, <1>5, <2>1, SendKeeps, FormStays DEF ConsoleInv
<1>6. ASSUME NEW lost \in BOOLEAN, Receive(lost) PROVE ConsoleInv'
  <2>1. UNCHANGED <<step, depth, route, list, form, terms>>
    BY <1>6 DEF Receive
  <2>2. error' \in BOOLEAN
    <3>1. task.pc \in DOMAIN Operation
      BY <1>1, <1>6, WizardAnswer DEF Receive, SubmissionInv
    <3>2. error' = TRUE \/ error' = error
      BY <1>6, <3>1, Operations DEF Receive, Goes, Failed
    <3>3. QED
      BY <1>1, <3>2 DEF FormInv, FormTyped
  <2>3. FormInv'
    BY <1>1, <2>1, <2>2 DEF FormInv, FormTyped, SinglePrimary
  <2>4. QED
    BY <1>1, <1>6, <2>3, ReceiveBooking, ReceiveKeeps DEF ConsoleInv
<1>7. ASSUME NEW c \in Cases, Poll(c) \/ Press(c) PROVE ConsoleInv'
  BY <1>1, <1>7, PollKeeps, PressKeeps DEF ConsoleInv
<1>8. ASSUME NEW q \in Scripted, Call(q) PROVE ConsoleInv'
  BY <1>1, <1>8, CallKeeps DEF ConsoleInv
<1>9. ASSUME NEW w \in Callers, Handle(w) PROVE ConsoleInv'
  <2>1. CASE w = Wizard
    <3>1. Serve(w) /\ UNCHANGED wizardVars
      BY <1>9 DEF Handle
    <3>2. BookingInv' /\ FormInv'
      BY <1>1, <3>1, ServeInv, FormStays
    <3>3. SubmissionInv'
      BY <1>1, <1>9, <2>1, WizardServed
    <3>4. QED
      BY <3>2, <3>3 DEF ConsoleInv
  <2>2. CASE w # Wizard
    BY <1>1, <1>9, <2>2, OtherServed DEF ConsoleInv
  <2>3. QED
    BY <2>1, <2>2
<1>10. ASSUME NEW w \in Callers, Dismiss(w) PROVE ConsoleInv'
  BY <1>1, <1>10, DismissKeeps DEF ConsoleInv
<1>11. ASSUME NEW c \in Cases, TakeJob(c),
              UNCHANGED <<wizardVars, task, seen, mine, touched, spent>>
       PROVE  ConsoleInv'
  BY <1>1, <1>11, JobKeeps DEF ConsoleInv
<1>12. QED
  BY <1>2, <1>3, <1>4, <1>5, <1>6, <1>7, <1>8, <1>9, <1>10, <1>11 DEF Next

\* Whatever the operator, the case page and the other client do, and whichever
\* answers the network loses: the rows and the requests under way fit together
\* (BookingInv), the form has at most one primary applicant (FormInv), and the
\* submission is as far as its requests have written (SubmissionInv).
THEOREM ConsoleInvariant == Spec => []ConsoleInv
<1>1. Init => ConsoleInv
  BY ConsoleStarts, BookingAssumption, BornAssumption, ConsoleAssumption
<1>2. ConsoleInv /\ [Next]_vars => ConsoleInv'
  <2>1. ASSUME ConsoleInv, Next PROVE ConsoleInv'
    BY <2>1, ConsoleStep, BookingAssumption, BornAssumption, ConsoleAssumption
  <2>2. ASSUME ConsoleInv, UNCHANGED vars PROVE ConsoleInv'
    <3>1. BookingInv /\ FormInv /\ SubmissionInv /\ RequestsTyped
      BY <2>2 DEF ConsoleInv, BookingInv
    <3>2. UNCHANGED <<wizardVars, task, mine, touched, spent>> /\ UNCHANGED bookingVars
      BY <2>2 DEF vars, wizardVars
    <3>3. UNCHANGED <<cases, registry, requests>>
      BY <3>2 DEF bookingVars
    <3>4. OthersMove
      BY <3>1, <3>2, <3>3, RowsStay DEF SubmissionInv, CountersTyped
    <3>5. QED
      BY <3>1, <3>2, <3>4, BookingStays, FormStays, OthersKeep, ConsoleAssumption DEF ConsoleInv
  <2>3. QED
    BY <2>1, <2>2
<1>3. QED
  BY <1>1, <1>2, PTL DEF Spec

-----------------------------------------------------------------------------
(* What the runs check                                                     *)

\* The types of the rows, the requests, the form and the submission.
THEOREM ConsoleTypeInvariant == Spec => []ConsoleTypeOK
<1>1. ConsoleInv => ConsoleTypeOK
  <2>1. SUFFICES ASSUME ConsoleInv PROVE ConsoleTypeOK
    OBVIOUS
  <2>2. TypeOK
    BY <2>1, BookingKeeps DEF ConsoleInv
  <2>3. QED
    BY <2>1, <2>2 DEF ConsoleInv, FormInv, FormTyped, SubmissionInv, CountersTyped, Fits,
      Submission, ConsoleTypeOK
<1>2. QED
  BY <1>1, ConsoleInvariant, PTL

\* A READY case meets the rules it was validated against (transitionToReady and
\* assertIsDraft), unless an older row or an edit of a passport came between.
THEOREM ReadyStaysBookable == Spec => []ReadyCaseIsBookable
<1>1. ConsoleInv => ReadyCaseIsBookable
  BY DEF ConsoleInv, BookingInv
<1>2. QED
  BY <1>1, ConsoleInvariant, PTL

\* A case links only applicants that exist, however the count of links before a
\* delete and the attachment of the applicant overlap.
THEOREM LinkedApplicantsExist == Spec => []LinksResolve
<1>1. ConsoleInv => LinksResolve
  BY DEF ConsoleInv, BookingInv
<1>2. QED
  BY <1>1, ConsoleInvariant, PTL

\* No two applicants have one passport, although the duplicate check of create
\* and update is a read of its own (the column is unique).
THEOREM PassportsAreUnique == Spec => []OnePersonPerPassport
<1>1. ConsoleInv => OnePersonPerPassport
  BY BookingKeeps DEF ConsoleInv
<1>2. QED
  BY <1>1, ConsoleInvariant, PTL

\* The wizard's list has at most one primary applicant after any edits, also
\* when rows are removed while one of them is being edited.
THEOREM FormHasOnePrimary == Spec => []OnePrimaryInForm
<1>1. ConsoleInv => OnePrimaryInForm
  <2>1. SUFFICES ASSUME ConsoleInv PROVE OnePrimaryInForm
    OBVIOUS
  <2> DEFINE S == {i \in DOMAIN list : list[i].primary}
  <2>2. \A i, j \in S : i = j
    BY <2>1 DEF ConsoleInv, FormInv, SinglePrimary
  <2> HIDE DEF S
  <2>3. Cardinality(S) <= 1
    BY <2>2, AtMostOne
  <2>4. QED
    BY <2>3 DEF OnePrimaryInForm, S
<1>2. QED
  BY <1>1, ConsoleInvariant, PTL

\* A submission that reached the page of its case has sent every request of the
\* sequence and the rows are those of the form (handleFinalSubmit).
THEOREM SubmissionIsComplete == Spec => []SubmittedCaseIsForm
<1>1. ASSUME ConsoleInv, task.pc = "left" PROVE SubmittedCaseIsForm
  <2> DEFINE c == task.case
             n == Len(task.list)
  <2>1. /\ Fits(task) /\ task.pc \in HasCase /\ CaseProgress /\ PeopleKnown
        /\ task.list \in Seq(Entry) /\ Len(task.ids) = n
    BY <1>1 DEF ConsoleInv, SubmissionInv, Fits, Submission, HasCase
  <2>2. DOMAIN task.list = 1..n
    BY <2>1, LenProperties
  <2>3. MeantPrimary(task.list) = PrimaryAmong(task.list, n)
    BY <2>2 DEF MeantPrimary, PrimaryAmong
  <2>4. c \notin touched.cases =>
          /\ cases[c].links = AttachedLinks(task, n)
          /\ task.ready => cases[c].status # "DRAFT"
    BY <1>1, <2>1 DEF CaseProgress, Attached, Going
  <2>5. AttachedLinks(task, n) =
          {[applicant |-> task.ids[i], position |-> i,
            primary |-> i = MeantPrimary(task.list)] : i \in DOMAIN task.list}
    BY <2>2, <2>3 DEF AttachedLinks
  <2>6. \A i \in DOMAIN task.list :
          task.list[i].id = None /\ task.ids[i] \notin touched.people =>
            registry[task.ids[i]].passport = task.list[i].passport
    BY <2>1, <2>2 DEF PeopleKnown, KnownAs
  <2>7. QED
    BY <2>4, <2>5, <2>6 DEF SubmittedCaseIsForm
<1>2. ConsoleInv => SubmittedCaseIsForm
  BY <1>1 DEF SubmittedCaseIsForm
<1>3. QED
  BY <1>2, ConsoleInvariant, PTL

\* Submitting again after an error makes no second case that is READY or running
\* for the form, but one for every answer the network lost.
THEOREM TwinsAreLosses == Spec => []TwinOnlyAfterLoss
<1>1. ConsoleInv => TwinOnlyAfterLoss
  <2>1. SUFFICES ASSUME ConsoleInv PROVE TwinOnlyAfterLoss
    OBVIOUS
  <2> DEFINE S == {c \in mine \ touched.cases : cases[c].status \in {"READY", "RUNNING"}}
  <2>2. S \subseteq Twins \cup {task.case}
    BY DEF Twins, Going
  <2>3. IsFiniteSet(Twins) /\ Cardinality(Twins) <= spent.lost /\ spent.lost \in Nat
    BY <2>1, FS_Subset DEF ConsoleInv, SubmissionInv, CountersTyped, TwinsLost, Twins
  <2> HIDE DEF S
  <2>4. /\ IsFiniteSet(Twins \cup {task.case}) /\ Cardinality(Twins) \in Nat
        /\ \/ Cardinality(Twins \cup {task.case}) = Cardinality(Twins)
           \/ Cardinality(Twins \cup {task.case}) = Cardinality(Twins) + 1
    BY <2>3, FS_AddElement, FS_CardinalityType
  <2>5. Cardinality(S) \in Nat /\ Cardinality(S) <= Cardinality(Twins \cup {task.case})
    BY <2>2, <2>4, FS_Subset, FS_CardinalityType
  <2>6. Cardinality(S) <= 1 + spent.lost
    BY <2>3, <2>4, <2>5
  <2>7. QED
    BY <2>6 DEF TwinOnlyAfterLoss, S
<1>2. QED
  BY <1>1, ConsoleInvariant, PTL
=============================================================================
