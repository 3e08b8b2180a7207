---------------------------- MODULE PagesProofs -----------------------------
(***************************************************************************)
(* The pages of lists and the run page are type-correct, for any rows,     *)
(* jobs and bounds: what is typed in a sidebar is of its row, and what is  *)
(* shown of an error is of the draft beside it; a row that was closed is   *)
(* not offered again; and no operation clears a pick that came after its   *)
(* answer.                                                                 *)
(***************************************************************************)
EXTENDS ListPage, RunPage, FiniteSetTheorems, SequenceTheorems, TLAPS

\* The pages of lists

ListTyped ==
    /\ page \in Pages /\ server \in [Row -> Record] /\ query \in QueryOf([Row -> Record])
    /\ picked \in Row \cup {0} /\ hidden \in SUBSET Row /\ creating \in BOOLEAN /\ broken \in BOOLEAN
    /\ form \in [row : Row \cup {0}, version : 0..MaxVersion, dirty : BOOLEAN]
    /\ muts \in Seq(Mutation) /\ Len(muts) <= MaxMuts
    /\ steps \in 0..MaxSteps /\ others \in 0..MaxOthers /\ failures \in 0..MaxFailures

\* The form is of the sidebar's row, as the table has it
FormOK ==
    /\ form.row = SidebarRow(query.data, picked, creating)
    /\ IF form.row = 0 THEN form = NoForm ELSE form.version = query.data[form.row].version

\* A row that a mutation has closed stays closed, since the page that makes rows anew closes
\* none; an answer on its way to a fetch that shows it has it closed, and once that fetch is
\* over, so has the table
RowOK(i) ==
    /\ muts[i].kind \in page.removes \cup {"edit"} => muts[i].row \in Row
    /\ muts[i].kind = "create" /\ muts[i].stage = "sent" /\ muts[i].row # 0 => page.creates = "dialog"
    /\ muts[i].stage \in {"sent", "handled", "refused"} => ~muts[i].shows
    /\ muts[i].kind \in page.removes =>
         /\ muts[i].stage \in {"handled", "refreshing"} \/ muts[i].shows => server[muts[i].row].state = "closed"
         /\ muts[i].shows /\ query.fetch = "answered" => query.answer[muts[i].row].state # "open"
         /\ muts[i].shows /\ muts[i].stage = "done" => query.data[muts[i].row].state # "open"

\* Each version of a row is of a mutation that MSS has handled, or of others
HandledMuts == {i \in DOMAIN muts : muts[i].stage # "sent"}
VersionsOK  == \A r \in Row : server[r].version <= others + Cardinality(HandledMuts)

ListInv == ListTyped /\ FormOK /\ VersionsOK /\ \A i \in DOMAIN muts : RowOK(i)

\* A step on the mutations that were begun, member by member, leaves as many.
LEMMA MutsStep ==
  ASSUME NEW S, NEW s \in Seq(S), NEW f, f = [i \in DOMAIN s |-> f[i]], \A i \in DOMAIN s : f[i] \in S
  PROVE  f \in Seq(S) /\ DOMAIN f = DOMAIN s /\ Len(f) = Len(s)
<1>1. DOMAIN s = 1..Len(s) /\ Len(s) \in Nat
  BY LenProperties
<1>2. f \in [1..Len(s) -> S]
  BY <1>1
<1> QED
  BY <1>1, <1>2

\* What the pages have in common: none both closes rows and makes closed ones anew.
LEMMA PageFacts ==
  ASSUME page \in Pages
  PROVE  /\ page.removes \subseteq {"delete", "approve", "reject"}
         /\ page.creates = "dialog" => page.removes = {}
<1>1. page \in AllPages
  BY ListAssumption
<1>2. /\ Projects.removes = {"delete"} /\ Projects.creates = "no"
      /\ RequestDialogs.removes = {}
      /\ Tokens.removes = {"delete"} /\ Tokens.creates = "no"
      /\ AdminProjects.removes = {"delete"} /\ AdminProjects.creates = "sidebar"
      /\ AdminRequests.removes = {"approve", "reject"} /\ AdminRequests.creates = "no"
      /\ Approvals.removes = {"approve", "reject"} /\ Approvals.creates = "no"
      /\ MyRequests.removes = {}
  BY DEF Projects, RequestDialogs, Tokens, AdminProjects, AdminRequests, Approvals, MyRequests, ReadOnly
<1> QED
  BY <1>1, <1>2 DEF AllPages

\* The types of what the steps of the pages are about.
LEMMA ListFacts ==
  ASSUME ListTyped
  PROVE  /\ page \in Pages /\ server \in [Row -> Record] /\ query \in QueryOf([Row -> Record])
         /\ query.data \in [Row -> Record] /\ query.answer \in [Row -> Record]
         /\ picked \in Row \cup {0} /\ hidden \in SUBSET Row /\ creating \in BOOLEAN /\ broken \in BOOLEAN
         /\ muts \in Seq(Mutation) /\ \A i \in DOMAIN muts : muts[i] \in Mutation
         /\ steps \in 0..MaxSteps /\ others \in 0..MaxOthers /\ failures \in 0..MaxFailures
<1>1. query.data \in [Row -> Record] /\ query.answer \in [Row -> Record]
  BY DEF ListTyped, QueryOf
<1> QED
  BY <1>1 DEF ListTyped

\* What MSS lists, and nothing, are rows; none of them that is closed is listed as open.
LEMMA ListedOK ==
  ASSUME server \in [Row -> Record]
  PROVE  /\ Listed(server) \in [Row -> Record] /\ Nothing \in [Row -> Record]
         /\ \A r \in Row : server[r].state = "closed" => Listed(server)[r].state # "open"
         /\ \A r \in Row : Nothing[r].state # "open"
<1>1. NoRecord \in Record /\ NoRecord.state = "none"
  <2>1. 0 \in 0..MaxVersion
    BY ListAssumption DEF MaxVersion
  <2> QED
    BY <2>1 DEF NoRecord, Record
<1>2. ASSUME NEW r \in Row
      PROVE  /\ Listed(server)[r] \in Record /\ (server[r].state = "closed" => Listed(server)[r].state # "open")
             /\ Nothing[r] \in Record /\ Nothing[r].state # "open"
  <2>1. Listed(server)[r] = server[r] \/ Listed(server)[r] = NoRecord
    BY DEF Listed
  <2>2. Nothing[r] = NoRecord
    BY DEF Nothing
  <2> QED
    BY <1>1, <2>1, <2>2
<1>3. Listed(server) = [r \in Row |-> Listed(server)[r]] /\ Nothing = [r \in Row |-> Nothing[r]]
  BY DEF Listed, Nothing
<1> QED
  BY <1>2, <1>3

-----------------------------------------------------------------------------
\* What a step leaves of the mutations, the query and MSS's rows

Arrives == query.fetch = "answered" /\ query'.data = query.answer /\ query'.fetch # "answered"
Stays ==
    /\ query'.data = query.data
    /\ query'.fetch = "answered" => \/ query.fetch = "answered" /\ query'.answer = query.answer
                                    \/ query'.answer = Listed(server)
Anew == query'.data \in {Listed(server), Nothing} /\ query'.fetch # "answered"
RowsStep == page' = page /\ (Arrives \/ Stays \/ Anew)

\* Unless the page makes rows anew, no row is opened again
ServerStep == \A r \in Row : server[r].state = "closed" /\ page.removes # {} => server'[r].state = "closed"

MutStep(i) ==
    /\ muts'[i].kind = muts[i].kind /\ muts'[i].row = muts[i].row
    /\ muts'[i].stage = "sent" => muts[i].stage = "sent"
    /\ muts'[i].stage \in {"handled", "refreshing"} => muts[i].stage \in {"handled", "refreshing"}
    /\ muts'[i].stage \in {"sent", "handled", "refused"} => muts[i].stage \in {"sent", "handled", "refused"}
    /\ muts'[i].shows => muts[i].shows
    /\ muts'[i].shows /\ muts'[i].stage = "done" => muts[i].stage = "done" \/ Arrives

\* Such a step keeps a closed row closed.
LEMMA RowKept ==
  ASSUME ListTyped, NEW i \in DOMAIN muts, RowOK(i), MutStep(i), RowsStep, ServerStep
  PROVE  RowOK(i)'
<1>1. server \in [Row -> Record]
  BY ListFacts
<1>2. page' = page
  BY DEF RowsStep
<1>3. /\ muts'[i].kind \in page'.removes \cup {"edit"} => muts'[i].row \in Row
      /\ muts'[i].kind = "create" /\ muts'[i].stage = "sent" /\ muts'[i].row # 0 => page'.creates = "dialog"
      /\ muts'[i].stage \in {"sent", "handled", "refused"} => ~muts'[i].shows
  BY <1>2 DEF RowOK, MutStep
<1>4. ASSUME muts'[i].kind \in page.removes
      PROVE  /\ muts'[i].stage \in {"handled", "refreshing"} \/ muts'[i].shows => server'[muts'[i].row].state = "closed"
             /\ muts'[i].shows /\ query'.fetch = "answered" => query'.answer[muts'[i].row].state # "open"
             /\ muts'[i].shows /\ muts'[i].stage = "done" => query'.data[muts'[i].row].state # "open"
  <2>1. PICK r \in Row : r = muts[i].row
    BY <1>4 DEF RowOK, MutStep
  <2>2. muts'[i].row = r /\ muts[i].kind \in page.removes /\ page.removes # {}
    BY <1>4, <2>1 DEF MutStep
  <2>3. muts[i].stage \in {"handled", "refreshing"} \/ muts[i].shows => server[r].state = "closed"
    BY <2>1, <2>2 DEF RowOK
  <2>4. muts'[i].stage \in {"handled", "refreshing"} \/ muts'[i].shows => server'[r].state = "closed"
    BY <2>2, <2>3 DEF MutStep, ServerStep
  <2>5. muts'[i].shows => Listed(server)[r].state # "open" /\ Nothing[r].state # "open"
    BY <1>1, <2>3, ListedOK DEF MutStep
  <2>6. muts'[i].shows /\ query'.fetch = "answered" => query'.answer[r].state # "open"
    BY <2>1, <2>2, <2>5 DEF RowsStep, Arrives, Stays, Anew, RowOK, MutStep
  <2>7. muts'[i].shows /\ muts'[i].stage = "done" => query'.data[r].state # "open"
    <3>1. CASE Arrives
      BY <2>1, <2>2, <3>1 DEF Arrives, RowOK, MutStep
    <3>2. CASE ~Arrives
      BY <2>1, <2>2, <2>5, <3>2 DEF RowsStep, Stays, Anew, RowOK, MutStep
    <3> QED
      BY <3>1, <3>2
  <2> QED
    BY <2>2, <2>4, <2>6, <2>7
<1> QED
  BY <1>2, <1>3, <1>4 DEF RowOK

\* Of the mutations, no more than there are have been handled.
LEMMA HandledCount ==
  ASSUME NEW s \in Seq(Mutation)
  PROVE  LET H == {i \in DOMAIN s : s[i].stage # "sent"}
         IN  /\ IsFiniteSet(H) /\ Cardinality(H) \in Nat /\ Cardinality(H) <= Len(s)
             /\ \A i \in DOMAIN s : i \notin H => Cardinality(H) < Len(s)
<1> DEFINE H == {i \in DOMAIN s : s[i].stage # "sent"}
<1>1. DOMAIN s = 1..Len(s) /\ Len(s) \in Nat
  BY LenProperties
<1>2. IsFiniteSet(1..Len(s)) /\ Cardinality(1..Len(s)) = Len(s)
  BY <1>1, FS_Interval
<1>3. H \in SUBSET (1..Len(s))
  BY <1>1
<1> HIDE DEF H
<1>4. IsFiniteSet(H) /\ Cardinality(H) <= Len(s) /\ Cardinality(H) \in Nat
  BY <1>2, <1>3, FS_Subset, FS_CardinalityType
<1>5. ASSUME NEW i \in DOMAIN s, i \notin H PROVE Cardinality(H) < Len(s)
  <2>1. H # 1..Len(s)
    BY <1>1, <1>5
  <2>2. Cardinality(H) # Len(s)
    BY <1>2, <1>3, <2>1, FS_Subset
  <2> QED
    BY <1>1, <1>4, <2>2
<1> QED
  BY <1>4, <1>5 DEF H

\* What MSS has handled stays handled, so that versions are still counted.
LEMMA HandledKept ==
  ASSUME ListTyped, muts' \in Seq(Mutation),
         \A i \in DOMAIN muts : i \in DOMAIN muts' /\ (muts'[i].stage = "sent" => muts[i].stage = "sent")
  PROVE  /\ Cardinality(HandledMuts) \in Nat /\ Cardinality(HandledMuts') \in Nat
         /\ Cardinality(HandledMuts) <= Cardinality(HandledMuts')
         /\ \A i \in HandledMuts' : i \notin HandledMuts => Cardinality(HandledMuts) + 1 <= Cardinality(HandledMuts')
<1>1. IsFiniteSet(HandledMuts) /\ Cardinality(HandledMuts) \in Nat
  BY ListFacts, HandledCount DEF HandledMuts
<1>2. IsFiniteSet(HandledMuts') /\ Cardinality(HandledMuts') \in Nat
  BY HandledCount DEF HandledMuts
<1>3. HandledMuts \in SUBSET HandledMuts'
  BY DEF HandledMuts
<1>4. Cardinality(HandledMuts) <= Cardinality(HandledMuts')
  BY <1>2, <1>3, FS_Subset
<1>5. ASSUME NEW i \in HandledMuts', i \notin HandledMuts
      PROVE  Cardinality(HandledMuts) + 1 <= Cardinality(HandledMuts')
  <2>1. HandledMuts # HandledMuts'
    BY <1>5
  <2>2. Cardinality(HandledMuts) # Cardinality(HandledMuts')
    BY <1>2, <1>3, <2>1, FS_Subset
  <2> QED
    BY <1>1, <1>2, <1>4, <2>2
<1> QED
  BY <1>1, <1>2, <1>4, <1>5

\* A step that leaves MSS's rows.
LEMMA VersionsKept ==
  ASSUME ListInv, muts' \in Seq(Mutation), server' = server, others' \in Nat, others <= others',
         \A i \in DOMAIN muts : i \in DOMAIN muts' /\ (muts'[i].stage = "sent" => muts[i].stage = "sent")
  PROVE  VersionsOK'
<1>0. ListTyped /\ others \in Nat /\ server \in [Row -> Record]
  BY ListFacts, ListAssumption DEF ListInv
<1>1. /\ Cardinality(HandledMuts) \in Nat /\ Cardinality(HandledMuts') \in Nat
      /\ Cardinality(HandledMuts) <= Cardinality(HandledMuts')
  BY <1>0, HandledKept
<1>2. ASSUME NEW r \in Row PROVE server'[r].version <= others' + Cardinality(HandledMuts')
  <2>1. server[r].version \in Int
    BY <1>0 DEF Record
  <2>2. server[r].version <= others + Cardinality(HandledMuts)
    BY DEF ListInv, VersionsOK
  <2> QED
    BY <1>0, <1>1, <2>1, <2>2
<1> QED
  BY <1>2 DEF VersionsOK

\* A row is changed, by a mutation that is handled with it or by others.
LEMMA VersionsOne ==
  ASSUME ListInv, muts' \in Seq(Mutation), NEW r \in Row, NEW state \in {"open", "closed"},
         server' = [server EXCEPT ![r].state = state, ![r].version = @ + 1],
         \A i \in DOMAIN muts : i \in DOMAIN muts' /\ (muts'[i].stage = "sent" => muts[i].stage = "sent"),
         \/ others' = others /\ \E i \in DOMAIN muts : muts[i].stage = "sent" /\ muts'[i].stage # "sent"
         \/ others' = others + 1 /\ others < MaxOthers /\ muts' = muts
  PROVE  /\ server' \in [Row -> Record] /\ VersionsOK' /\ server'[r].state = state
         /\ \A k \in Row \ {r} : server'[k] = server[k]
<1>0. /\ ListTyped /\ others \in Nat /\ others <= MaxOthers /\ server \in [Row -> Record] /\ server[r] \in Record
      /\ MaxMuts \in Nat /\ MaxOthers \in Nat /\ Len(muts) <= MaxMuts /\ muts \in Seq(Mutation) /\ Len(muts) \in Nat
  BY ListFacts, ListAssumption, LenProperties DEF ListInv, ListTyped
<1>1. /\ Cardinality(HandledMuts) \in Nat /\ Cardinality(HandledMuts') \in Nat
      /\ Cardinality(HandledMuts) <= Cardinality(HandledMuts')
      /\ \A i \in HandledMuts' : i \notin HandledMuts => Cardinality(HandledMuts) + 1 <= Cardinality(HandledMuts')
  BY <1>0, HandledKept
<1>2. others + Cardinality(HandledMuts) + 1 <= others' + Cardinality(HandledMuts') /\ others' \in Nat
  <2>1. CASE others' = others /\ \E i \in DOMAIN muts : muts[i].stage = "sent" /\ muts'[i].stage # "sent"
    <3>1. PICK i \in DOMAIN muts : muts[i].stage = "sent" /\ muts'[i].stage # "sent"
      BY <2>1
    <3>2. i \in HandledMuts' /\ i \notin HandledMuts
      BY <3>1 DEF HandledMuts
    <3>3. Cardinality(HandledMuts) + 1 <= Cardinality(HandledMuts')
      BY <1>1, <3>2
    <3> QED
      BY <1>0, <1>1, <2>1, <3>3
  <2>2. CASE others' = others + 1 /\ muts' = muts
    BY <1>0, <1>1, <2>2
  <2> QED
    BY <2>1, <2>2
<1>3. others + Cardinality(HandledMuts) + 1 <= MaxVersion
  <2>1. CASE others' = others /\ \E i \in DOMAIN muts : muts[i].stage = "sent" /\ muts'[i].stage # "sent"
    <3>1. PICK i \in DOMAIN muts : i \notin HandledMuts
      BY <2>1 DEF HandledMuts
    <3>2. Cardinality(HandledMuts) < Len(muts)
      BY <1>0, <3>1, HandledCount DEF HandledMuts
    <3> QED
      BY <1>0, <1>1, <3>2 DEF MaxVersion
  <2>2. CASE others < MaxOthers
    <3>1. Cardinality(HandledMuts) <= Len(muts)
      BY <1>0, HandledCount DEF HandledMuts
    <3> QED
      BY <1>0, <1>1, <2>2, <3>1 DEF MaxVersion
  <2> QED
    BY <2>1, <2>2
<1>4. server[r].version \in Nat /\ server[r].version <= others + Cardinality(HandledMuts)
  <2>1. server[r].version \in 0..MaxVersion
    BY <1>0 DEF Record
  <2> QED
    BY <2>1 DEF ListInv, VersionsOK
<1>5. PICK v \in 0..MaxVersion : v = server[r].version + 1
  <2>1. MaxVersion \in Nat
    BY <1>0 DEF MaxVersion
  <2> QED
    BY <1>0, <1>1, <1>3, <1>4, <2>1
<1>6. PICK rec \in Record : rec = [server[r] EXCEPT !.state = state, !.version = v]
  BY <1>0 DEF Record
<1>7. server' = [server EXCEPT ![r] = rec]
  BY <1>0, <1>5, <1>6
<1>8. rec.state = state /\ rec.version = v
  BY <1>0, <1>6 DEF Record
<1>9. server' \in [Row -> Record] /\ server'[r] = rec /\ \A k \in Row \ {r} : server'[k] = server[k]
  BY <1>0, <1>7
<1>10. ASSUME NEW k \in Row PROVE server'[k].version <= others' + Cardinality(HandledMuts')
  <2>1. CASE k = r
    BY <1>0, <1>1, <1>2, <1>4, <1>5, <1>8, <1>9, <2>1
  <2>2. CASE k # r
    <3>1. server'[k].version = server[k].version
      BY <1>9, <2>2
    <3>2. server[k].version \in Int
      BY <1>0 DEF Record
    <3>3. server[k].version <= others + Cardinality(HandledMuts)
      BY DEF ListInv, VersionsOK
    <3> QED
      BY <1>0, <1>1, <1>2, <3>1, <3>2, <3>3
  <2> QED
    BY <2>1, <2>2
<1> QED
  BY <1>8, <1>9, <1>10 DEF VersionsOK

\* A step on the mutations that were begun, the query and the page.
LEMMA ListStep ==
  ASSUME ListInv, page' = page, server' \in [Row -> Record], query' \in QueryOf([Row -> Record]),
         picked' \in Row \cup {0}, hidden' \in SUBSET Row, creating' \in BOOLEAN, broken' \in BOOLEAN,
         form' \in [row : Row \cup {0}, version : 0..MaxVersion, dirty : BOOLEAN], FormOK',
         muts' = [i \in DOMAIN muts |-> muts'[i]], \A i \in DOMAIN muts : muts'[i] \in Mutation,
         \A i \in DOMAIN muts : MutStep(i) \/ RowOK(i)', RowsStep, ServerStep, VersionsOK',
         steps' \in 0..MaxSteps, others' \in 0..MaxOthers, failures' \in 0..MaxFailures
  PROVE  ListInv'
<1>0. ListTyped /\ muts \in Seq(Mutation) /\ Len(muts) <= MaxMuts /\ page \in Pages
  BY DEF ListInv, ListTyped
<1>1. muts' \in Seq(Mutation) /\ DOMAIN muts' = DOMAIN muts /\ Len(muts') = Len(muts)
  BY <1>0, MutsStep
<1>2. ASSUME NEW i \in DOMAIN muts PROVE RowOK(i)'
  <2>1. RowOK(i)
    BY DEF ListInv
  <2> QED
    BY <1>0, <2>1, RowKept
<1>3. ListTyped'
  BY <1>0, <1>1 DEF ListTyped
<1> QED
  BY <1>1, <1>2, <1>3 DEF ListInv

-----------------------------------------------------------------------------
\* The page is drawn

\* A mutation that a component may have forgotten is otherwise the same.
SameMut(m, n) ==
    /\ n \in Mutation /\ n.kind = m.kind /\ n.row = m.row /\ n.stage = m.stage
    /\ n.shows = m.shows

\* Whether a mutation is still shown is all that another value of `seen` changes.
LEMMA SeenOnly == ASSUME NEW m \in Mutation, NEW X, NEW n, n = [m EXCEPT !.seen = @ /\ X] PROVE SameMut(m, n)
<1>1. PICK b \in BOOLEAN : b = (m.seen /\ X)
  OBVIOUS
<1>2. n = [m EXCEPT !.seen = b]
  BY <1>1 DEF Mutation
<1> QED
  BY <1>2 DEF Mutation, SameMut

AreMuts(ms) == \A i \in DOMAIN ms : ms[i] \in Mutation

\* What is drawn: the form is of the row of the sidebar, and the mutations are what they were
Drawn(ms, r, isCreating) ==
    /\ picked' = r /\ creating' = isCreating
    /\ form' \in [row : Row \cup {0}, version : 0..MaxVersion, dirty : BOOLEAN] /\ FormOK'
    /\ muts' = [i \in DOMAIN ms |-> muts'[i]] /\ \A i \in DOMAIN ms : SameMut(ms[i], muts'[i])

\* The form follows the row of the sidebar, and the mutations stay what they are.
LEMMA DrawsOK ==
  ASSUME ListTyped, NEW ms, NEW rows \in [Row -> Record], NEW r \in Row \cup {0}, NEW isCreating \in BOOLEAN,
         Draws(ms, rows, r, isCreating), query'.data = rows, AreMuts(ms)
  PROVE  Drawn(ms, r, isCreating)
<1>1. /\ picked' = r /\ creating' = isCreating /\ form' = Values(rows, SidebarRow(rows, r, isCreating))
      /\ muts' = [i \in DOMAIN ms |-> muts'[i]]
  BY DEF Draws
<1>2. PICK after \in Row \cup {0} : after = SidebarRow(rows, r, isCreating)
  BY DEF SidebarRow, findSelectedRow
<1>3. NoForm \in [row : Row \cup {0}, version : 0..MaxVersion, dirty : BOOLEAN] /\ NoForm.row = 0
  <2>1. 0 \in 0..MaxVersion
    BY ListAssumption DEF MaxVersion
  <2> QED
    BY <2>1 DEF NoForm
<1>4. form \in [row : Row \cup {0}, version : 0..MaxVersion, dirty : BOOLEAN]
  BY DEF ListTyped
<1>5. /\ form' \in [row : Row \cup {0}, version : 0..MaxVersion, dirty : BOOLEAN] /\ form'.row = after
      /\ IF after = 0 THEN form' = NoForm ELSE form'.version = rows[after].version
  <2>1. CASE after = 0
    BY <1>1, <1>2, <1>3, <2>1 DEF Values
  <2>2. CASE after # 0 /\ form.row = after /\ form.version = rows[after].version
    BY <1>1, <1>2, <1>4, <2>2 DEF Values
  <2>3. CASE after # 0 /\ ~(form.row = after /\ form.version = rows[after].version)
    <3>1. rows[after] \in Record
      BY <2>3
    <3>2. rows[after].version \in 0..MaxVersion
      BY <3>1 DEF Record
    <3>3. form' = [row |-> after, version |-> rows[after].version, dirty |-> FALSE]
      BY <1>1, <1>2, <2>3 DEF Values
    <3> QED
      BY <2>3, <3>2, <3>3
  <2> QED
    BY <2>1, <2>2, <2>3
<1>6. FormOK'
  BY <1>1, <1>2, <1>5 DEF FormOK
<1>7. ASSUME NEW i \in DOMAIN ms PROVE SameMut(ms[i], muts'[i])
  <2>1. \E X : muts'[i] = [ms[i] EXCEPT !.seen = @ /\ X]
    BY DEF Draws
  <2>2. ms[i] \in Mutation
    BY DEF AreMuts
  <2> QED
    BY <2>1, <2>2, SeenOnly
<1> QED
  BY <1>1, <1>5, <1>6, <1>7 DEF Drawn

\* What the admin does with the table and the sidebar: the same rows, drawn anew.
LEMMA PickOK ==
  ASSUME ListInv, NEW r \in Row \cup {0}, NEW isCreating \in BOOLEAN, Does, Draws(muts, query.data, r, isCreating),
         UNCHANGED <<page, server, query, hidden, broken, others, failures>>
  PROVE  ListInv'
<1>0. /\ ListTyped /\ query.data \in [Row -> Record] /\ (\A i \in DOMAIN muts : muts[i] \in Mutation)
      /\ server \in [Row -> Record] /\ query \in QueryOf([Row -> Record]) /\ hidden \in SUBSET Row
      /\ broken \in BOOLEAN /\ others \in 0..MaxOthers /\ failures \in 0..MaxFailures /\ muts \in Seq(Mutation)
  BY ListFacts DEF ListInv
<1>1. /\ picked' = r /\ creating' = isCreating
      /\ form' \in [row : Row \cup {0}, version : 0..MaxVersion, dirty : BOOLEAN] /\ FormOK'
      /\ muts' = [i \in DOMAIN muts |-> muts'[i]] /\ \A i \in DOMAIN muts : SameMut(muts[i], muts'[i])
  <2>1. AreMuts(muts)
    BY <1>0 DEF AreMuts
  <2> QED
    BY <1>0, <2>1, DrawsOK DEF Drawn
<1>2. \A i \in DOMAIN muts : MutStep(i) /\ muts'[i] \in Mutation
  BY <1>1 DEF SameMut, MutStep
<1>3. RowsStep /\ ServerStep
  BY DEF RowsStep, Stays, ServerStep
<1>4. steps' \in 0..MaxSteps
  <2>1. steps \in 0..MaxSteps /\ MaxSteps \in Nat
    BY <1>0, ListAssumption DEF ListTyped
  <2> QED
    BY <2>1 DEF Does
<1>5. VersionsOK'
  <2>1. muts' \in Seq(Mutation) /\ DOMAIN muts' = DOMAIN muts
    BY <1>0, <1>1, <1>2, MutsStep
  <2>2. others \in Nat /\ others' = others
    BY <1>0
  <2> QED
    BY <1>2, <2>1, <2>2, VersionsKept DEF MutStep
<1> QED
  BY <1>0, <1>1, <1>2, <1>3, <1>4, <1>5, ListStep

\* Clicking a row, closing the sidebar, and "New".
LEMMA UserDrawsOK ==
  ASSUME ListInv, (\E r \in Row : handleRowClick(r)) \/ handleSidebarClose \/ setModeCreate
  PROVE  ListInv'
<1>0. picked \in Row \cup {0}
  BY DEF ListInv, ListTyped
<1> QED
  BY <1>0, PickOK DEF handleRowClick, handleSidebarClose, setModeCreate

\* Filters, and typing.
LEMMA FilterOK ==
  ASSUME ListInv, (\E hides \in {{}, Filtered} : DataFilterForm(hides)) \/ ProjectFields
  PROVE  ListInv'
<1>0. /\ ListTyped /\ query.data \in [Row -> Record] /\ (\A i \in DOMAIN muts : muts[i] \in Mutation)
      /\ server \in [Row -> Record] /\ query \in QueryOf([Row -> Record]) /\ hidden \in SUBSET Row
      /\ broken \in BOOLEAN /\ others \in 0..MaxOthers /\ failures \in 0..MaxFailures /\ muts \in Seq(Mutation)
      /\ picked \in Row \cup {0} /\ creating \in BOOLEAN /\ FormOK
      /\ form \in [row : Row \cup {0}, version : 0..MaxVersion, dirty : BOOLEAN]
  BY ListFacts DEF ListInv, ListTyped
<1>1. Does /\ UNCHANGED <<page, server, query, picked, creating, broken, others, failures>>
  BY DEF DataFilterForm, ProjectFields
<1>2. /\ hidden' \in SUBSET Row
      /\ form' \in [row : Row \cup {0}, version : 0..MaxVersion, dirty : BOOLEAN]
      /\ FormOK' /\ muts' = [i \in DOMAIN muts |-> muts'[i]] /\ \A i \in DOMAIN muts : SameMut(muts[i], muts'[i])
  <2>1. ASSUME NEW hides \in {{}, Filtered}, DataFilterForm(hides)
        PROVE  /\ hidden' \in SUBSET Row /\ form' = form
               /\ muts' = [i \in DOMAIN muts |-> muts'[i]] /\ \A i \in DOMAIN muts : SameMut(muts[i], muts'[i])
    <3>1. hidden' \in SUBSET Row
      BY <2>1, ListAssumption DEF DataFilterForm
    <3>2. ASSUME NEW i \in DOMAIN muts PROVE SameMut(muts[i], muts'[i])
      <4>1. \E X : muts'[i] = [muts[i] EXCEPT !.seen = @ /\ X]
        BY <2>1 DEF DataFilterForm
      <4> QED
        BY <1>0, <4>1, SeenOnly
    <3> QED
      BY <2>1, <3>1, <3>2 DEF DataFilterForm
  <2>2. CASE ProjectFields
    <3>1. form' = [form EXCEPT !.dirty = TRUE] /\ form.row # 0 /\ UNCHANGED <<hidden, muts>>
      BY <2>2 DEF ProjectFields
    <3>2. /\ form' \in [row : Row \cup {0}, version : 0..MaxVersion, dirty : BOOLEAN]
          /\ form'.row = form.row /\ form'.version = form.version
      BY <1>0, <3>1
    <3>3. FormOK'
      BY <1>0, <1>1, <3>1, <3>2 DEF FormOK
    <3>4. muts' = [i \in DOMAIN muts |-> muts'[i]] /\ \A i \in DOMAIN muts : SameMut(muts[i], muts'[i])
      BY <1>0, <3>1 DEF SameMut
    <3> QED
      BY <1>0, <3>1, <3>2, <3>3, <3>4
  <2>3. form' = form => FormOK'
    BY <1>0, <1>1 DEF FormOK
  <2> QED
    BY <1>0, <2>1, <2>2, <2>3
<1>3. \A i \in DOMAIN muts : MutStep(i) /\ muts'[i] \in Mutation
  BY <1>2 DEF SameMut, MutStep
<1>4. RowsStep /\ ServerStep
  BY <1>1 DEF RowsStep, Stays, ServerStep
<1>5. steps' \in 0..MaxSteps
  <2>1. steps \in 0..MaxSteps /\ MaxSteps \in Nat
    BY <1>0, ListAssumption DEF ListTyped
  <2> QED
    BY <1>1, <2>1 DEF Does
<1>6. VersionsOK'
  <2>1. muts' \in Seq(Mutation) /\ DOMAIN muts' = DOMAIN muts
    BY <1>0, <1>2, <1>3, MutsStep
  <2>2. others \in Nat /\ others' = others
    BY <1>0, <1>1
  <2> QED
    BY <1>1, <1>3, <2>1, <2>2, VersionsKept DEF MutStep
<1> QED
  BY <1>0, <1>1, <1>2, <1>3, <1>4, <1>5, <1>6, ListStep

\* A mutation begins: on a row, unless it makes one or is none of the page's; what it makes
\* on a row that is there already, it makes on a page of dialogs.
LEMMA ListBeginsOK ==
  ASSUME ListInv, NEW kind \in {"delete", "approve", "reject", "edit", "create", "access"},
         NEW from \in {"sidebar", "row"}, NEW r \in Row \cup {0}, Begins(kind, from, r),
         kind \in page.removes \cup {"edit"} => r # 0,
         kind = "create" /\ r # 0 => page.creates = "dialog"
  PROVE  ListInv'
<1>0. ListTyped /\ muts \in Seq(Mutation) /\ MaxMuts \in Nat
  BY ListAssumption DEF ListInv, ListTyped
<1>1. PICK m : m = [kind |-> kind, from |-> from, row |-> r, stage |-> "sent", seen |-> TRUE, shows |-> FALSE]
  OBVIOUS
<1>2. /\ muts' = Append(muts, m) /\ Len(muts) < MaxMuts
      /\ UNCHANGED <<page, server, query, picked, hidden, creating, form, broken, steps, others, failures>>
  BY <1>1 DEF Begins
<1>3. m \in Mutation /\ m.kind = kind /\ m.row = r /\ m.stage = "sent" /\ m.shows = FALSE
  BY <1>1 DEF Mutation
<1>4. /\ muts' \in Seq(Mutation) /\ Len(muts) \in Nat /\ Len(muts') = Len(muts) + 1
      /\ \A i \in DOMAIN muts : i \in DOMAIN muts' /\ muts'[i] = muts[i]
      /\ \A i \in DOMAIN muts' : i \in DOMAIN muts \/ muts'[i] = m
  <2>1. muts' \in Seq(Mutation) /\ Len(muts) \in Nat /\ Len(muts') = Len(muts) + 1
    BY <1>0, <1>2, <1>3
  <2>2. DOMAIN muts = 1..Len(muts) /\ DOMAIN muts' = 1..(Len(muts) + 1)
    BY <1>0, <2>1
  <2>3. muts'[Len(muts) + 1] = m /\ \A i \in 1..Len(muts) : muts'[i] = muts[i]
    BY <1>0, <1>2, <1>3
  <2> QED
    BY <2>1, <2>2, <2>3
<1>5. ASSUME NEW i \in DOMAIN muts' PROVE RowOK(i)'
  <2>1. CASE i \in DOMAIN muts
    <3>1. RowOK(i) /\ muts'[i] = muts[i]
      BY <1>4, <2>1 DEF ListInv
    <3> QED
      BY <1>2, <3>1 DEF RowOK
  <2>2. CASE muts'[i] = m
    BY <1>2, <1>3, <2>2 DEF RowOK
  <2> QED
    BY <1>4, <2>1, <2>2
<1>6. VersionsOK'
  <2>1. others \in Nat /\ others' = others /\ server' = server
    BY <1>0, <1>2 DEF ListTyped
  <2> QED
    BY <1>4, <2>1, VersionsKept
<1>7. ListTyped'
  BY <1>0, <1>2, <1>4 DEF ListTyped
<1>8. FormOK'
  BY <1>2 DEF ListInv, FormOK
<1> QED
  BY <1>5, <1>6, <1>7, <1>8 DEF ListInv

\* The buttons of the sidebar, of a row and of the forms.
LEMMA UserBeginsOK ==
  ASSUME ListInv,
         \/ ProjectSummary \/ TokenSummary \/ AdminProjectSummary
         \/ \E kind \in {"approve", "reject"} :
              RequestSummary(kind) \/ ApprovalSummary(kind) \/ \E r \in Row : RowActions(kind, r)
         \/ projectEdit \/ TokenLifespanDialog \/ CreateProjectForm \/ RequestAccessDialog
         \/ \E r \in Row : QpuTimeRequestDialog(r) \/ PulseAccessRequestDialog(r)
  PROVE  ListInv'
<1>0. /\ ListTyped /\ page \in Pages /\ 0 \notin Row /\ picked \in Row \cup {0}
      /\ form \in [row : Row \cup {0}, version : 0..MaxVersion, dirty : BOOLEAN] /\ FormOK
  BY ListAssumption DEF ListInv, ListTyped
<1>1. page.removes \subseteq {"delete", "approve", "reject"}
  BY <1>0, PageFacts
<1>2. SidebarRow(query.data, picked, creating) \in Row \cup {0}
  BY <1>0 DEF SidebarRow, findSelectedRow
<1>3. form.row \in Row \cup {0} /\ (form.dirty => form.row # 0)
  <2>1. NoForm.dirty = FALSE
    BY DEF NoForm
  <2> QED
    BY <1>0, <2>1 DEF FormOK
<1>4. ASSUME NEW kind \in {"delete", "approve", "reject"}, Closes(kind) PROVE ListInv'
  <2>1. PICK r \in Row \cup {0} : r = SidebarRow(query.data, picked, creating)
    BY <1>2
  <2>2. r # 0 /\ Begins(kind, "sidebar", r)
    BY <1>4, <2>1 DEF Closes
  <2> QED
    BY <2>2, ListBeginsOK
<1>5. CASE ProjectSummary \/ TokenSummary \/ AdminProjectSummary
  BY <1>4, <1>5 DEF ProjectSummary, TokenSummary, AdminProjectSummary
<1>6. ASSUME NEW kind \in {"approve", "reject"}, RequestSummary(kind) \/ ApprovalSummary(kind) PROVE ListInv'
  BY <1>4, <1>6 DEF RequestSummary, ApprovalSummary
<1>7. ASSUME NEW kind \in {"approve", "reject"}, NEW r \in Row, RowActions(kind, r) PROVE ListInv'
  BY <1>0, <1>7, ListBeginsOK DEF RowActions
<1>8. CASE projectEdit \/ TokenLifespanDialog
  <2>1. Begins("edit", "sidebar", form.row) /\ form.row # 0
    BY <1>3, <1>8 DEF projectEdit, TokenLifespanDialog
  <2> QED
    BY <1>3, <2>1, ListBeginsOK
<1>9. CASE CreateProjectForm \/ RequestAccessDialog
  <2>1. PICK kind \in {"create", "access"} : Begins(kind, "sidebar", 0)
    BY <1>9 DEF CreateProjectForm, RequestAccessDialog
  <2>2. kind \notin page.removes \cup {"edit"}
    BY <1>1
  <2> QED
    BY <2>1, <2>2, ListBeginsOK
<1>10. ASSUME NEW r \in Row, QpuTimeRequestDialog(r) \/ PulseAccessRequestDialog(r) PROVE ListInv'
  <2>1. page.creates = "dialog" /\ Begins("create", "sidebar", r) /\ r # 0
    BY <1>0, <1>10 DEF QpuTimeRequestDialog, PulseAccessRequestDialog
  <2> QED
    BY <2>1, ListBeginsOK
<1> QED
  BY <1>5, <1>6, <1>7, <1>8, <1>9, <1>10

-----------------------------------------------------------------------------
\* MSS

\* The outcome of one mutation, with what MSS does to its row.
LEMMA OutcomeOK ==
  ASSUME ListInv, NEW i \in DOMAIN muts, NEW stage \in {"handled", "refused", "done"}, NEW row \in Row \cup {0},
         Outcome(i, stage, row), server' \in [Row -> Record], ServerStep, VersionsOK',
         muts[i].stage \in {"sent", "handled", "refused"},
         muts[i].kind \in page.removes \cup {"edit"} => row = muts[i].row,
         stage = "handled" /\ muts[i].kind \in page.removes => server'[row].state = "closed",
         UNCHANGED <<page, query, picked, hidden, creating, form, steps, others>>,
         broken' \in BOOLEAN, failures' \in 0..MaxFailures
  PROVE  ListInv'
<1>0. /\ ListTyped /\ muts[i] \in Mutation /\ muts \in Seq(Mutation) /\ RowOK(i)
      /\ \A k \in DOMAIN muts : muts[k] \in Mutation
  BY ListFacts DEF ListInv
<1>1. PICK m \in Mutation : m = [muts[i] EXCEPT !.stage = stage, !.row = row]
  BY <1>0 DEF Mutation
<1>2. m.kind = muts[i].kind /\ m.row = row /\ m.stage = stage /\ m.shows = muts[i].shows
  BY <1>0, <1>1 DEF Mutation
<1>3. muts' = [muts EXCEPT ![i] = m]
  BY <1>0, <1>1 DEF Outcome
<1>4. muts'[i] = m /\ (\A k \in DOMAIN muts \ {i} : muts'[k] = muts[k]) /\ muts' = [k \in DOMAIN muts |-> muts'[k]]
  BY <1>0, <1>3
<1>5. RowOK(i)'
  BY <1>0, <1>2, <1>4 DEF RowOK
<1>6. \A k \in DOMAIN muts : muts'[k] \in Mutation /\ (MutStep(k) \/ RowOK(k)')
  BY <1>0, <1>1, <1>4, <1>5 DEF MutStep
<1>7. RowsStep /\ FormOK'
  BY DEF RowsStep, Stays, ListInv, FormOK
<1>8. /\ query' \in QueryOf([Row -> Record]) /\ picked' \in Row \cup {0} /\ hidden' \in SUBSET Row
      /\ creating' \in BOOLEAN /\ form' \in [row : Row \cup {0}, version : 0..MaxVersion, dirty : BOOLEAN]
      /\ steps' \in 0..MaxSteps /\ others' \in 0..MaxOthers
  BY <1>0 DEF ListTyped
<1> QED
  BY <1>4, <1>6, <1>7, <1>8, ListStep

\* The mutations after an outcome: MSS has handled the one that it is of.
LEMMA OutcomeMuts ==
  ASSUME ListTyped, NEW i \in DOMAIN muts, NEW stage \in {"handled", "refused", "done"}, NEW row \in Row \cup {0},
         Outcome(i, stage, row)
  PROVE  /\ muts' \in Seq(Mutation) /\ muts'[i].stage # "sent"
         /\ \A k \in DOMAIN muts : k \in DOMAIN muts' /\ (muts'[k].stage = "sent" => muts[k].stage = "sent")
<1>0. muts \in Seq(Mutation) /\ \A k \in DOMAIN muts : muts[k] \in Mutation
  BY ListFacts
<1>1. PICK m \in Mutation : m = [muts[i] EXCEPT !.stage = stage, !.row = row]
  BY <1>0 DEF Mutation
<1>2. m.stage # "sent"
  BY <1>0, <1>1 DEF Mutation
<1>3. muts' = [muts EXCEPT ![i] = m]
  BY <1>0, <1>1 DEF Outcome
<1>4. /\ muts'[i] = m /\ (\A k \in DOMAIN muts \ {i} : muts'[k] = muts[k])
      /\ muts' = [k \in DOMAIN muts |-> muts'[k]]
  BY <1>0, <1>3
<1>5. muts' \in Seq(Mutation) /\ DOMAIN muts' = DOMAIN muts
  BY <1>0, <1>4, MutsStep
<1> QED
  BY <1>2, <1>4, <1>5

\* An outcome that leaves MSS's rows: the mutation is refused, has failed or is over, or it
\* is of no row that it closes.
LEMMA SameRowsOK ==
  ASSUME ListInv, NEW i \in DOMAIN muts, NEW stage \in {"handled", "refused", "done"}, NEW row \in Row \cup {0},
         Outcome(i, stage, row), muts[i].stage \in {"sent", "handled", "refused"},
         muts[i].kind \in page.removes \cup {"edit"} => row = muts[i].row,
         stage = "handled" => muts[i].kind \notin page.removes,
         UNCHANGED <<page, server, query, picked, hidden, creating, form, steps, others>>,
         broken' \in BOOLEAN, failures' \in 0..MaxFailures
  PROVE  ListInv'
<1>0. ListTyped /\ server \in [Row -> Record] /\ others \in Nat
  BY ListFacts DEF ListInv
<1>1. VersionsOK'
  BY <1>0, OutcomeMuts, VersionsKept
<1>2. ServerStep
  BY DEF ServerStep
<1> QED
  BY <1>0, <1>1, <1>2, OutcomeOK

\* MSS changes a row for a mutation.
LEMMA ChangesOK ==
  ASSUME ListInv, NEW i \in DOMAIN muts, NEW r \in Row, NEW state \in {"open", "closed"}, Changes(i, r, state),
         muts[i].stage = "sent", muts[i].kind \in page.removes \cup {"edit"} => r = muts[i].row,
         muts[i].kind \in page.removes => state = "closed",
         server[r].state = "closed" => page.removes = {},
         UNCHANGED <<page, query, picked, hidden, creating, form, broken, steps, others, failures>>
  PROVE  ListInv'
<1>0. ListTyped /\ broken' \in BOOLEAN /\ failures' \in 0..MaxFailures
  BY ListFacts DEF ListInv
<1>1. /\ Outcome(i, "handled", r)
      /\ server' = [server EXCEPT ![r].state = state, ![r].version = @ + 1]
  BY DEF Changes
<1>2. /\ muts' \in Seq(Mutation) /\ muts'[i].stage # "sent"
      /\ \A k \in DOMAIN muts : k \in DOMAIN muts' /\ (muts'[k].stage = "sent" => muts[k].stage = "sent")
  BY <1>0, <1>1, OutcomeMuts
<1>3. /\ server' \in [Row -> Record] /\ VersionsOK' /\ server'[r].state = state
      /\ \A k \in Row \ {r} : server'[k] = server[k]
  BY <1>1, <1>2, VersionsOne
<1>4. ServerStep
  BY <1>3 DEF ServerStep
<1> QED
  BY <1>0, <1>1, <1>3, <1>4, OutcomeOK

\* MSS handles a mutation, a request fails, or its error is thrown.
LEMMA HandlesOK ==
  ASSUME ListInv, NEW i \in DOMAIN muts,
         \/ approveMyRequest(i) \/ updateAdminProject(i) \/ createAdminProject(i)
         \/ requestQpuTimeExtension(i) \/ requestProjectAccess(i) \/ requestFails(i) \/ onError(i)
  PROVE  ListInv'
<1>0. /\ ListTyped /\ muts[i] \in Mutation /\ muts[i].row \in Row \cup {0} /\ RowOK(i) /\ page \in Pages
      /\ broken \in BOOLEAN /\ failures \in 0..MaxFailures /\ 0 \notin Row /\ muts \in Seq(Mutation)
  BY ListFacts, ListAssumption DEF ListInv, Mutation
<1>1. /\ page.removes \subseteq {"delete", "approve", "reject"}
      /\ page.creates = "dialog" => page.removes = {}
  BY <1>0, PageFacts
<1>2. CASE approveMyRequest(i)
  <2>1. /\ muts[i].stage = "sent" /\ muts[i].kind \in page.removes
        /\ UNCHANGED <<page, query, picked, hidden, creating, form, broken, steps, others, failures>>
    BY <1>2 DEF approveMyRequest
  <2>2. muts[i].row \in Row
    BY <1>0, <2>1 DEF RowOK
  <2>3. CASE server[muts[i].row].state = "open"
    BY <1>2, <2>1, <2>2, <2>3, ChangesOK DEF approveMyRequest
  <2>4. CASE server[muts[i].row].state # "open"
    BY <1>0, <1>2, <2>1, <2>4, SameRowsOK DEF approveMyRequest, Refuses
  <2> QED
    BY <2>3, <2>4
<1>3. CASE updateAdminProject(i)
  <2>1. /\ muts[i].stage = "sent" /\ muts[i].kind = "edit"
        /\ UNCHANGED <<page, query, picked, hidden, creating, form, broken, steps, others, failures>>
    BY <1>3 DEF updateAdminProject
  <2>2. muts[i].row \in Row /\ muts[i].kind \notin page.removes
    BY <1>0, <1>1, <2>1 DEF RowOK
  <2>3. CASE server[muts[i].row].state = "open"
    BY <1>3, <2>1, <2>2, <2>3, ChangesOK DEF updateAdminProject
  <2>4. CASE server[muts[i].row].state # "open"
    BY <1>0, <1>3, <2>1, <2>4, SameRowsOK DEF updateAdminProject, Refuses
  <2> QED
    BY <2>3, <2>4
<1>4. CASE createAdminProject(i)
  <2>1. /\ muts[i].stage = "sent" /\ muts[i].kind = "create"
        /\ UNCHANGED <<page, query, picked, hidden, creating, form, broken, steps, others, failures>>
    BY <1>4 DEF createAdminProject
  <2>2. PICK r \in Row : server[r].state = "none" /\ Changes(i, r, "open")
    BY <1>4 DEF createAdminProject
  <2>3. muts[i].kind \notin page.removes \cup {"edit"}
    BY <1>1, <2>1
  <2> QED
    BY <2>1, <2>2, <2>3, ChangesOK
<1>5. CASE requestQpuTimeExtension(i)
  <2>1. /\ muts[i].stage = "sent" /\ muts[i].kind = "create" /\ muts[i].row # 0
        /\ UNCHANGED <<page, query, picked, hidden, creating, form, broken, steps, others, failures>>
    BY <1>5 DEF requestQpuTimeExtension
  <2>2. muts[i].row \in Row /\ muts[i].kind \notin page.removes \cup {"edit"} /\ page.removes = {}
    BY <1>0, <1>1, <2>1 DEF RowOK
  <2>3. CASE server[muts[i].row].state # "open"
    BY <1>5, <2>1, <2>2, <2>3, ChangesOK DEF requestQpuTimeExtension
  <2>4. CASE server[muts[i].row].state = "open"
    BY <1>0, <1>5, <2>1, <2>2, <2>4, SameRowsOK DEF requestQpuTimeExtension
  <2> QED
    BY <2>3, <2>4
<1>6. CASE requestProjectAccess(i)
  <2>1. /\ muts[i].stage = "sent" /\ muts[i].kind = "access"
        /\ UNCHANGED <<page, server, query, picked, hidden, creating, form, broken, steps, others, failures>>
        /\ Outcome(i, "refused", muts[i].row) \/ Outcome(i, "handled", 0)
    BY <1>6 DEF requestProjectAccess, Refuses
  <2>2. muts[i].kind \notin page.removes \cup {"edit"}
    BY <1>1, <2>1
  <2> QED
    BY <1>0, <2>1, <2>2, SameRowsOK
<1>7. CASE requestFails(i)
  <2>1. failures' \in 0..MaxFailures
    BY <1>0, <1>7, ListAssumption DEF requestFails
  <2> QED
    BY <1>0, <1>7, <2>1, SameRowsOK DEF requestFails
<1>8. CASE onError(i)
  <2>1. muts' = [muts EXCEPT ![i].stage = "done"]
    BY <1>8 DEF onError
  <2>2. [muts[i] EXCEPT !.stage = "done"] = [muts[i] EXCEPT !.stage = "done", !.row = muts[i].row]
    BY <1>0 DEF Mutation
  <2>3. Outcome(i, "done", muts[i].row)
    BY <1>0, <2>1, <2>2 DEF Outcome
  <2>4. broken' \in BOOLEAN
    BY <1>8 DEF onError
  <2>5. /\ muts[i].stage = "refused" /\ failures' \in 0..MaxFailures
        /\ UNCHANGED <<page, server, query, picked, hidden, creating, form, steps, others>>
    BY <1>0, <1>8 DEF onError
  <2> QED
    BY <1>0, <2>3, <2>4, <2>5, SameRowsOK
<1> QED
  BY <1>2, <1>3, <1>4, <1>5, <1>6, <1>7, <1>8

\* Others change a row: one that is closed stays closed.
LEMMA OthersOK ==
  ASSUME ListInv, NEW r \in Row, NEW state \in {"open", "closed"}, otherChanges(r, state)
  PROVE  ListInv'
<1>0. /\ ListTyped /\ muts \in Seq(Mutation) /\ (\A k \in DOMAIN muts : muts[k] \in Mutation)
      /\ others \in 0..MaxOthers /\ MaxOthers \in Nat
  BY ListFacts, ListAssumption DEF ListInv
<1>1. /\ others < MaxOthers /\ others' = others + 1 /\ server[r].state = "open"
      /\ server' = [server EXCEPT ![r].state = state, ![r].version = @ + 1]
      /\ UNCHANGED <<page, query, picked, hidden, creating, form, muts, broken, steps, failures>>
  BY DEF otherChanges
<1>2. muts' \in Seq(Mutation) /\ \A k \in DOMAIN muts : k \in DOMAIN muts' /\ muts'[k] = muts[k]
  BY <1>0, <1>1
<1>3. /\ server' \in [Row -> Record] /\ VersionsOK' /\ server'[r].state = state
      /\ \A k \in Row \ {r} : server'[k] = server[k]
  BY <1>1, <1>2, VersionsOne
<1>4. ServerStep /\ RowsStep /\ FormOK'
  <2>1. ServerStep
    BY <1>1, <1>3 DEF ServerStep
  <2>2. RowsStep
    BY <1>1 DEF RowsStep, Stays
  <2>3. FormOK'
    BY <1>1 DEF ListInv, FormOK
  <2> QED
    BY <2>1, <2>2, <2>3
<1>5. \A k \in DOMAIN muts : muts'[k] \in Mutation /\ MutStep(k)
  BY <1>0, <1>2 DEF MutStep
<1>6. /\ query' \in QueryOf([Row -> Record]) /\ picked' \in Row \cup {0} /\ hidden' \in SUBSET Row
      /\ creating' \in BOOLEAN /\ form' \in [row : Row \cup {0}, version : 0..MaxVersion, dirty : BOOLEAN]
      /\ steps' \in 0..MaxSteps /\ broken' \in BOOLEAN /\ failures' \in 0..MaxFailures
  BY <1>0, <1>1 DEF ListTyped
<1>7. others' \in 0..MaxOthers
  BY <1>0, <1>1
<1>8. muts' = [k \in DOMAIN muts |-> muts'[k]]
  BY <1>0, <1>1
<1> QED
  BY <1>1, <1>3, <1>4, <1>5, <1>6, <1>7, <1>8, ListStep

-----------------------------------------------------------------------------
\* The mutations' answers, and the query

\* A mutation that is drawn goes on from what it was, or its answer has just come: then the
\* fetch that shows its row is yet to be answered
GoesOn(m, n) ==
    /\ n.kind = m.kind /\ n.row = m.row
    /\ n.stage = "sent" => m.stage = "sent"
    /\ n.stage \in {"handled", "refreshing"} => m.stage \in {"handled", "refreshing"}
    /\ n.stage \in {"sent", "handled", "refused"} => m.stage \in {"sent", "handled", "refused"}
    /\ n.shows => m.shows
    /\ n.shows /\ n.stage = "done" => m.stage = "done" \/ Arrives
IsAnswered(m, n) ==
    /\ n.kind = m.kind /\ n.row = m.row /\ m.stage = "handled" /\ n.stage \in {"refreshing", "done"}
    /\ n.shows => n.stage = "refreshing" /\ query'.fetch = "sent"

\* The page is drawn with other rows, or with mutations that are answered.
LEMMA RedrawOK ==
  ASSUME ListInv, NEW ms, DOMAIN ms = DOMAIN muts, NEW rows \in [Row -> Record], NEW r \in Row \cup {0},
         NEW isCreating \in BOOLEAN, Draws(ms, rows, r, isCreating),
         query' \in QueryOf([Row -> Record]), query'.data = rows, RowsStep,
         \A i \in DOMAIN muts : /\ ms[i] \in Mutation
                                /\ GoesOn(muts[i], ms[i]) \/ IsAnswered(muts[i], ms[i]),
         UNCHANGED <<page, server, hidden, broken, steps, failures>>, others' \in 0..MaxOthers, others <= others'
  PROVE  ListInv'
<1>0. /\ ListTyped /\ (\A i \in DOMAIN muts : muts[i] \in Mutation) /\ muts \in Seq(Mutation) /\ page \in Pages
      /\ server' \in [Row -> Record] /\ hidden' \in SUBSET Row /\ steps' \in 0..MaxSteps
      /\ broken' \in BOOLEAN /\ failures' \in 0..MaxFailures /\ others' \in Nat
  BY ListFacts DEF ListInv
<1>1. /\ picked' = r /\ creating' = isCreating
      /\ form' \in [row : Row \cup {0}, version : 0..MaxVersion, dirty : BOOLEAN] /\ FormOK'
      /\ muts' = [i \in DOMAIN muts |-> muts'[i]] /\ \A i \in DOMAIN muts : SameMut(ms[i], muts'[i])
  <2>1. AreMuts(ms)
    BY DEF AreMuts
  <2>2. Drawn(ms, r, isCreating)
    BY <1>0, <2>1, DrawsOK
  <2> QED
    BY <2>2 DEF Drawn
<1>2. ServerStep
  BY DEF ServerStep
<1>3. ASSUME NEW i \in DOMAIN muts
      PROVE  /\ muts'[i] \in Mutation /\ (MutStep(i) \/ RowOK(i)')
             /\ muts'[i].stage = "sent" => muts[i].stage = "sent"
  <2>1. SameMut(ms[i], muts'[i]) /\ RowOK(i)
    BY <1>1 DEF ListInv
  <2>2. CASE GoesOn(muts[i], ms[i])
    BY <2>1, <2>2 DEF SameMut, GoesOn, MutStep
  <2>3. CASE IsAnswered(muts[i], ms[i])
    <3>1. /\ muts'[i].kind = muts[i].kind /\ muts'[i].row = muts[i].row /\ muts[i].stage = "handled"
          /\ muts'[i].stage \in {"refreshing", "done"} /\ muts'[i] \in Mutation
          /\ muts'[i].shows => muts'[i].stage = "refreshing" /\ query'.fetch = "sent"
      BY <2>1, <2>3 DEF SameMut, IsAnswered
    <3> QED
      BY <2>1, <3>1 DEF RowOK
  <2> QED
    BY <2>2, <2>3
<1>4. VersionsOK'
  <2>1. muts' \in Seq(Mutation) /\ DOMAIN muts' = DOMAIN muts
    BY <1>0, <1>1, <1>3, MutsStep
  <2> QED
    BY <1>0, <1>3, <2>1, VersionsKept
<1> QED
  BY <1>0, <1>1, <1>2, <1>3, <1>4, ListStep

\* Mutations whose fetch is dropped or has failed are over, and show nothing.
LEMMA ReleasedGoOn ==
  ASSUME ListTyped
  PROVE  /\ DOMAIN Released(muts) = DOMAIN muts
         /\ \A i \in DOMAIN muts : Released(muts)[i] \in Mutation /\ GoesOn(muts[i], Released(muts)[i])
<1>1. DOMAIN Released(muts) = DOMAIN muts
  BY DEF Released
<1>2. ASSUME NEW i \in DOMAIN muts PROVE Released(muts)[i] \in Mutation /\ GoesOn(muts[i], Released(muts)[i])
  <2>0. muts[i] \in Mutation
    BY ListFacts
  <2>1. CASE muts[i].stage # "refreshing"
    <3>1. Released(muts)[i] = muts[i]
      BY <2>1 DEF Released
    <3> QED
      BY <2>0, <3>1 DEF GoesOn
  <2>2. CASE muts[i].stage = "refreshing"
    <3>1. PICK n : n = [muts[i] EXCEPT !.stage = "done", !.shows = FALSE]
      OBVIOUS
    <3>2. Released(muts)[i] = n
      BY <2>2, <3>1 DEF Released
    <3>3. n \in Mutation /\ n.kind = muts[i].kind /\ n.row = muts[i].row /\ n.stage = "done" /\ n.shows = FALSE
      BY <2>0, <3>1 DEF Mutation
    <3> QED
      BY <3>2, <3>3 DEF GoesOn
  <2> QED
    BY <2>1, <2>2
<1> QED
  BY <1>1, <1>2

\* What the parent's callback draws with.
LEMMA CallbackDraws ==
  ASSUME ListTyped, NEW ms, NEW m, NEW rows, Callback(ms, m, rows)
  PROVE  \E r \in Row \cup {0}, isCreating \in BOOLEAN : Draws(ms, rows, r, isCreating)
<1>0. picked \in Row \cup {0} /\ creating \in BOOLEAN
  BY DEF ListTyped
<1>1. PICK r \in Row \cup {0}, kind \in {"edit", "create"} : Draws(ms, rows, r, creating /\ m.kind # kind)
  BY <1>0 DEF Callback
<1>2. (creating /\ m.kind # kind) \in BOOLEAN
  OBVIOUS
<1> QED
  BY <1>1, <1>2, Zenon

\* A mutation is answered: it awaits a fetch or is done, and the others go on.
LEMMA SuccessAnswers ==
  ASSUME ListInv, NEW i \in DOMAIN muts, onSuccess(i)
  PROVE  \E ms : \E r \in Row \cup {0}, isCreating \in BOOLEAN :
           /\ DOMAIN ms = DOMAIN muts /\ IsAnswered(muts[i], ms[i]) /\ Draws(ms, query.data, r, isCreating)
           /\ \A k \in DOMAIN muts : ms[k] \in Mutation /\ (GoesOn(muts[k], ms[k]) \/ IsAnswered(muts[k], ms[k]))
<1>0. /\ ListTyped /\ (\A k \in DOMAIN muts : muts[k] \in Mutation) /\ query \in QueryOf([Row -> Record])
      /\ query.data \in [Row -> Record] /\ others \in 0..MaxOthers
  BY ListFacts DEF ListInv
<1>1. PICK joins \in BOOLEAN : joins = JoinsFirstFetch(query)
  BY DEF JoinsFirstFetch
<1>2. PICK base : base = IF JoinsFirstFetch(query) THEN muts ELSE Released(muts)
  OBVIOUS
<1>3. /\ DOMAIN base = DOMAIN muts
      /\ \A k \in DOMAIN muts : base[k] \in Mutation /\ GoesOn(muts[k], base[k])
  <2>1. CASE base = muts
    BY <1>0, <2>1 DEF GoesOn
  <2>2. CASE base = Released(muts)
    BY <1>0, <2>2, ReleasedGoOn
  <2> QED
    BY <1>2, <2>1, <2>2
<1>4. PICK stage, shows, ms :
        /\ stage \in {"refreshing", "done"} /\ shows \in BOOLEAN
        /\ ms = [base EXCEPT ![i] = [base[i] EXCEPT !.stage = stage, !.shows = shows]]
        /\ shows => stage = "refreshing" /\ ~JoinsFirstFetch(query)
        /\ Callback(ms, muts[i], query.data)
  <2>1. PICK n : n = ~joins /\ n \in BOOLEAN
    BY Zenon
  <2>2. Refreshing(i) = [base EXCEPT ![i].stage = "refreshing", ![i].shows = n]
    BY <1>1, <1>2, <2>1 DEF Refreshing
  <2>3. CASE page = Tokens /\ muts[i].kind = "edit"
    <3>1. PICK ms : ms = [Refreshing(i) EXCEPT ![i].stage = "done", ![i].shows = FALSE]
      OBVIOUS
    <3>2. Callback(ms, muts[i], query.data)
      BY <2>3, <3>1 DEF onSuccess
    <3>3. base[i] \in Mutation
      BY <1>3
    <3>4. Refreshing(i) = [base EXCEPT ![i] = [base[i] EXCEPT !.stage = "refreshing", !.shows = n]]
      BY <1>3, <2>2
    <3>5. [[base[i] EXCEPT !.stage = "refreshing", !.shows = n] EXCEPT !.stage = "done", !.shows = FALSE]
            = [base[i] EXCEPT !.stage = "done", !.shows = FALSE]
      BY <3>3 DEF Mutation
    <3>6. ms = [base EXCEPT ![i] = [base[i] EXCEPT !.stage = "done", !.shows = FALSE]]
      BY <1>3, <3>1, <3>4, <3>5
    <3> QED
      BY <3>2, <3>6
  <2>4. CASE ~(page = Tokens /\ muts[i].kind = "edit")
    <3>1. Callback(Refreshing(i), muts[i], query.data)
      BY <2>4 DEF onSuccess
    <3>2. Refreshing(i) = [base EXCEPT ![i] = [base[i] EXCEPT !.stage = "refreshing", !.shows = n]]
      BY <1>3, <2>2
    <3>3. n => ~JoinsFirstFetch(query)
      BY <1>1, <2>1
    <3> QED
      BY <2>1, <3>1, <3>2, <3>3
  <2> QED
    BY <2>3, <2>4
<1>5. PICK r \in Row \cup {0}, isCreating \in BOOLEAN : Draws(ms, query.data, r, isCreating)
  BY <1>0, <1>4, CallbackDraws
<1>6. /\ query' = Invalidate(query) /\ muts[i].stage = "handled"
  BY DEF onSuccess
<1>7. /\ query' \in QueryOf([Row -> Record]) /\ query'.data = query.data
      /\ query'.fetch = "answered" => query.fetch = "answered" /\ query'.answer = query.answer
      /\ ~JoinsFirstFetch(query) => query'.fetch = "sent"
  BY <1>0, <1>6 DEF Invalidate, QueryOf
<1>8. DOMAIN ms = DOMAIN muts /\ ms[i] = [base[i] EXCEPT !.stage = stage, !.shows = shows]
      /\ \A k \in DOMAIN muts \ {i} : ms[k] = base[k]
  BY <1>3, <1>4
<1>9. ms[i] \in Mutation /\ IsAnswered(muts[i], ms[i])
  <2>1. base[i] \in Mutation /\ base[i].kind = muts[i].kind /\ base[i].row = muts[i].row
    BY <1>3 DEF GoesOn
  <2>2. /\ ms[i] \in Mutation /\ ms[i].kind = base[i].kind /\ ms[i].row = base[i].row
        /\ ms[i].stage = stage /\ ms[i].shows = shows
    <3>1. stage \in {"refreshing", "done"} /\ shows \in BOOLEAN
      BY <1>4
    <3> QED
      BY <1>8, <2>1, <3>1 DEF Mutation
  <2>3. ms[i].shows => ms[i].stage = "refreshing" /\ query'.fetch = "sent"
    <3>1. ms[i].shows = shows /\ ms[i].stage = stage
      BY <2>2
    <3>2. shows => stage = "refreshing" /\ query'.fetch = "sent"
      BY <1>4, <1>7, Zenon
    <3> QED
      BY <3>1, <3>2, Zenon
  <2>4. ms[i].stage \in {"refreshing", "done"}
    BY <1>4, <2>2
  <2> QED
    BY <1>6, <2>1, <2>2, <2>3, <2>4 DEF IsAnswered
<1>10. \A k \in DOMAIN muts : ms[k] \in Mutation /\ (GoesOn(muts[k], ms[k]) \/ IsAnswered(muts[k], ms[k]))
  BY <1>3, <1>8, <1>9
<1> QED
  BY <1>5, <1>8, <1>9, <1>10

\* A mutation is answered: the list is invalidated.
LEMMA SuccessOK == ASSUME ListInv, NEW i \in DOMAIN muts, onSuccess(i) PROVE ListInv'
<1>1. PICK ms : \E r \in Row \cup {0}, isCreating \in BOOLEAN :
        /\ DOMAIN ms = DOMAIN muts /\ IsAnswered(muts[i], ms[i]) /\ Draws(ms, query.data, r, isCreating)
        /\ \A k \in DOMAIN muts : ms[k] \in Mutation /\ (GoesOn(muts[k], ms[k]) \/ IsAnswered(muts[k], ms[k]))
  BY SuccessAnswers, Zenon
<1>2. /\ query \in QueryOf([Row -> Record]) /\ query.data \in [Row -> Record] /\ others \in 0..MaxOthers
  BY ListFacts DEF ListInv
<1>3. /\ query' = Invalidate(query) /\ UNCHANGED <<page, server, hidden, broken, steps, others, failures>>
  BY DEF onSuccess
<1>4. /\ query' \in QueryOf([Row -> Record]) /\ query'.data = query.data
      /\ query'.fetch = "answered" => query.fetch = "answered" /\ query'.answer = query.answer
  BY <1>2, <1>3 DEF Invalidate, QueryOf
<1>5. RowsStep
  BY <1>3, <1>4 DEF RowsStep, Stays
<1>6. others' \in 0..MaxOthers /\ others <= others'
  BY <1>2, <1>3
<1> QED
  BY <1>1, <1>2, <1>3, <1>4, <1>5, <1>6, RedrawOK

\* The rows arrive: what awaited them is over, and shows what they are.
LEMMA RowsArriveOK == ASSUME ListInv, rowsArrive PROVE ListInv'
<1>0. /\ ListTyped /\ (\A k \in DOMAIN muts : muts[k] \in Mutation) /\ query \in QueryOf([Row -> Record])
      /\ query.answer \in [Row -> Record] /\ others \in 0..MaxOthers /\ picked \in Row \cup {0} /\ creating \in BOOLEAN
  BY ListFacts DEF ListInv
<1>1. PICK ms : ms = [i \in DOMAIN muts |-> IF muts[i].stage = "refreshing" THEN [muts[i] EXCEPT !.stage = "done"]
                                            ELSE muts[i]]
  OBVIOUS
<1>2. /\ query.fetch = "answered" /\ query' = Applied(query)
      /\ Draws(ms, query.answer, picked, creating)
      /\ UNCHANGED <<page, server, hidden, broken, steps, others, failures>>
  BY <1>1 DEF rowsArrive
<1>3. query' \in QueryOf([Row -> Record]) /\ query'.data = query.answer /\ query'.fetch = "idle"
  BY <1>0, <1>2 DEF Applied, QueryOf
<1>4. Arrives /\ RowsStep
  BY <1>2, <1>3 DEF Arrives, RowsStep
<1>5. DOMAIN ms = DOMAIN muts
  BY <1>1
<1>6. ASSUME NEW i \in DOMAIN muts PROVE ms[i] \in Mutation /\ GoesOn(muts[i], ms[i])
  <2>1. CASE muts[i].stage # "refreshing"
    <3>1. ms[i] = muts[i]
      BY <1>1, <2>1
    <3> QED
      BY <1>0, <3>1 DEF GoesOn
  <2>2. CASE muts[i].stage = "refreshing"
    <3>1. ms[i] = [muts[i] EXCEPT !.stage = "done"]
      BY <1>1, <2>2
    <3>2. /\ ms[i] \in Mutation /\ ms[i].kind = muts[i].kind /\ ms[i].row = muts[i].row
          /\ ms[i].stage = "done" /\ ms[i].shows = muts[i].shows
      BY <1>0, <3>1 DEF Mutation
    <3> QED
      BY <1>4, <3>2 DEF GoesOn
  <2> QED
    BY <2>1, <2>2
<1>7. \A i \in DOMAIN muts : ms[i] \in Mutation /\ (GoesOn(muts[i], ms[i]) \/ IsAnswered(muts[i], ms[i]))
  BY <1>6
<1>8. UNCHANGED <<page, server, hidden, broken, steps, failures>> /\ others' \in 0..MaxOthers /\ others <= others'
  BY <1>0, <1>2
<1> QED
  BY <1>0, <1>2, <1>3, <1>4, <1>5, <1>7, <1>8, RedrawOK

\* The key of the query changes: the rows are new ones, and no answer to it is on its way.
LEMMA RekeyOK == ASSUME ListInv, rekey PROVE ListInv'
<1>0. /\ ListTyped /\ server \in [Row -> Record] /\ others \in 0..MaxOthers /\ MaxOthers \in Nat
      /\ picked \in Row \cup {0} /\ creating \in BOOLEAN
  BY ListFacts, ListAssumption DEF ListInv
<1>1. /\ others < MaxOthers /\ others' = others + 1
      /\ UNCHANGED <<page, server, hidden, broken, steps, failures>>
  BY DEF rekey
<1>2. PICK rows \in {Listed(server), Nothing}, r \in Row \cup {0}, has \in BOOLEAN :
        /\ query' = [has |-> has, data |-> rows, fetch |-> "sent", answer |-> rows]
        /\ Draws(Released(muts), rows, r, creating)
  <2>1. CASE page = Tokens
    <3>1. query' = Refetch(LoadedQuery(Listed(server))) /\ Draws(Released(muts), Listed(server), 0, creating)
      BY <2>1 DEF rekey
    <3>2. query' = [has |-> TRUE, data |-> Listed(server), fetch |-> "sent", answer |-> Listed(server)]
      BY <3>1 DEF Refetch, LoadedQuery, NewQuery
    <3>3. 0 \in Row \cup {0} /\ TRUE \in BOOLEAN /\ Listed(server) \in {Listed(server), Nothing}
      OBVIOUS
    <3> QED
      BY <3>1, <3>2, <3>3, Zenon
  <2>2. CASE page # Tokens
    <3>1. query' = Refetch(NewQuery(Nothing)) /\ Draws(Released(muts), Nothing, picked, creating)
      BY <2>2 DEF rekey
    <3>2. query' = [has |-> FALSE, data |-> Nothing, fetch |-> "sent", answer |-> Nothing]
      BY <3>1 DEF Refetch, NewQuery
    <3>3. picked \in Row \cup {0} /\ FALSE \in BOOLEAN /\ Nothing \in {Listed(server), Nothing}
      BY <1>0
    <3> QED
      BY <3>1, <3>2, <3>3, Zenon
  <2> QED
    BY <2>1, <2>2
<1>3. rows \in [Row -> Record]
  BY <1>0, ListedOK
<1>4. query' \in QueryOf([Row -> Record]) /\ query'.data = rows /\ query'.fetch = "sent"
  BY <1>2, <1>3 DEF QueryOf
<1>5. RowsStep
  BY <1>1, <1>4 DEF RowsStep, Anew
<1>6. /\ DOMAIN Released(muts) = DOMAIN muts
      /\ \A i \in DOMAIN muts : /\ Released(muts)[i] \in Mutation
                                /\ GoesOn(muts[i], Released(muts)[i]) \/ IsAnswered(muts[i], Released(muts)[i])
  BY <1>0, ReleasedGoOn
<1>7. others' \in 0..MaxOthers /\ others <= others'
  BY <1>0, <1>1
<1> QED
  BY <1>0, <1>1, <1>2, <1>3, <1>4, <1>5, <1>6, <1>7, RedrawOK

\* The query is polled or answered, or its fetch gives up.
LEMMA ListQueryOK == ASSUME ListInv, poll \/ getRows \/ fetchFails PROVE ListInv'
<1>0. /\ ListTyped /\ server \in [Row -> Record] /\ query \in QueryOf([Row -> Record]) /\ muts \in Seq(Mutation)
      /\ (\A k \in DOMAIN muts : muts[k] \in Mutation) /\ failures \in 0..MaxFailures /\ broken \in BOOLEAN
      /\ FormOK /\ others \in Nat
  BY ListFacts DEF ListInv
<1>1. UNCHANGED <<page, server, picked, hidden, creating, form, steps, others>>
  BY DEF poll, getRows, fetchFails
<1>2. /\ query' \in QueryOf([Row -> Record]) /\ query'.data = query.data
      /\ query'.fetch = "answered" => \/ query.fetch = "answered" /\ query'.answer = query.answer
                                      \/ query'.answer = Listed(server)
  <2>1. CASE poll
    BY <1>0, <2>1 DEF poll, Refetch, QueryOf
  <2>2. CASE getRows
    <3>1. Listed(server) \in [Row -> Record]
      BY <1>0, ListedOK
    <3> QED
      BY <1>0, <2>2, <3>1 DEF getRows, Answer, QueryOf
  <2>3. CASE fetchFails
    BY <1>0, <2>3 DEF fetchFails, Dropped, QueryOf
  <2> QED
    BY <2>1, <2>2, <2>3
<1>3. RowsStep /\ ServerStep
  BY <1>1, <1>2 DEF RowsStep, Stays, ServerStep
<1>4. FormOK'
  BY <1>0, <1>1, <1>2 DEF FormOK
<1>5. muts' = [i \in DOMAIN muts |-> muts'[i]] /\ \A i \in DOMAIN muts : muts'[i] \in Mutation /\ MutStep(i)
  <2>1. CASE muts' = muts
    BY <1>0, <2>1 DEF MutStep
  <2>2. CASE muts' = Released(muts)
    <3>1. muts' = [i \in DOMAIN muts |-> muts'[i]]
      BY <2>2 DEF Released
    <3>2. \A i \in DOMAIN muts : muts'[i] \in Mutation /\ GoesOn(muts[i], muts'[i])
      BY <1>0, <2>2, ReleasedGoOn
    <3> QED
      BY <3>1, <3>2 DEF GoesOn, MutStep
  <2> QED
    BY <2>1, <2>2 DEF poll, getRows, fetchFails
<1>6. failures' \in 0..MaxFailures
  BY <1>0, ListAssumption DEF poll, getRows, fetchFails
<1>7. broken' \in BOOLEAN
  BY <1>0 DEF poll, getRows, fetchFails
<1>8. VersionsOK'
  <2>1. muts' \in Seq(Mutation) /\ DOMAIN muts' = DOMAIN muts
    BY <1>0, <1>5, MutsStep
  <2> QED
    BY <1>0, <1>1, <1>5, <2>1, VersionsKept DEF MutStep
<1>9. /\ server' \in [Row -> Record] /\ picked' \in Row \cup {0} /\ hidden' \in SUBSET Row /\ creating' \in BOOLEAN
      /\ form' \in [row : Row \cup {0}, version : 0..MaxVersion, dirty : BOOLEAN]
      /\ steps' \in 0..MaxSteps /\ others' \in 0..MaxOthers /\ page' = page
  BY <1>0, <1>1 DEF ListTyped
<1> QED
  BY <1>2, <1>3, <1>4, <1>5, <1>6, <1>7, <1>8, <1>9, ListStep

\* A page begins with its invariant.
LEMMA ListInitOK == ASSUME Init PROVE ListInv
<1>1. /\ page \in Pages /\ picked = 0 /\ hidden = {} /\ creating = FALSE /\ broken = FALSE /\ form = NoForm
      /\ muts = <<>> /\ steps = 0 /\ others = 0 /\ failures = 0 /\ query = LoadedQuery(Listed(server))
  BY DEF Init
<1>2. 0 \in 0..MaxVersion /\ 0 \in 0..MaxSteps /\ 0 \in 0..MaxOthers /\ 0 \in 0..MaxFailures /\ MaxMuts \in Nat
  BY ListAssumption DEF MaxVersion
<1>3. server \in [Row -> Record] /\ \A r \in Row : server[r].version = 0
  <2>1. [state |-> "open", version |-> 0] \in Record /\ NoRecord \in Record /\ NoRecord.version = 0
    BY <1>2 DEF Record, NoRecord
  <2>2. \A r \in Row : server[r] \in {[state |-> "open", version |-> 0], NoRecord}
    BY DEF Init
  <2>3. \A r \in Row : server[r] \in Record /\ server[r].version = 0
    BY <2>1, <2>2
  <2> QED
    BY <2>3 DEF Init
<1>4. query \in QueryOf([Row -> Record])
  <2>1. Listed(server) \in [Row -> Record]
    BY <1>3, ListedOK
  <2> QED
    BY <1>1, <2>1 DEF LoadedQuery, NewQuery, QueryOf
<1>5. muts \in Seq(Mutation) /\ DOMAIN muts = {} /\ Len(muts) = 0
  BY <1>1
<1>6. form \in [row : Row \cup {0}, version : 0..MaxVersion, dirty : BOOLEAN] /\ form.row = 0
  BY <1>1, <1>2 DEF NoForm
<1>7. ListTyped
  <2>1. picked \in Row \cup {0} /\ hidden \in SUBSET Row /\ creating \in BOOLEAN /\ broken \in BOOLEAN
    BY <1>1
  <2>2. steps \in 0..MaxSteps /\ others \in 0..MaxOthers /\ failures \in 0..MaxFailures
    BY <1>1, <1>2
  <2>3. Len(muts) <= MaxMuts
    BY <1>2, <1>5
  <2>4. page \in Pages
    BY <1>1
  <2> QED
    BY <1>3, <1>4, <1>5, <1>6, <2>1, <2>2, <2>3, <2>4 DEF ListTyped
<1>8. FormOK
  BY <1>1, <1>6 DEF FormOK, SidebarRow, findSelectedRow
<1>9. VersionsOK
  <2>1. HandledMuts = {}
    BY <1>5 DEF HandledMuts
  <2>2. Cardinality(HandledMuts) = 0
    BY <2>1, FS_EmptySet
  <2> QED
    BY <1>1, <1>3, <2>2 DEF VersionsOK
<1> QED
  BY <1>5, <1>7, <1>8, <1>9 DEF ListInv

\* Every step of a page keeps its invariant.
LEMMA ListNextOK == ASSUME ListInv, [Next]_vars PROVE ListInv'
<1>1. CASE UserStep
  BY <1>1, UserDrawsOK, UserBeginsOK, FilterOK DEF UserStep
<1>2. ASSUME NEW i \in DOMAIN muts, AnswerStep(i) \/ requestFails(i) PROVE ListInv'
  BY <1>2, HandlesOK, SuccessOK DEF AnswerStep
<1>3. CASE \E r \in Row, state \in {"open", "closed"} : otherChanges(r, state)
  BY <1>3, OthersOK
<1>4. CASE poll \/ FetchStep \/ fetchFails \/ rekey
  BY <1>4, ListQueryOK, RowsArriveOK, RekeyOK DEF FetchStep
<1>5. CASE UNCHANGED vars
  <2>1. UNCHANGED <<page, server, query, picked, hidden, creating, form, muts, broken, steps, others, failures>>
    BY <1>5 DEF vars
  <2>2. ListTyped' /\ FormOK'
    BY <2>1 DEF ListInv, ListTyped, FormOK
  <2>3. VersionsOK'
    BY <2>1 DEF ListInv, VersionsOK, HandledMuts
  <2>4. \A i \in DOMAIN muts' : RowOK(i)'
    BY <2>1 DEF ListInv, RowOK
  <2> QED
    BY <2>2, <2>3, <2>4 DEF ListInv
<1> QED
  BY <1>1, <1>2, <1>3, <1>4, <1>5 DEF Next

\* The invariant of a page of a list holds throughout.
THEOREM ListInvariant == Spec => []ListInv
<1>1. Init => ListInv
  BY ListInitOK
<1>2. ListInv /\ [Next]_vars => ListInv'
  BY ListNextOK
<1> QED
  BY <1>1, <1>2, PTL DEF Spec

\* The variables of a page of a list are of their types, whatever pages, rows and bounds there
\* are: what is drawn, what the mutations await, and every version of a row.
THEOREM ListTypeCorrect == Spec => []TypeOK
<1>1. ListInv => TypeOK
  <2> SUFFICES ASSUME ListInv PROVE TypeOK
    OBVIOUS
  <2>1. \A m \in DOMAIN muts : muts[m] \in Mutation
    BY ListFacts DEF ListInv
  <2>2. {creating, broken} \subseteq BOOLEAN
    BY DEF ListInv, ListTyped
  <2> QED
    BY <2>1, <2>2 DEF ListInv, ListTyped, TypeOK
<1> QED
  BY <1>1, ListInvariant, PTL

\* What is typed is of the row that the sidebar shows, as the table has it: useForm's values
\* follow every pick, answer and change of mode, on every page.
THEOREM TypedValuesAreOfTheRow == Spec => []TypedIsOfRow
<1>1. ListInv => TypedIsOfRow
  BY DEF ListInv, FormOK, NoForm, TypedIsOfRow
<1> QED
  BY <1>1, ListInvariant, PTL

\* When the refetch that a deletion, approval or rejection awaited has ended, the list does not
\* offer the row again: not by a fetch from before it, nor by one after it.
THEOREM ClosedRowsAreGone == Spec => []ClosedIsGone
<1>1. ListInv => ClosedIsGone
  BY DEF ListInv, RowOK, ClosedIsGone
<1> QED
  BY <1>1, ListInvariant, PTL

\* Who changes what is picked: the user, the project of the tokens, or a mutation's answer.
LEMMA PickedStep ==
  ASSUME ListInv, [Next]_vars, picked # 0, picked' = 0
  PROVE  \/ steps' # steps \/ (page = Tokens /\ others' # others)
         \/ \E i \in DOMAIN muts : muts[i].stage = "handled" /\ muts'[i].stage # "handled"
<1>0. ListTyped /\ steps \in Nat /\ others \in Nat /\ \A k \in DOMAIN muts : muts[k] \in Mutation
  BY ListFacts, ListAssumption DEF ListInv, ListTyped
<1>1. CASE UserStep
  <2>1. CASE Does
    BY <1>0, <2>1 DEF Does
  <2>2. CASE ~Does
    <3>1. picked' = picked
      BY <1>1, <2>2 DEF UserStep, handleRowClick, DataFilterForm, handleSidebarClose, setModeCreate,
        ProjectFields, QpuTimeRequestDialog, PulseAccessRequestDialog, ProjectSummary, TokenSummary,
        AdminProjectSummary, RequestSummary, ApprovalSummary, RowActions, projectEdit, TokenLifespanDialog,
        CreateProjectForm, RequestAccessDialog, Closes, Begins
    <3> QED
      BY <3>1
  <2> QED
    BY <2>1, <2>2
<1>2. ASSUME NEW i \in DOMAIN muts, AnswerStep(i) \/ requestFails(i)
      PROVE  \E k \in DOMAIN muts : muts[k].stage = "handled" /\ muts'[k].stage # "handled"
  <2>1. onSuccess(i)
    BY <1>2 DEF AnswerStep, approveMyRequest, updateAdminProject, createAdminProject, requestQpuTimeExtension,
      requestProjectAccess, onError, requestFails
  <2>2. muts[i].stage = "handled"
    BY <2>1 DEF onSuccess
  <2>3. PICK ms : \E r \in Row \cup {0}, isCreating \in BOOLEAN :
          /\ DOMAIN ms = DOMAIN muts /\ IsAnswered(muts[i], ms[i]) /\ Draws(ms, query.data, r, isCreating)
          /\ \A k \in DOMAIN muts : ms[k] \in Mutation /\ (GoesOn(muts[k], ms[k]) \/ IsAnswered(muts[k], ms[k]))
    BY <2>1, SuccessAnswers
  <2>4. muts'[i].stage = ms[i].stage
    <3>1. muts'[i] = [ms[i] EXCEPT !.seen = muts'[i].seen]
      BY <2>3 DEF Draws
    <3>2. ms[i] \in Mutation
      BY <2>3
    <3> QED
      BY <3>1, <3>2 DEF Mutation
  <2> QED
    BY <2>2, <2>3, <2>4 DEF IsAnswered
<1>3. CASE \E r \in Row, state \in {"open", "closed"} : otherChanges(r, state)
  BY <1>3 DEF otherChanges
<1>4. CASE rekey
  <2>1. others' # others
    BY <1>0, <1>4 DEF rekey
  <2>2. page = Tokens
    BY <1>4 DEF rekey, Draws
  <2> QED
    BY <2>1, <2>2
<1>5. CASE poll \/ FetchStep \/ fetchFails
  BY <1>5 DEF poll, FetchStep, getRows, rowsArrive, fetchFails, Draws
<1>6. CASE UNCHANGED vars
  BY <1>6 DEF vars
<1> QED
  BY <1>1, <1>2, <1>3, <1>4, <1>5, <1>6 DEF Next

\* A row that the user picked after an operation was answered is not cleared by it: the parent
\* is called when the answer comes and not when the refetch has ended.
THEOREM PickedRowsStay == Spec => PickedStays
<1>1. ListInv /\ [Next]_vars =>
        [picked # 0 /\ picked' = 0 =>
            \/ steps' # steps \/ (page = Tokens /\ others' # others)
            \/ \E i \in DOMAIN muts : muts[i].stage = "handled" /\ muts'[i].stage # "handled"]_vars
  BY PickedStep, Zenon
<1> QED
  BY <1>1, ListInvariant, PTL DEF Spec, PickedStays

-----------------------------------------------------------------------------
\* The run page

\* What the library does with a query keeps the type of its data.
LEMMA RunQueryTyped ==
    ASSUME NEW Data, NEW q \in QueryOf(Data), NEW d \in Data
    PROVE  /\ Refetch(q) \in QueryOf(Data) /\ Invalidate(q) \in QueryOf(Data)
           /\ Answer(q, d) \in QueryOf(Data) /\ Applied(q) \in QueryOf(Data)
           /\ Dropped(q) \in QueryOf(Data)
  BY DEF QueryOf, Refetch, Invalidate, Answer, Applied, Dropped, JoinsFirstFetch

\* A new query, or one that a loader has fetched, is a query.
LEMMA RunNewQueryTyped ==
    ASSUME NEW Data, NEW d \in Data
    PROVE  NewQuery(d) \in QueryOf(Data) /\ LoadedQuery(d) \in QueryOf(Data)
  BY DEF QueryOf, NewQuery, LoadedQuery

SubState == [stage : Pending \cup {"idle", "done", "error"}, circuit : Circuit, job : 0..MaxJob]

\* The submission that is shown, while it is pending or has failed, is of the draft, unless
\* the draft was changed meanwhile
ShownIsOfDraft == (submissionIsPending \/ isError) /\ ~edited => sub[shown].circuit = draft

RunInv == RunTypeOK /\ ShownIsOfDraft

\* The page that is opened has a valid type, and shows no submission.
LEMMA RunInitInv == RunInit => RunInv
<1> SUFFICES ASSUME RunInit PROVE RunInv
  OBVIOUS
<1>1. jobs \in [Job -> [status : Status, source : Source]]
  BY DEF RunInit, Job, Status, Source, Circuit
<1>2. Statuses(jobs) \in [Job -> Status]
  BY <1>1 DEF Statuses
<1>3. list \in QueryOf([Job -> Status])
  BY <1>2, RunNewQueryTyped DEF RunInit
<1>4. one \in [Job -> QueryOf(Status)]
  <2>1. ASSUME NEW j \in Job PROVE jobs[j].status \in Status
    BY <1>1
  <2>2. "none" \in Status
    BY DEF Status
  <2> QED BY <2>1, <2>2, RunNewQueryTyped DEF RunInit
<1>5. sub \in [Submission -> SubState]
  BY RunAssumption DEF RunInit, NoSub, SubState, Circuit
<1>6. draft \in Circuit /\ {selected, opening} \subseteq 0..MaxJob /\ shown \in 0..MaxSub
  BY RunAssumption DEF RunInit, Circuit
<1>10. edited \in BOOLEAN /\ runBroken \in BOOLEAN
  BY DEF RunInit
<1>7. acts \in 0..MaxActs /\ runFailures \in 0..MaxRunFailures
  BY RunAssumption DEF RunInit
<1>8. cancel \in [stage : {"idle", "sent", "handled"}, job : 0..MaxJob]
  BY RunAssumption DEF RunInit
<1>9. ShownIsOfDraft
  BY DEF RunInit, ShownIsOfDraft, submissionIsPending, isError
<1> QED BY <1>1, <1>3, <1>4, <1>5, <1>6, <1>7, <1>8, <1>9, <1>10 DEF RunInv, RunTypeOK, SubState

\* What the user does to the draft keeps the invariant: an error of another draft goes away,
\* and a pending submission is marked as of another draft.
LEMMA UpdateDraftInv == ASSUME RunInv, NEW c \in Circuit, updateDraft(c) PROVE RunInv'
<1>1. acts' \in 0..MaxActs
  BY RunAssumption DEF updateDraft, Acts, RunInv, RunTypeOK
<1>2. shown' \in 0..MaxSub
  BY RunAssumption DEF updateDraft, RunInv, RunTypeOK
<1>3. edited' \in BOOLEAN
  BY DEF updateDraft, RunInv, RunTypeOK, submissionIsPending
<1>4. RunTypeOK'
  BY <1>1, <1>2, <1>3 DEF updateDraft, RunInv, RunTypeOK
<1>5. ShownIsOfDraft'
  BY DEF updateDraft, RunInv, ShownIsOfDraft, submissionIsPending, isError, Pending
<1> QED BY <1>4, <1>5 DEF RunInv

\* A submission that is begun is one, and is of the circuit that becomes, or is, the draft.
LEMMA RunDraftInv ==
    ASSUME RunInv, NEW s \in Submission, NEW c \in Circuit, runDraft(s, c), draft' = c, Acts,
           UNCHANGED <<jobs, selected, opening, list, one, cancel, runFailures, runBroken>>
    PROVE  RunInv'
<1>1. [stage |-> "sent", circuit |-> c, job |-> 0] \in SubState
  BY RunAssumption DEF SubState, Pending
<1>2. sub \in [Submission -> SubState]
  BY DEF RunInv, RunTypeOK, SubState
<1>3. sub' \in [Submission -> SubState]
  BY <1>1, <1>2 DEF runDraft
<1>4. acts' \in 0..MaxActs
  BY RunAssumption DEF Acts, RunInv, RunTypeOK
<1>5. shown' \in 0..MaxSub
  BY RunAssumption DEF runDraft, Submission
<1>6. edited' \in BOOLEAN
  BY DEF runDraft
<1>7. RunTypeOK'
  BY <1>3, <1>4, <1>5, <1>6 DEF RunInv, RunTypeOK, SubState
<1>8. ShownIsOfDraft'
  BY <1>2 DEF runDraft, ShownIsOfDraft
<1> QED BY <1>7, <1>8 DEF RunInv

\* The draft of a past job is a draft.
LEMMA DraftOfJob == ASSUME RunInv, NEW j \in Job PROVE getDraftFromJob(j) \in Circuit
  BY DEF RunInv, RunTypeOK, getDraftFromJob, Source

\* What a navigation's loader has fetched leaves queries.
LEMMA EnsuredTyped == ASSUME RunInv, NEW j PROVE ensureQueryData(j) \in [Job -> QueryOf(Status)]
<1>1. one \in [Job -> QueryOf(Status)]
  BY DEF RunInv, RunTypeOK
<1>2. ASSUME j \in Job PROVE one[j] \in QueryOf(Status) /\ Refetch(one[j]) \in QueryOf(Status)
  BY <1>1, <1>2 DEF Refetch, QueryOf
<1> QED BY <1>1, <1>2 DEF ensureQueryData

\* Opening a past run replaces the draft only along with the submission that is shown.
LEMMA OpenJobInv == ASSUME RunInv, NEW j \in Job, openJob(j) PROVE RunInv'
<1>1. acts' \in 0..MaxActs
  BY RunAssumption DEF openJob, Acts, RunInv, RunTypeOK
<1>2. draft' \in Circuit /\ opening' \in 0..MaxJob /\ shown' \in 0..MaxSub
  BY RunAssumption, DraftOfJob DEF openJob, setSearchParams, RunInv, RunTypeOK, Job
<1>3. edited' \in BOOLEAN
  BY DEF openJob, RunInv, RunTypeOK
<1>4. one' \in [Job -> QueryOf(Status)]
  BY EnsuredTyped DEF openJob
<1>5. RunTypeOK'
  BY <1>1, <1>2, <1>3, <1>4 DEF openJob, RunInv, RunTypeOK
<1>6. ShownIsOfDraft'
  BY DEF openJob, RunInv, ShownIsOfDraft, submissionIsPending, isError, Pending, getDraftFromJob
<1> QED BY <1>5, <1>6 DEF RunInv

\* Cancelling begins one mutation, of a job.
LEMMA CancelMyJobInv == ASSUME RunInv, NEW j \in Job, cancelMyJob(j) PROVE RunInv'
<1>1. acts' \in 0..MaxActs
  BY RunAssumption DEF cancelMyJob, Acts, RunInv, RunTypeOK
<1>2. cancel' \in [stage : {"idle", "sent", "handled"}, job : 0..MaxJob]
  BY RunAssumption DEF cancelMyJob, Job
<1>3. RunTypeOK'
  BY <1>1, <1>2 DEF cancelMyJob, RunInv, RunTypeOK
<1>4. ShownIsOfDraft'
  BY DEF cancelMyJob, RunInv, ShownIsOfDraft, submissionIsPending, isError, Pending
<1> QED BY <1>3, <1>4 DEF RunInv

\* What the user does keeps the invariant.
LEMMA RunUserInv == ASSUME RunInv, RunUserStep PROVE RunInv'
<1>1. ASSUME NEW c \in Circuit, updateDraft(c) PROVE RunInv'
  BY <1>1, UpdateDraftInv
<1>2. ASSUME NEW s \in Submission, onRun(s) PROVE RunInv'
  <2>1. draft \in Circuit
    BY DEF RunInv, RunTypeOK
  <2>2. /\ runDraft(s, draft) /\ draft' = draft /\ Acts
        /\ UNCHANGED <<jobs, selected, opening, list, one, cancel, runFailures, runBroken>>
    BY <1>2 DEF onRun
  <2> QED BY <2>1, <2>2, RunDraftInv
<1>3. ASSUME NEW s \in Submission, NEW j \in Job, submitJobAgain(s, j) PROVE RunInv'
  <2>1. getDraftFromJob(j) \in Circuit
    BY DraftOfJob
  <2>2. /\ runDraft(s, getDraftFromJob(j)) /\ draft' = getDraftFromJob(j) /\ Acts
        /\ UNCHANGED <<jobs, selected, opening, list, one, cancel, runFailures, runBroken>>
    BY <1>3 DEF submitJobAgain
  <2> QED BY <2>1, <2>2, RunDraftInv
<1> QED BY <1>1, <1>2, <1>3, OpenJobInv, CancelMyJobInv DEF RunUserStep

\* A submission's progress keeps the invariant: it stays of its circuit, and one that is not
\* pending does not come to be.
LEMMA ProgressInv ==
    ASSUME RunInv, NEW s \in Submission, NEW r \in SubState, sub' = [sub EXCEPT ![s] = r],
           r.stage \in {"idle", "done"} \/ (r.circuit = sub[s].circuit /\ sub[s].stage \in Pending),
           UNCHANGED <<draft, shown, edited>>
    PROVE  sub' \in [Submission -> SubState] /\ ShownIsOfDraft'
<1>1. sub \in [Submission -> SubState]
  BY DEF RunInv, RunTypeOK, SubState
<1>2. sub' \in [Submission -> SubState]
  BY <1>1
<1>3. ASSUME shown # s PROVE ShownIsOfDraft'
  <2>1. sub'[shown] = sub[shown]
    BY <1>1, <1>3
  <2> QED BY <2>1 DEF RunInv, ShownIsOfDraft, submissionIsPending, isError
<1>4. ASSUME shown = s PROVE ShownIsOfDraft'
  <2>1. sub'[shown] = r
    BY <1>1, <1>4
  <2> QED BY <2>1, <1>4 DEF RunInv, ShownIsOfDraft, submissionIsPending, isError, Pending, Submission
<1> QED BY <1>2, <1>3, <1>4

\* MSS takes a submission: it is refused, or it is given the job that is new.
LEMMA SubmitMyJobInv == ASSUME RunInv, NEW s \in Submission, submitMyJob(s) PROVE RunInv'
<1>0. sub[s] \in SubState /\ sub \in [Submission -> SubState]
  BY DEF RunInv, RunTypeOK, SubState
<1>1. CASE sub[s].circuit = "faulty"
  <2>1. sub' = [sub EXCEPT ![s] = [sub[s] EXCEPT !.stage = "refused"]]
    BY <1>0, <1>1 DEF submitMyJob
  <2>2. [sub[s] EXCEPT !.stage = "refused"] \in SubState
    BY <1>0 DEF SubState, Pending
  <2>3. [sub[s] EXCEPT !.stage = "refused"].circuit = sub[s].circuit /\ sub[s].stage \in Pending
    BY <1>0 DEF SubState, submitMyJob, Pending
  <2>4. sub' \in [Submission -> SubState] /\ ShownIsOfDraft'
    BY <2>1, <2>2, <2>3, ProgressInv DEF submitMyJob
  <2> QED BY <1>1, <2>4 DEF submitMyJob, RunInv, RunTypeOK, SubState
<1>2. CASE sub[s].circuit # "faulty"
  <2>1. PICK j \in Job :
          /\ jobs' = [jobs EXCEPT ![j] = [status |-> "pending", source |-> sub[s].circuit]]
          /\ sub' = [sub EXCEPT ![s].stage = "accepted", ![s].job = j]
    BY <1>2 DEF submitMyJob
  <2>2. PICK r \in SubState : r = [sub[s] EXCEPT !.stage = "accepted", !.job = j]
    <3>1. j \in 0..MaxJob
      BY RunAssumption DEF Job
    <3> QED BY <1>0, <3>1 DEF SubState, Pending
  <2>3. sub' = [sub EXCEPT ![s] = r]
    BY <1>0, <2>1, <2>2
  <2>4. r.circuit = sub[s].circuit /\ sub[s].stage \in Pending
    BY <1>0, <2>2 DEF SubState, submitMyJob, Pending
  <2>5. sub' \in [Submission -> SubState] /\ ShownIsOfDraft'
    BY <2>3, <2>4, ProgressInv DEF submitMyJob
  <2>6. jobs' \in [Job -> [status : Status, source : Source]]
    <3>1. [status |-> "pending", source |-> sub[s].circuit] \in [status : Status, source : Source]
      BY <1>0 DEF Status, Source, SubState
    <3> QED BY <2>1, <3>1 DEF RunInv, RunTypeOK
  <2> QED BY <2>5, <2>6 DEF submitMyJob, RunInv, RunTypeOK, SubState
<1> QED BY <1>1, <1>2

\* A lost request is one that was refused.
LEMMA RequestFailsInv == ASSUME RunInv, NEW s \in Submission, submissionLost(s) PROVE RunInv'
<1>0. sub[s] \in SubState /\ sub \in [Submission -> SubState]
  BY DEF RunInv, RunTypeOK, SubState
<1>1. PICK r \in SubState : r = [sub[s] EXCEPT !.stage = "refused"]
  BY <1>0 DEF SubState, Pending
<1>2. sub' = [sub EXCEPT ![s] = r] /\ r.circuit = sub[s].circuit /\ sub[s].stage \in Pending
  BY <1>0, <1>1 DEF submissionLost, SubState, Pending
<1>3. sub' \in [Submission -> SubState] /\ ShownIsOfDraft'
  BY <1>2, ProgressInv DEF submissionLost
<1>4. runFailures' \in 0..MaxRunFailures
  BY RunAssumption DEF submissionLost, RunInv, RunTypeOK
<1> QED BY <1>3, <1>4 DEF submissionLost, RunInv, RunTypeOK, SubState

\* An error is shown of the submission that is shown, and of no other.
LEMMA SubmissionFailsInv == ASSUME RunInv, NEW s \in Submission, submissionFails(s) PROVE RunInv'
<1>0. sub[s] \in SubState /\ sub \in [Submission -> SubState]
  BY DEF RunInv, RunTypeOK, SubState
<1>1. PICK r \in SubState : r = IF s = shown THEN [sub[s] EXCEPT !.stage = "error"] ELSE Done
  <2>1. [sub[s] EXCEPT !.stage = "error"] \in SubState
    BY <1>0 DEF SubState, Pending
  <2>2. Done \in SubState
    BY RunAssumption DEF SubState, Done, NoSub, Circuit
  <2> QED BY <2>1, <2>2
<1>2. sub' = [sub EXCEPT ![s] = r]
  BY <1>0, <1>1 DEF submissionFails
<1>3. r.stage \in {"idle", "done"} \/ (r.circuit = sub[s].circuit /\ sub[s].stage \in Pending)
  BY <1>0, <1>1 DEF submissionFails, SubState, Done, NoSub, Pending
<1>4. sub' \in [Submission -> SubState] /\ ShownIsOfDraft'
  BY <1>2, <1>3, ProgressInv DEF submissionFails
<1> QED BY <1>4 DEF submissionFails, RunInv, RunTypeOK, SubState

\* A submission ends.
LEMMA SubmissionEndsInv == ASSUME RunInv, NEW s \in Submission, submissionEnds(s) PROVE RunInv'
<1>1. Done \in SubState /\ Done.stage = "done"
  BY RunAssumption DEF SubState, Done, NoSub, Circuit
<1>2. sub' \in [Submission -> SubState] /\ ShownIsOfDraft'
  BY <1>1, ProgressInv DEF submissionEnds
<1> QED BY <1>2 DEF submissionEnds, RunInv, RunTypeOK, SubState

\* Refreshing the list and the selected run leaves queries.
LEMMA RefreshedTyped ==
    ASSUME RunInv, NEW queries \in [Job -> QueryOf(Status)], refreshMyJobsQueries(queries)
    PROVE  list' \in QueryOf([Job -> Status]) /\ one' \in [Job -> QueryOf(Status)]
<1>1. list' \in QueryOf([Job -> Status])
  <2>1. list \in QueryOf([Job -> Status])
    BY DEF RunInv, RunTypeOK
  <2> QED BY <2>1 DEF refreshMyJobsQueries, Invalidate, JoinsFirstFetch, QueryOf
<1>2. ASSUME selected # 0 PROVE Invalidate(queries[selected]) \in QueryOf(Status)
  <2>1. selected \in Job
    BY <1>2, RunAssumption DEF Job, RunInv, RunTypeOK
  <2>2. queries[selected] \in QueryOf(Status)
    BY <2>1
  <2> QED BY <2>2 DEF Invalidate, JoinsFirstFetch, QueryOf
<1>3. one' \in [Job -> QueryOf(Status)]
  BY <1>2 DEF refreshMyJobsQueries
<1> QED BY <1>1, <1>3

\* A submission that is answered navigates to its job.
LEMMA SubmissionSucceedsInv == ASSUME RunInv, NEW s \in Submission, submissionSucceeds(s) PROVE RunInv'
<1>0. sub[s] \in SubState /\ sub \in [Submission -> SubState]
  BY DEF RunInv, RunTypeOK, SubState
<1>1. PICK r \in SubState : r = [sub[s] EXCEPT !.stage = "refreshing"]
  BY <1>0 DEF SubState, Pending
<1>2. sub' = [sub EXCEPT ![s] = r] /\ r.circuit = sub[s].circuit /\ sub[s].stage \in Pending
  BY <1>0, <1>1 DEF submissionSucceeds, SubState, Pending
<1>3. sub' \in [Submission -> SubState] /\ ShownIsOfDraft'
  BY <1>2, ProgressInv DEF submissionSucceeds
<1>4. PICK job \in 0..MaxJob : job = sub[s].job
  BY <1>0 DEF SubState
<1>5. list' \in QueryOf([Job -> Status]) /\ one' \in [Job -> QueryOf(Status)]
  BY EnsuredTyped, RefreshedTyped DEF submissionSucceeds
<1>6. opening' \in 0..MaxJob
  BY <1>4 DEF submissionSucceeds, setSearchParams
<1> QED BY <1>3, <1>5, <1>6 DEF submissionSucceeds, RunInv, RunTypeOK, SubState

\* What leaves the draft and the submissions alone keeps what is shown.
LEMMA ShownStays ==
    ASSUME RunInv, UNCHANGED <<draft, sub, shown, edited>>
    PROVE  ShownIsOfDraft'
  BY DEF RunInv, ShownIsOfDraft, submissionIsPending, isError

\* A job's status moves on.
LEMMA JobMoves ==
    ASSUME RunInv, NEW j \in Job, NEW status \in Status,
           jobs' = [jobs EXCEPT ![j].status = status]
    PROVE  jobs' \in [Job -> [status : Status, source : Source]]
<1>1. jobs \in [Job -> [status : Status, source : Source]]
  BY DEF RunInv, RunTypeOK
<1>2. [jobs[j] EXCEPT !.status = status] \in [status : Status, source : Source]
  BY <1>1
<1> QED BY <1>1, <1>2

\* The query of a run changes.
LEMMA OneMoves ==
    ASSUME RunInv, NEW j \in Job, NEW q \in QueryOf(Status), one' = [one EXCEPT ![j] = q],
           UNCHANGED <<jobs, draft, selected, opening, list, sub, shown, edited, cancel, acts>>,
           runFailures' \in 0..MaxRunFailures, runBroken' \in BOOLEAN
    PROVE  RunInv'
<1>1. one' \in [Job -> QueryOf(Status)]
  BY DEF RunInv, RunTypeOK
<1> QED BY <1>1, ShownStays DEF RunInv, RunTypeOK

\* The steps of MSS, of cancellations and of queries leave the draft and the submissions alone.
LEMMA RunOtherInv ==
    ASSUME RunInv,
           \/ jobCancels \/ cancellationSucceeds \/ listFetched \/ getMyJobsQuery
           \/ loader \/ listFetchFails
           \/ \E j \in Job : jobFetched(j) \/ jobRuns(j) \/ getMyJobQuery(j) \/ jobFetchFails(j)
    PROVE  RunInv'
<1>0. one \in [Job -> QueryOf(Status)] /\ list \in QueryOf([Job -> Status]) /\ runFailures \in 0..MaxRunFailures
      /\ runBroken \in BOOLEAN
  BY DEF RunInv, RunTypeOK
<1>1. CASE jobCancels
  <2>1. cancel' \in [stage : {"idle", "sent", "handled"}, job : 0..MaxJob]
    BY <1>1 DEF jobCancels, RunInv, RunTypeOK
  <2>2. jobs' \in [Job -> [status : Status, source : Source]]
    <3>1. CASE cancel.job \in Job
      BY <1>1, <3>1, JobMoves DEF jobCancels, RunInv, RunTypeOK, Status
    <3>2. CASE cancel.job \notin Job
      BY <1>1, <3>2 DEF jobCancels, RunInv, RunTypeOK
    <3> QED BY <3>1, <3>2
  <2>3. ShownIsOfDraft'
    BY <1>1, ShownStays DEF jobCancels
  <2> QED BY <1>1, <2>1, <2>2, <2>3 DEF jobCancels, RunInv, RunTypeOK
<1>2. CASE cancellationSucceeds
  <2>1. cancel' \in [stage : {"idle", "sent", "handled"}, job : 0..MaxJob]
    BY <1>2, RunAssumption DEF cancellationSucceeds
  <2>2. refreshMyJobsQueries(one)
    BY <1>2 DEF cancellationSucceeds
  <2>3. list' \in QueryOf([Job -> Status]) /\ one' \in [Job -> QueryOf(Status)]
    BY <1>0, <2>2, RefreshedTyped
  <2>4. ShownIsOfDraft'
    BY <1>2, ShownStays DEF cancellationSucceeds
  <2> QED BY <1>2, <2>1, <2>3, <2>4 DEF cancellationSucceeds, RunInv, RunTypeOK
<1>3. CASE listFetched
  <2>1. Statuses(jobs) \in [Job -> Status]
    BY DEF Statuses, RunInv, RunTypeOK
  <2>2. Answer(list, Statuses(jobs)) \in QueryOf([Job -> Status])
    BY <1>0, <2>1, RunQueryTyped
  <2>3. list' \in QueryOf([Job -> Status])
    BY <1>3, <2>1, <2>2, RunQueryTyped DEF listFetched
  <2>4. ShownIsOfDraft'
    BY <1>3, ShownStays DEF listFetched
  <2> QED BY <1>3, <2>3, <2>4 DEF listFetched, RunInv, RunTypeOK
<1>4. CASE getMyJobsQuery
  <2>1. list' \in QueryOf([Job -> Status])
    BY <1>0, <1>4 DEF getMyJobsQuery, Refetch, QueryOf
  <2>2. ShownIsOfDraft'
    BY <1>4, ShownStays DEF getMyJobsQuery
  <2> QED BY <1>4, <2>1, <2>2 DEF getMyJobsQuery, RunInv, RunTypeOK
<1>5. ASSUME NEW j \in Job, jobFetched(j) PROVE RunInv'
  <2>1. one[j] \in QueryOf(Status) /\ jobs[j].status \in Status
    BY DEF RunInv, RunTypeOK
  <2>2. Answer(one[j], jobs[j].status) \in QueryOf(Status)
    BY <2>1, RunQueryTyped
  <2>3. Applied(Answer(one[j], jobs[j].status)) \in QueryOf(Status)
    BY <2>1, <2>2, RunQueryTyped
  <2> QED BY <1>0, <1>5, <2>3, OneMoves DEF jobFetched
<1>6. ASSUME NEW j \in Job, jobRuns(j) PROVE RunInv'
  <2>1. jobs' \in [Job -> [status : Status, source : Source]]
    BY <1>6, JobMoves DEF jobRuns, Status
  <2>2. ShownIsOfDraft'
    BY <1>6, ShownStays DEF jobRuns
  <2> QED BY <1>6, <2>1, <2>2 DEF jobRuns, RunInv, RunTypeOK
<1>7. ASSUME NEW j \in Job, getMyJobQuery(j) PROVE RunInv'
  <2>1. Refetch(one[j]) \in QueryOf(Status)
    BY <1>0 DEF Refetch, QueryOf
  <2> QED BY <1>0, <1>7, <2>1, OneMoves DEF getMyJobQuery
<1>8. ASSUME NEW j \in Job, jobFetchFails(j) PROVE RunInv'
  <2>1. Dropped(one[j]) \in QueryOf(Status)
    BY <1>0 DEF Dropped, QueryOf
  <2>2. runFailures' \in 0..MaxRunFailures
    BY <1>0, <1>8, RunAssumption DEF jobFetchFails
  <2>3. runBroken' \in BOOLEAN
    BY <1>8 DEF jobFetchFails, QueryOf
  <2> QED BY <1>8, <2>1, <2>2, <2>3, OneMoves DEF jobFetchFails
<1>9. CASE loader
  <2>1. opening \in Job /\ selected' = opening /\ opening' = 0
    BY <1>9, RunAssumption DEF loader, RunInv, RunTypeOK, Job
  <2>2. {selected', opening'} \subseteq 0..MaxJob
    BY <2>1, RunAssumption DEF Job
  <2>3. Refetch(one[opening]) \in QueryOf(Status)
    BY <1>0, <2>1 DEF Refetch, QueryOf
  <2>4. one' \in [Job -> QueryOf(Status)]
    BY <1>0, <1>9, <2>3 DEF loader
  <2>5. ShownIsOfDraft'
    BY <1>9, ShownStays DEF loader
  <2> QED BY <1>9, <2>2, <2>4, <2>5 DEF loader, RunInv, RunTypeOK
<1>10. CASE listFetchFails
  <2>1. list' \in QueryOf([Job -> Status])
    BY <1>0, <1>10 DEF listFetchFails, Dropped, QueryOf
  <2>2. runFailures' \in 0..MaxRunFailures
    BY <1>0, <1>10, RunAssumption DEF listFetchFails
  <2>3. ShownIsOfDraft'
    BY <1>10, ShownStays DEF listFetchFails
  <2>4. runBroken' \in BOOLEAN
    BY <1>10 DEF listFetchFails
  <2> QED BY <1>10, <2>1, <2>2, <2>3, <2>4 DEF listFetchFails, RunInv, RunTypeOK
<1> QED BY <1>1, <1>2, <1>3, <1>4, <1>5, <1>6, <1>7, <1>8, <1>9, <1>10

\* Every step keeps the invariant.
LEMMA RunNextInv == RunInv /\ [RunNext]_runVars => RunInv'
<1> SUFFICES ASSUME RunInv, [RunNext]_runVars PROVE RunInv'
  OBVIOUS
<1>1. CASE RunUserStep
  BY <1>1, RunUserInv
<1>2. CASE RunAnswerStep
  BY <1>2, SubmitMyJobInv, SubmissionSucceedsInv, SubmissionEndsInv, SubmissionFailsInv, RunOtherInv
  DEF RunAnswerStep
<1>3. CASE RunFetchStep
  BY <1>3, RunOtherInv DEF RunFetchStep
<1>4. CASE (\E j \in Job : jobRuns(j) \/ getMyJobQuery(j) \/ jobFetchFails(j)) \/ getMyJobsQuery
             \/ loader \/ listFetchFails
  BY <1>4, RunOtherInv
<1>5. CASE \E s \in Submission : submissionLost(s)
  BY <1>5, RequestFailsInv
<1>6. CASE UNCHANGED runVars
  BY <1>6, ShownStays DEF runVars, RunInv, RunTypeOK
<1> QED BY <1>1, <1>2, <1>3, <1>4, <1>5, <1>6 DEF RunNext

\* The Run page is type-correct, however submissions, cancellations and fetches overlap.
THEOREM RunPageTypeCorrect == RunSpec => []RunTypeOK
<1>1. RunInv => RunTypeOK
  BY DEF RunInv
<1> QED BY <1>1, RunInitInv, RunNextInv, PTL DEF RunSpec

\* getQasmErrors' errors in the editor are those of the circuit in it, for any number of
\* submissions, jobs and failures, whatever answers come late.
THEOREM ErrorsNameTheDraft == RunSpec => []ErrorsAreOfDraft
<1>1. RunInv => ErrorsAreOfDraft
  BY DEF RunInv, ShownIsOfDraft, ErrorsAreOfDraft
<1> QED BY <1>1, RunInitInv, RunNextInv, PTL DEF RunSpec
=============================================================================
