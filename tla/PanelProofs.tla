----------------------------- MODULE PanelProofs -----------------------------
(***************************************************************************)
(* The control panel is type-correct, a notice that was posted is counted, *)
(* and a recalibration that was started is known, however mutations, pages *)
(* and fetches overlap.                                                    *)
(***************************************************************************)
EXTENDS ControlPanel, FiniteSetTheorems, SequenceTheorems, WellFoundedInduction, TLAPS

\* Sequences of mutations

\* A step on every member of a sequence leaves a sequence of the same length.
LEMMA SeqMap ==
  ASSUME NEW S, NEW s \in Seq(S), NEW f, f = [i \in DOMAIN s |-> f[i]],
         \A i \in DOMAIN s : f[i] \in S
  PROVE  f \in Seq(S) /\ DOMAIN f = DOMAIN s /\ Len(f) = Len(s)
<1>1. DOMAIN s = 1..Len(s) /\ Len(s) \in Nat
  BY LenProperties
<1>2. f \in [1..Len(s) -> S]
  BY <1>1
<1> QED
  BY <1>1, <1>2

\* So does a step on one of them.
LEMMA SeqOne ==
  ASSUME NEW S, NEW s \in Seq(S), NEW i \in DOMAIN s, NEW r \in S, NEW f, f = [s EXCEPT ![i] = r]
  PROVE  /\ f \in Seq(S) /\ DOMAIN f = DOMAIN s /\ Len(f) = Len(s) /\ f[i] = r
         /\ \A k \in DOMAIN s \ {i} : f[k] = s[k]
<1>1. DOMAIN s = 1..Len(s) /\ Len(s) \in Nat /\ s \in [1..Len(s) -> S]
  BY LenProperties
<1>2. f \in [1..Len(s) -> S]
  BY <1>1
<1>3. f \in Seq(S) /\ Len(f) = Len(s)
  BY <1>1, <1>2
<1> QED
  BY <1>1, <1>3

\* A member that is added is the last.
LEMMA SeqAdd ==
  ASSUME NEW S, NEW s \in Seq(S), NEW r \in S, NEW f, f = Append(s, r)
  PROVE  /\ f \in Seq(S) /\ Len(f) = Len(s) + 1 /\ Len(s) \in Nat
         /\ \A i \in DOMAIN s : i \in DOMAIN f /\ f[i] = s[i]
         /\ \A i \in DOMAIN f : i \in DOMAIN s \/ f[i] = r
<1>1. f \in Seq(S) /\ Len(s) \in Nat /\ Len(f) = Len(s) + 1
  OBVIOUS
<1>2. DOMAIN s = 1..Len(s) /\ DOMAIN f = 1..(Len(s) + 1)
  BY <1>1
<1>3. f[Len(s) + 1] = r /\ \A i \in 1..Len(s) : f[i] = s[i]
  OBVIOUS
<1> QED
  BY <1>1, <1>2, <1>3

-----------------------------------------------------------------------------
\* The p-th of the notices in force

\* A set of numbers has a least one.
LEMMA Least == ASSUME NEW T, T \subseteq Nat, T # {} PROVE \E x \in T : \A y \in T : x <= y
<1> DEFINE R == {ss \in Nat \X Nat : ss[1] < ss[2]}
<1>1. IsWellFoundedOn(R, Nat)
  BY NatLessThanWellFounded, Zenon DEF OpToRel
<1>2. \A x, y \in Nat : <<y, x>> \in R <=> y < x
  OBVIOUS
<1> HIDE DEF R
<1>3. PICK x \in T : \A y \in T : ~(<<y, x>> \in R)
  BY <1>1, WFMin
<1>4. ASSUME NEW y \in T PROVE x <= y
  <2>1. x \in Nat /\ y \in Nat
    OBVIOUS
  <2>2. ~(y < x)
    BY <1>2, <1>3, <2>1
  <2> QED
    BY <2>1, <2>2
<1> QED
  BY <1>4

UpTo(S, n) == {m \in S : m <= n}

\* A finite set of numbers has a p-th one for each p up to how many there are: the least p
\* without one would be next to a p - 1 that has one.
LEMMA NthOf ==
  ASSUME NEW S, IsFiniteSet(S), S \subseteq Nat, NEW p \in Nat, p >= 1, p <= Cardinality(S)
  PROVE  \E n \in S : Cardinality(UpTo(S, n)) = p
<1> DEFINE Bad == {k \in Nat : k >= 1 /\ k <= Cardinality(S) /\ \A n \in S : Cardinality(UpTo(S, n)) # k}
<1> SUFFICES ASSUME Bad # {} PROVE FALSE
  OBVIOUS
<1>0. Cardinality(S) \in Nat
  BY FS_CardinalityType
<1>1. PICK k \in Bad : \A j \in Bad : k <= j
  BY Least
<1>2. k \in Nat /\ k >= 1 /\ k <= Cardinality(S) /\ \A n \in S : Cardinality(UpTo(S, n)) # k
  OBVIOUS
<1>3. ASSUME NEW j \in Nat, j >= 1, j < k PROVE \E n \in S : Cardinality(UpTo(S, n)) = j
  BY <1>0, <1>1, <1>2, <1>3
<1> HIDE DEF Bad
<1>4. PICK D \in SUBSET S : Cardinality(D) = k - 1 /\ \A d \in D, m \in S : m <= d => m \in D
  <2>1. CASE k = 1
    BY <2>1, FS_EmptySet
  <2>2. CASE k # 1
    <3>1. PICK n \in S : Cardinality(UpTo(S, n)) = k - 1
      BY <1>2, <1>3, <2>2
    <3>2. \A d \in UpTo(S, n), m \in S : m <= d => m \in UpTo(S, n)
      BY DEF UpTo
    <3>3. UpTo(S, n) \in SUBSET S
      BY DEF UpTo
    <3> QED
      BY <3>1, <3>2, <3>3
  <2> QED
    BY <2>1, <2>2
<1>5. IsFiniteSet(D)
  BY FS_Subset
<1>6. D # S
  BY <1>0, <1>2, <1>4
<1>7. PICK n \in S \ D : \A m \in S \ D : n <= m
  <2>1. S \ D # {} /\ S \ D \subseteq Nat
    BY <1>6
  <2> QED
    BY <2>1, Least
<1>8. UpTo(S, n) = D \cup {n}
  <2>1. ASSUME NEW m \in UpTo(S, n) PROVE m \in D \cup {n}
    <3>1. m \in S /\ m <= n /\ m \in Nat /\ n \in Nat
      BY DEF UpTo
    <3> QED
      BY <1>7, <3>1
  <2>2. ASSUME NEW m \in D PROVE m \in UpTo(S, n)
    <3>1. m \in Nat /\ n \in Nat /\ m \in S
      OBVIOUS
    <3>2. ~(n <= m)
      BY <1>4, <1>7
    <3> QED
      BY <3>1, <3>2 DEF UpTo
  <2>3. n \in UpTo(S, n)
    BY DEF UpTo
  <2> QED
    BY <2>1, <2>2, <2>3
<1>9. Cardinality(D \cup {n}) = Cardinality(D) + 1
  BY <1>5, <1>7, FS_AddElement
<1> QED
  BY <1>2, <1>4, <1>7, <1>8, <1>9

\* The page of a set of notices is one of them, or 0.
LEMMA PageTyped ==
  ASSUME NEW set \in SUBSET Id, NEW p \in Nat, p >= 1
  PROVE  PageOf(set, p) \in set \cup {0}
<1>1. IsFiniteSet(set) /\ set \subseteq Nat
  <2>1. IsFiniteSet(Id)
    BY NoticesAssumption, FS_Interval DEF Id
  <2>2. IsFiniteSet(set)
    BY <2>1, FS_Subset
  <2>3. set \subseteq Nat
    BY DEF Id
  <2> QED
    BY <2>2, <2>3
<1>2. CASE p > Cardinality(set)
  BY <1>2 DEF PageOf
<1>3. CASE ~(p > Cardinality(set))
  <2>1. Cardinality(set) \in Nat
    BY <1>1, FS_CardinalityType
  <2>4. p <= Cardinality(set)
    BY <1>3, <2>1
  <2>2. \E n \in set : Cardinality(UpTo(set, n)) = p
    BY <1>1, <2>4, NthOf
  <2>3. \E n \in set : Cardinality({m \in set : m <= n}) = p
    BY <2>2 DEF UpTo
  <2> QED
    BY <1>3, <2>3 DEF PageOf
<1> QED
  BY <1>2, <1>3

-----------------------------------------------------------------------------
\* The notices

Counted == page <= steps + 1 /\ stamp <= clock

\* A page is turned, and a mutation begun, with a step; the time that was taken has come
NoticesTyped == NoticesTypeOK /\ ops \in Seq(Operation) /\ Counted

\* The notice that a post has made is one of MSS's.  If it had started when the post was
\* answered, it had by the time in the key of the count; and a count of that time, on its way
\* or shown, has it if it is still in force
PostOK(i) ==
    LET n == ops[i].id
    IN  /\ ops[i].kind = "post" /\ ops[i].stage = "handled" => n # 0
        /\ ops[i].kind = "post" /\ n # 0 =>
          /\ n \in Id /\ notices[n].state # "none"
          /\ ops[i].stage \in {"list", "count", "told"} /\ ops[i].due =>
               /\ notices[n].start <= stamp
               /\ notices[n].state = "live" /\ notices[n].expires >= stamp =>
                    /\ count.has => n \in count.data
                    /\ count.fetch = "answered" => n \in count.answer

PostsInv == \A i \in DOMAIN ops : PostOK(i)

NoticesInv == NoticesTyped /\ PostsInv

\* What a step leaves of a post, if it is not the one that answers it
SamePost(i) ==
    /\ ops'[i].kind = "post" /\ ops'[i].stage = "handled" =>
        ops[i].kind = "post" /\ ops[i].stage = "handled" /\ ops[i].id = ops'[i].id
    /\ ops'[i].kind = "post" /\ ops'[i].id # 0 =>
        /\ ops[i].kind = "post" /\ ops[i].id = ops'[i].id /\ ops[i].due = ops'[i].due
        /\ ops'[i].stage \in {"list", "count", "told"} => ops[i].stage \in {"list", "count", "told"}

\* What a step leaves of the notices, of the time and of the count, if it is not a new time
\* or an answer
SameNotices ==
    \A n \in Id : notices[n].state # "none" =>
        /\ notices'[n].state # "none"
        /\ notices'[n].start = notices[n].start /\ notices'[n].expires = notices[n].expires
        /\ notices'[n].state = "live" => notices[n].state = "live"
SameCount ==
    /\ count'.has => count.has /\ count'.data = count.data
    /\ count'.fetch = "answered" => count.fetch = "answered" /\ count'.answer = count.answer

\* A step that leaves a post, the notices and the count as they are leaves it counted.
LEMMA PostKept ==
  ASSUME NEW i, PostOK(i), SamePost(i), SameNotices, SameCount, UNCHANGED stamp
  PROVE  PostOK(i)'
BY DEF PostOK, SamePost, SameNotices, SameCount

\* A new time starts counts of its own, and comes after the one before.
LEMMA PostRestamped ==
  ASSUME NoticesTyped, NEW i, PostOK(i), SamePost(i), UNCHANGED <<clock, notices>>,
         stamp' = clock, ~count'.has, count'.fetch # "answered"
  PROVE  PostOK(i)'
<1>1. \A n \in Id : notices[n].start <= stamp => notices[n].start <= clock
  <2>1. \A n \in Id : notices[n].start \in Int
    BY DEF NoticesTyped, NoticesTypeOK, Notice
  <2>2. stamp \in Int /\ clock \in Int /\ stamp <= clock
    BY DEF NoticesTyped, NoticesTypeOK, Counted
  <2> QED
    BY <2>1, <2>2
<1> QED
  BY <1>1 DEF PostOK, SamePost

\* The types of what the steps on the card are about.
LEMMA NoticesFacts ==
  ASSUME NoticesTyped
  PROVE  /\ ops \in Seq(Operation) /\ \A i \in DOMAIN ops : ops[i] \in Operation
         /\ list \in QueryOf(0..MaxNotices) /\ count \in QueryOf(SUBSET Id)
         /\ Shown \in 0..MaxNotices
         /\ steps \in 0..MaxSteps /\ failures \in 0..MaxFailures /\ broken \in BOOLEAN
<1>1. list \in QueryOf(0..MaxNotices) /\ prev \in 0..MaxNotices
  BY DEF NoticesTyped, NoticesTypeOK
<1>2. Shown \in 0..MaxNotices
  BY <1>1 DEF Shown, QueryOf
<1> QED
  BY <1>1, <1>2 DEF NoticesTyped, NoticesTypeOK

\* A query that is new, and what happens to one, is a query of the same data.
LEMMA NewTyped ==
  ASSUME NEW D, NEW d \in D
  PROVE  /\ NewQuery(d) \in QueryOf(D)
         /\ Refetch(NewQuery(d)) \in QueryOf(D)
         /\ ~Refetch(NewQuery(d)).has /\ Refetch(NewQuery(d)).fetch = "sent"
BY DEF QueryOf, NewQuery, Refetch

\* Polls, invalidations, answers and failures leave a query of its data.
LEMMA QueryTyped ==
  ASSUME NEW D, NEW q \in QueryOf(D), NEW d \in D
  PROVE  /\ Refetch(q) \in QueryOf(D) /\ Invalidate(q) \in QueryOf(D)
         /\ Answer(q, d) \in QueryOf(D) /\ Applied(q) \in QueryOf(D)
         /\ Dropped(q) \in QueryOf(D)
BY DEF QueryOf, Refetch, Invalidate, JoinsFirstFetch, Answer, Applied, Dropped

\* A step on every mutation, the time, the page and the queries.
LEMMA NoticesStep ==
  ASSUME NoticesTyped, clock' \in 0..MaxClock, stamp' \in 0..MaxClock, stamp' <= clock',
         notices' \in [Id -> Notice], page' \in 1..(MaxSteps + 1), page' <= steps' + 1,
         list' \in QueryOf(0..MaxNotices), prev' \in 0..MaxNotices, count' \in QueryOf(SUBSET Id),
         ops' = [i \in DOMAIN ops |-> ops'[i]],
         \A i \in DOMAIN ops : ops'[i] \in Operation /\ PostOK(i)',
         steps' \in 0..MaxSteps, steps <= steps', failures' \in 0..MaxFailures, broken' \in BOOLEAN
  PROVE  NoticesInv'
<1>1. ops' \in Seq(Operation) /\ DOMAIN ops' = DOMAIN ops /\ Len(ops') = Len(ops)
  BY NoticesFacts, SeqMap
<1>2. Len(ops) \in Nat /\ Len(ops) <= steps /\ steps \in Nat
  BY NoticesFacts DEF NoticesTyped, NoticesTypeOK
<1>3. Len(ops') <= steps'
  BY <1>1, <1>2
<1>4. \A i \in DOMAIN ops' : ops'[i] \in Operation
  BY <1>1
<1>5. NoticesTypeOK'
  BY <1>3, <1>4 DEF NoticesTypeOK
<1>6. PostsInv'
  BY <1>1 DEF PostsInv
<1> QED
  BY <1>1, <1>5, <1>6 DEF NoticesInv, NoticesTyped, Counted

\* The card takes the time anew: the types of what it draws with.
LEMMA RestampTyped ==
  ASSUME NoticesTyped, NEW ms, refreshCurrentTimestamp(ms), UNCHANGED clock
  PROVE  /\ stamp' \in 0..MaxClock /\ stamp' <= clock' /\ prev' \in 0..MaxNotices
         /\ list' \in QueryOf(0..MaxNotices) /\ count' \in QueryOf(SUBSET Id)
         /\ ~count'.has /\ count'.fetch # "answered"
         /\ ops' = [i \in DOMAIN ms |-> [ms[i] EXCEPT !.own = FALSE]] /\ stamp' = clock
<1>1. clock \in 0..MaxClock
  BY DEF NoticesTyped, NoticesTypeOK
<1>2. stamp' = clock /\ stamp' \in 0..MaxClock /\ stamp' <= clock'
  BY <1>1 DEF refreshCurrentTimestamp
<1>3. prev' \in 0..MaxNotices
  BY NoticesFacts DEF refreshCurrentTimestamp
<1>4. list' \in QueryOf(0..MaxNotices)
  <2>1. 0 \in 0..MaxNotices
    BY NoticesAssumption
  <2> QED
    BY <2>1, NewTyped DEF refreshCurrentTimestamp
<1>5. count' \in QueryOf(SUBSET Id) /\ ~count'.has /\ count'.fetch # "answered"
  <2>1. {} \in SUBSET Id
    OBVIOUS
  <2> QED
    BY <2>1, NewTyped DEF refreshCurrentTimestamp
<1> QED
  BY <1>2, <1>3, <1>4, <1>5 DEF refreshCurrentTimestamp

\* Turning the page.
LEMMA PaginationOK ==
  ASSUME NoticesInv, handlePaginationNext \/ handlePaginationPrevious
  PROVE  NoticesInv'
<1>0. NoticesTyped
  BY DEF NoticesInv
<1>1. /\ refreshCurrentTimestamp(ops) /\ steps' = steps + 1 /\ steps < MaxSteps
      /\ UNCHANGED <<clock, notices, broken, failures>>
  BY DEF handlePaginationNext, handlePaginationPrevious
<1>2. /\ stamp' \in 0..MaxClock /\ stamp' <= clock' /\ prev' \in 0..MaxNotices
      /\ list' \in QueryOf(0..MaxNotices) /\ count' \in QueryOf(SUBSET Id)
      /\ ~count'.has /\ count'.fetch # "answered"
      /\ ops' = [i \in DOMAIN ops |-> [ops[i] EXCEPT !.own = FALSE]] /\ stamp' = clock
  BY <1>0, <1>1, RestampTyped
<1>3. steps' \in 0..MaxSteps /\ steps <= steps'
  BY <1>0, <1>1, NoticesFacts, NoticesAssumption
<1>4. page' \in 1..(MaxSteps + 1) /\ page' <= steps' + 1
  <2>1. page \in 1..(MaxSteps + 1) /\ page <= steps + 1 /\ steps \in 0..MaxSteps /\ MaxSteps \in Nat
    BY <1>0, NoticesAssumption DEF NoticesTyped, NoticesTypeOK, Counted
  <2>2. page' = page + 1 \/ (page > 1 /\ page' = page - 1)
    BY DEF handlePaginationNext, handlePaginationPrevious
  <2> QED
    BY <1>1, <2>1, <2>2
<1>5. ASSUME NEW i \in DOMAIN ops PROVE ops'[i] \in Operation /\ PostOK(i)'
  <2>1. ops[i] \in Operation
    BY <1>0, NoticesFacts
  <2>2. ops'[i] = [ops[i] EXCEPT !.own = FALSE]
    BY <1>2
  <2>3. ops'[i] \in Operation /\ SamePost(i)
    BY <2>1, <2>2 DEF Operation, SamePost
  <2>4. PostOK(i)
    BY DEF NoticesInv, PostsInv
  <2> QED
    BY <1>0, <1>1, <1>2, <2>3, <2>4, PostRestamped
<1>6. ops' = [i \in DOMAIN ops |-> ops'[i]]
  BY <1>2
<1>7. clock' \in 0..MaxClock /\ notices' \in [Id -> Notice] /\ failures' \in 0..MaxFailures /\ broken' \in BOOLEAN
  BY <1>0, <1>1 DEF NoticesTyped, NoticesTypeOK
<1> QED
  BY <1>0, <1>2, <1>3, <1>4, <1>5, <1>6, <1>7, NoticesStep

\* A mutation begins: it has made nothing yet.
LEMMA NoticeBeginsOK ==
  ASSUME NoticesInv, NEW kind \in {"post", "delete"}, NEW id \in 0..MaxNotices, kind = "post" => id = 0,
         NoticeBegins(kind, id)
  PROVE  NoticesInv'
<1>0. NoticesTyped /\ ops \in Seq(Operation)
  BY DEF NoticesInv, NoticesTyped
<1> DEFINE ms == [i \in DOMAIN ops |-> [ops[i] EXCEPT !.seen = @ /\ ops[i].kind # kind]]
           new == [kind |-> kind, id |-> id, stage |-> "sent", seen |-> TRUE, own |-> TRUE, due |-> FALSE]
<1>1. /\ ops' = Append(ms, new) /\ steps' = steps + 1 /\ steps < MaxSteps
      /\ UNCHANGED <<clock, notices, stamp, page, list, prev, count, broken, failures>>
  BY DEF NoticeBegins
<1>2. ASSUME NEW i \in DOMAIN ops
      PROVE  /\ ms[i] \in Operation
             /\ ms[i].kind = ops[i].kind /\ ms[i].id = ops[i].id /\ ms[i].due = ops[i].due
             /\ ms[i].stage = ops[i].stage
  <2>1. ops[i] \in Operation
    BY <1>0, NoticesFacts
  <2>2. PICK b \in BOOLEAN : ms[i] = [ops[i] EXCEPT !.seen = b]
    <3>1. (ops[i].seen /\ ops[i].kind # kind) \in BOOLEAN
      OBVIOUS
    <3> QED
      BY <2>1, <3>1
  <2> HIDE DEF ms
  <2> QED
    BY <2>1, <2>2 DEF Operation
<1>4. new \in Operation /\ new.id = id /\ new.kind = kind /\ new.stage = "sent"
  BY DEF Operation
<1>10. ms = [i \in DOMAIN ops |-> ms[i]]
  OBVIOUS
<1> HIDE DEF ms, new
<1>3. ms \in Seq(Operation) /\ DOMAIN ms = DOMAIN ops /\ Len(ms) = Len(ops)
  BY <1>0, <1>2, <1>10, SeqMap
<1>5. /\ ops' \in Seq(Operation) /\ Len(ops') = Len(ops) + 1 /\ Len(ops) \in Nat
      /\ \A i \in DOMAIN ops : i \in DOMAIN ops' /\ ops'[i] = ms[i]
      /\ \A i \in DOMAIN ops' : i \in DOMAIN ops \/ ops'[i] = new
  BY <1>1, <1>3, <1>4, SeqAdd
<1>6. ASSUME NEW i \in DOMAIN ops' PROVE ops'[i] \in Operation /\ PostOK(i)'
  <2>1. CASE i \in DOMAIN ops
    <3>1. SamePost(i)
      BY <1>2, <1>5, <2>1 DEF SamePost
    <3>2. SameNotices /\ SameCount /\ stamp' = stamp
      BY <1>1 DEF SameNotices, SameCount
    <3>3. PostOK(i)
      BY <2>1 DEF NoticesInv, PostsInv
    <3> QED
      BY <1>2, <1>5, <2>1, <3>1, <3>2, <3>3, PostKept
  <2>2. CASE ops'[i] = new
    BY <1>4, <2>2 DEF PostOK
  <2> QED
    BY <1>5, <2>1, <2>2
<1>7. steps' \in 0..MaxSteps /\ Len(ops') <= steps' /\ page' <= steps' + 1
  <2>1. /\ page \in 1..(MaxSteps + 1) /\ page <= steps + 1 /\ steps \in 0..MaxSteps /\ MaxSteps \in Nat
        /\ Len(ops) <= steps
    BY <1>0, NoticesAssumption DEF NoticesTyped, NoticesTypeOK, Counted
  <2>2. page' = page
    BY <1>1
  <2> QED
    BY <1>1, <1>5, <2>1, <2>2
<1>8. NoticesTypeOK'
  BY <1>0, <1>1, <1>6, <1>7 DEF NoticesTyped, NoticesTypeOK
<1>9. Counted'
  BY <1>0, <1>1, <1>7 DEF Counted, NoticesTyped
<1> QED
  BY <1>5, <1>6, <1>8, <1>9 DEF NoticesInv, NoticesTyped, PostsInv

\* A step on one mutation and on the notices that leaves the queries, the time and the page.
LEMMA OneOperation ==
  ASSUME NoticesInv, NEW i \in DOMAIN ops, NEW r \in Operation, ops' = [ops EXCEPT ![i] = r],
         notices' \in [Id -> Notice], SameNotices, PostOK(i)',
         UNCHANGED <<clock, stamp, page, list, prev, count, steps>>,
         failures' \in 0..MaxFailures, broken' \in BOOLEAN
  PROVE  NoticesInv'
<1>0. NoticesTyped /\ ops \in Seq(Operation)
  BY DEF NoticesInv, NoticesTyped
<1>1. /\ ops' \in Seq(Operation) /\ DOMAIN ops' = DOMAIN ops /\ Len(ops') = Len(ops) /\ ops'[i] = r
      /\ \A k \in DOMAIN ops \ {i} : ops'[k] = ops[k]
  BY <1>0, SeqOne
<1>2. ASSUME NEW k \in DOMAIN ops PROVE PostOK(k)'
  <2>1. CASE k # i
    <3>1. SamePost(k) /\ SameCount /\ stamp' = stamp /\ PostOK(k)
      BY <1>1, <2>1 DEF SamePost, SameCount, NoticesInv, PostsInv
    <3> QED
      BY <3>1, PostKept
  <2> QED
    BY <2>1
<1>3. \A k \in DOMAIN ops' : ops'[k] \in Operation
  BY <1>0, <1>1, NoticesFacts
<1>4. NoticesTypeOK'
  BY <1>0, <1>1, <1>3 DEF NoticesTyped, NoticesTypeOK
<1> QED
  BY <1>0, <1>1, <1>2, <1>4 DEF NoticesInv, NoticesTyped, PostsInv, Counted

\* MSS makes a notice for a post: it takes an id that no other post has.
LEMMA CreateNoticeOK ==
  ASSUME NoticesInv, NEW i \in DOMAIN ops, NEW start \in 0..MaxClock, NEW expires \in 1..(MaxClock + 1),
         createNotice(i, start, expires)
  PROVE  NoticesInv'
<1>0. NoticesTyped /\ ops[i] \in Operation /\ ops \in Seq(Operation) /\ notices \in [Id -> Notice]
  BY NoticesFacts DEF NoticesInv, NoticesTyped, NoticesTypeOK
<1>1. PICK n \in Id :
        /\ notices[n].state = "none"
        /\ notices' = [notices EXCEPT ![n] = [state |-> "live", start |-> start, expires |-> expires]]
        /\ ops' = [ops EXCEPT ![i].stage = "handled", ![i].id = n]
  BY DEF createNotice
<1>2. PICK r \in Operation : r = [ops[i] EXCEPT !.stage = "handled", !.id = n]
  <2>1. n \in 0..MaxNotices
    BY NoticesAssumption DEF Id
  <2> QED
    BY <1>0, <2>1 DEF Operation
<1>3. ops' = [ops EXCEPT ![i] = r] /\ r.stage = "handled" /\ r.id = n /\ n # 0
  <2>1. n # 0
    BY DEF Id
  <2>2. ops' = [ops EXCEPT ![i] = r]
    BY <1>0, <1>1, <1>2
  <2>3. r.stage = "handled" /\ r.id = n
    BY <1>0, <1>2 DEF Operation
  <2> QED
    BY <2>1, <2>2, <2>3
<1>4. [state |-> "live", start |-> start, expires |-> expires] \in Notice
  BY NoticesAssumption DEF Notice
<1>5. notices' \in [Id -> Notice]
  BY <1>0, <1>1, <1>4
<1>6. notices'[n] = [state |-> "live", start |-> start, expires |-> expires]
      /\ \A m \in Id \ {n} : notices'[m] = notices[m]
  BY <1>0, <1>1
<1>7. SameNotices
  BY <1>1, <1>6 DEF SameNotices
<1>8. ops'[i] = r
  BY <1>0, <1>3
<1>9. PostOK(i)'
  BY <1>3, <1>6, <1>8 DEF PostOK
<1>10. UNCHANGED <<clock, stamp, page, list, prev, count, broken, steps, failures>>
  BY DEF createNotice, panelVars
<1>11. failures' \in 0..MaxFailures /\ broken' \in BOOLEAN
  BY <1>0, <1>10, NoticesFacts
<1> QED
  BY <1>3, <1>5, <1>7, <1>9, <1>10, <1>11, OneOperation

\* MSS deletes a notice, or there is none, or a request is lost.
LEMMA DeleteNoticeOK == ASSUME NoticesInv, NEW i \in DOMAIN ops, deleteNotice(i) PROVE NoticesInv'
<1>0. NoticesTyped /\ ops[i] \in Operation /\ ops \in Seq(Operation) /\ notices \in [Id -> Notice]
  BY NoticesFacts DEF NoticesInv, NoticesTyped, NoticesTypeOK
<1>1. PICK stage \in {"handled", "refused"} : ops' = [ops EXCEPT ![i].stage = stage]
  BY DEF deleteNotice
<1>2. PICK r \in Operation : r = [ops[i] EXCEPT !.stage = stage]
  BY <1>0 DEF Operation
<1>3. ops' = [ops EXCEPT ![i] = r] /\ r.kind = "delete"
  BY <1>0, <1>1, <1>2 DEF Operation, deleteNotice
<1>4. notices' \in [Id -> Notice] /\ SameNotices
  <2>1. CASE notices' = notices
    BY <1>0, <2>1 DEF SameNotices
  <2>2. CASE notices' = [notices EXCEPT ![ops[i].id].state = "deleted"]
    <3>1. CASE ops[i].id \notin Id
      BY <1>0, <2>2, <3>1 DEF SameNotices
    <3>2. CASE ops[i].id \in Id
      <4>1. PICK n \in Id : n = ops[i].id
        BY <3>2
      <4>2. PICK v \in Notice : v = [notices[n] EXCEPT !.state = "deleted"]
        BY <1>0 DEF Notice
      <4>3. notices' = [notices EXCEPT ![n] = v]
        BY <1>0, <2>2, <4>1, <4>2
      <4>4. v.state = "deleted" /\ v.start = notices[n].start /\ v.expires = notices[n].expires
        BY <1>0, <4>2 DEF Notice
      <4> QED
        BY <1>0, <4>3, <4>4 DEF SameNotices
    <3> QED
      BY <3>1, <3>2
  <2> QED
    BY <2>1, <2>2 DEF deleteNotice
<1>5. ops'[i] = r
  BY <1>0, <1>3
<1>6. PostOK(i)'
  BY <1>3, <1>5 DEF PostOK
<1>7. UNCHANGED <<clock, stamp, page, list, prev, count, broken, steps, failures>>
  BY DEF deleteNotice, panelVars
<1>8. failures' \in 0..MaxFailures /\ broken' \in BOOLEAN
  BY <1>0, <1>7, NoticesFacts
<1> QED
  BY <1>3, <1>4, <1>6, <1>7, <1>8, OneOperation

\* A request fails, or its error is thrown.
LEMMA NoticeFailsOK ==
  ASSUME NoticesInv, NEW i \in DOMAIN ops, noticeRequestFails(i) \/ noticeError(i)
  PROVE  NoticesInv'
<1>0. /\ NoticesTyped /\ ops[i] \in Operation /\ ops \in Seq(Operation) /\ notices \in [Id -> Notice]
      /\ failures \in 0..MaxFailures /\ broken \in BOOLEAN
  BY NoticesFacts DEF NoticesInv, NoticesTyped, NoticesTypeOK
<1>1. UNCHANGED <<clock, notices, stamp, page, list, prev, count, steps>>
  BY DEF noticeRequestFails, noticeError
<1>2. failures' \in 0..MaxFailures
  BY <1>0, NoticesAssumption DEF noticeRequestFails, noticeError
<1>3. broken' \in BOOLEAN
  BY <1>0, Zenon DEF noticeRequestFails, noticeError
<1>4. SameNotices /\ SameCount /\ stamp' = stamp /\ notices' \in [Id -> Notice]
  BY <1>0, <1>1 DEF SameNotices, SameCount
<1>5. CASE noticeRequestFails(i)
  <2>1. PICK r \in Operation : r = [ops[i] EXCEPT !.stage = "refused"]
    BY <1>0 DEF Operation
  <2>2. ops' = [ops EXCEPT ![i] = r]
    BY <1>0, <1>5, <2>1 DEF noticeRequestFails
  <2>3. r.kind = ops[i].kind /\ r.id = ops[i].id /\ r.due = ops[i].due /\ r.stage = "refused"
    BY <1>0, <2>1 DEF Operation
  <2>4. ops'[i] = r
    BY <1>0, <2>2
  <2>5. SamePost(i) /\ PostOK(i)
    BY <2>3, <2>4 DEF SamePost, NoticesInv, PostsInv
  <2> QED
    BY <1>1, <1>2, <1>3, <1>4, <2>2, <2>5, PostKept, OneOperation
<1>6. CASE noticeError(i)
  <2>1. PICK r \in Operation : r = [ops[i] EXCEPT !.stage = "told", !.id = 0]
    <3>1. 0 \in 0..MaxNotices
      BY NoticesAssumption
    <3> QED
      BY <1>0, <3>1 DEF Operation
  <2>2. ops' = [ops EXCEPT ![i] = r]
    BY <1>0, <1>6, <2>1 DEF noticeError
  <2>3. r.id = 0 /\ r.stage = "told"
    BY <1>0, <2>1 DEF Operation
  <2>4. ops'[i] = r
    BY <1>0, <2>2
  <2>5. PostOK(i)'
    BY <2>3, <2>4 DEF PostOK
  <2> QED
    BY <1>1, <1>2, <1>3, <1>4, <2>2, <2>5, OneOperation
<1> QED
  BY <1>5, <1>6

\* A post is answered: the card takes a time by which the notice has started, if it had.
LEMMA PostedOK == ASSUME NoticesInv, NEW i \in DOMAIN ops, posted(i) PROVE NoticesInv'
<1>0. /\ NoticesTyped /\ ops[i] \in Operation /\ ops \in Seq(Operation) /\ notices \in [Id -> Notice]
      /\ steps \in 0..MaxSteps
  BY NoticesFacts DEF NoticesInv, NoticesTyped, NoticesTypeOK
<1>1. PICK due \in BOOLEAN : due = (notices[ops[i].id].start <= clock)
  <2>1. ops[i].id \in Id
    BY DEF posted, NoticesInv, PostsInv, PostOK
  <2>2. notices[ops[i].id].start \in Int /\ clock \in Int
    BY <1>0, <2>1 DEF Notice, NoticesTyped, NoticesTypeOK
  <2>3. (notices[ops[i].id].start <= clock) \in BOOLEAN
    BY <2>2
  <2> QED
    BY <2>3
<1>2. PICK ms : ms = [ops EXCEPT ![i].stage = "list", ![i].due = due]
  OBVIOUS
<1>3. refreshCurrentTimestamp(ms) /\ UNCHANGED <<clock, notices, page, broken, steps, failures>>
  BY <1>1, <1>2 DEF posted, panelVars
<1>4. /\ stamp' \in 0..MaxClock /\ stamp' <= clock' /\ prev' \in 0..MaxNotices
      /\ list' \in QueryOf(0..MaxNotices) /\ count' \in QueryOf(SUBSET Id)
      /\ ~count'.has /\ count'.fetch # "answered"
      /\ ops' = [k \in DOMAIN ms |-> [ms[k] EXCEPT !.own = FALSE]] /\ stamp' = clock
  BY <1>0, <1>3, RestampTyped
<1>5. DOMAIN ms = DOMAIN ops /\ \A k \in DOMAIN ops \ {i} : ms[k] = ops[k]
  BY <1>0, <1>2
<1>6. ms[i] = [ops[i] EXCEPT !.stage = "list", !.due = due]
  BY <1>0, <1>2
<1>7. ASSUME NEW k \in DOMAIN ops PROVE ops'[k] \in Operation /\ PostOK(k)'
  <2>0. ops[k] \in Operation /\ PostOK(k)
    BY <1>0, NoticesFacts DEF NoticesInv, PostsInv
  <2>1. CASE k # i
    <3>1. ops'[k] = [ops[k] EXCEPT !.own = FALSE]
      BY <1>4, <1>5, <2>1
    <3>2. ops'[k] \in Operation /\ SamePost(k)
      BY <2>0, <3>1 DEF Operation, SamePost
    <3> QED
      BY <1>0, <1>3, <1>4, <2>0, <3>2, PostRestamped
  <2>2. CASE k = i
    <3>1. ops'[k] = [ms[i] EXCEPT !.own = FALSE]
      BY <1>4, <1>5, <2>2
    <3>2. /\ ops'[k] \in Operation /\ ops'[k].id = ops[i].id /\ ops'[k].kind = ops[i].kind
          /\ ops'[k].due = due /\ ops'[k].stage = "list"
      BY <1>0, <1>6, <3>1 DEF Operation
    <3>3. ops'[k].due => notices[ops[i].id].start <= stamp'
      BY <1>1, <1>4, <3>2
    <3> QED
      BY <1>3, <1>4, <2>0, <2>2, <3>2, <3>3 DEF PostOK
  <2> QED
    BY <2>1, <2>2
<1>8. ops' = [k \in DOMAIN ops |-> ops'[k]]
  BY <1>4, <1>5
<1>9. /\ clock' \in 0..MaxClock /\ notices' \in [Id -> Notice] /\ failures' \in 0..MaxFailures
      /\ broken' \in BOOLEAN /\ steps' \in 0..MaxSteps /\ steps <= steps'
      /\ page' \in 1..(MaxSteps + 1) /\ page' <= steps' + 1
  BY <1>0, <1>3 DEF NoticesTyped, NoticesTypeOK, Counted
<1> QED
  BY <1>0, <1>4, <1>7, <1>8, <1>9, NoticesStep

\* The mutations that go on from the list to the count, and those whose fetch of the count
\* is dropped by it, stay what they are of.
LEMMA CountsOK ==
  ASSUME NoticesInv, NEW ms, NEW goes, refreshAllNoticeCounts(ms, goes), DOMAIN ms = DOMAIN ops,
         \A i \in DOMAIN ops :
            /\ ms[i] \in Operation /\ ms[i].kind = ops[i].kind /\ ms[i].id = ops[i].id
            /\ ms[i].due = ops[i].due /\ (ops[i].kind = "post" => ms[i].stage = ops[i].stage)
            /\ i \in goes /\ ops[i].kind = "post" => ops[i].stage = "list",
         list' \in QueryOf(0..MaxNotices),
         UNCHANGED <<clock, notices, stamp, page, prev, broken, steps, failures>>
  PROVE  NoticesInv'
<1>0. NoticesTyped /\ count \in QueryOf(SUBSET Id)
  BY NoticesFacts DEF NoticesInv
<1>1. count' \in QueryOf(SUBSET Id) /\ SameCount
  <2>1. count' = count \/ count' = Invalidate(count)
    BY DEF refreshAllNoticeCounts
  <2> QED
    BY <1>0, <2>1 DEF Invalidate, JoinsFirstFetch, QueryOf, SameCount
<1>2. ASSUME NEW i \in DOMAIN ops PROVE ops'[i] \in Operation /\ PostOK(i)'
  <2>1. \/ ops'[i] = [ms[i] EXCEPT !.stage = "count", !.own = TRUE] /\ i \in goes
        \/ ops'[i] = [ms[i] EXCEPT !.stage = "told"] /\ ms[i].stage = "count"
        \/ ops'[i] = ms[i]
    BY DEF refreshAllNoticeCounts
  <2>2. /\ ops'[i] \in Operation
        /\ ops'[i].kind = ms[i].kind /\ ops'[i].id = ms[i].id /\ ops'[i].due = ms[i].due
    BY <2>1 DEF Operation
  <2>3. \/ ops'[i].stage = "count" /\ i \in goes
        \/ ops'[i].stage = "told" /\ ms[i].stage = "count"
        \/ ops'[i].stage = ms[i].stage
    BY <2>1 DEF Operation
  <2>4. SamePost(i)
    BY <2>2, <2>3 DEF SamePost
  <2>5. SameNotices /\ PostOK(i)
    BY DEF SameNotices, NoticesInv, PostsInv
  <2> QED
    BY <1>1, <2>2, <2>4, <2>5, PostKept
<1>3. ops' = [i \in DOMAIN ops |-> ops'[i]]
  BY DEF refreshAllNoticeCounts
<1>4. /\ clock' \in 0..MaxClock /\ notices' \in [Id -> Notice] /\ failures' \in 0..MaxFailures
      /\ broken' \in BOOLEAN /\ steps' \in 0..MaxSteps /\ steps <= steps'
      /\ page' \in 1..(MaxSteps + 1) /\ page' <= steps' + 1 /\ stamp' \in 0..MaxClock
      /\ stamp' <= clock' /\ prev' \in 0..MaxNotices
  BY <1>0 DEF NoticesTyped, NoticesTypeOK, Counted
<1> QED
  BY <1>0, <1>1, <1>2, <1>3, <1>4, NoticesStep

\* A deletion is answered.
LEMMA RefreshAllOK == ASSUME NoticesInv, NEW i \in DOMAIN ops, refreshAllNotices(i) PROVE NoticesInv'
<1>0. NoticesTyped /\ ops \in Seq(Operation) /\ \A k \in DOMAIN ops : ops[k] \in Operation
  BY NoticesFacts DEF NoticesInv
<1>1. PICK awaits : awaits = {j \in DOMAIN ops : ops[j].stage = "list" /\ ops[j].own /\ ~JoinsFirstFetch(list)}
  OBVIOUS
<1>2. PICK ms : ms = [ops EXCEPT ![i].stage = "list", ![i].own = TRUE]
  OBVIOUS
<1>3. /\ refreshAllNoticeCounts(ms, awaits) /\ ops[i].kind = "delete" /\ list' = Invalidate(list)
      /\ UNCHANGED <<clock, notices, stamp, page, prev, broken, steps, failures>>
  BY <1>1, <1>2 DEF refreshAllNotices, panelVars
<1>4. DOMAIN ms = DOMAIN ops /\ (\A k \in DOMAIN ops \ {i} : ms[k] = ops[k])
  BY <1>0, <1>2
<1>5. ms[i] = [ops[i] EXCEPT !.stage = "list", !.own = TRUE]
  BY <1>0, <1>2
<1>6. ms[i] \in Operation /\ ms[i].kind = ops[i].kind /\ ms[i].id = ops[i].id /\ ms[i].due = ops[i].due
  BY <1>0, <1>5 DEF Operation
<1>7. ASSUME NEW k \in DOMAIN ops
      PROVE  /\ ms[k] \in Operation /\ ms[k].kind = ops[k].kind /\ ms[k].id = ops[k].id
             /\ ms[k].due = ops[k].due /\ (ops[k].kind = "post" => ms[k].stage = ops[k].stage)
             /\ k \in awaits /\ ops[k].kind = "post" => ops[k].stage = "list"
  BY <1>0, <1>1, <1>3, <1>4, <1>6
<1>8. list' \in QueryOf(0..MaxNotices)
  BY <1>0, <1>3, NoticesFacts DEF Invalidate, JoinsFirstFetch, QueryOf
<1> QED
  BY <1>3, <1>4, <1>7, <1>8, CountsOK

\* A fetch of a time that is over ends.
LEMMA OldFetchOK == ASSUME NoticesInv, NEW i \in DOMAIN ops, oldFetchEnds(i) PROVE NoticesInv'
<1>0. /\ NoticesTyped /\ ops \in Seq(Operation) /\ list \in QueryOf(0..MaxNotices)
      /\ \A k \in DOMAIN ops : ops[k] \in Operation
  BY NoticesFacts DEF NoticesInv
<1>1. UNCHANGED <<clock, notices, stamp, page, list, prev, broken, steps, failures>>
  BY DEF oldFetchEnds, panelVars
<1>2. CASE ops[i].stage = "list" /\ refreshAllNoticeCounts(ops, {i})
  <2>1. list' \in QueryOf(0..MaxNotices)
    BY <1>0, <1>1
  <2>2. \A k \in DOMAIN ops : k \in {i} /\ ops[k].kind = "post" => ops[k].stage = "list"
    BY <1>2
  <2> QED
    BY <1>0, <1>1, <1>2, <2>1, <2>2, CountsOK
<1>3. CASE ops[i].stage = "count" /\ ops' = [ops EXCEPT ![i].stage = "told"] /\ UNCHANGED count
  <2>1. PICK r \in Operation : r = [ops[i] EXCEPT !.stage = "told"]
    BY <1>0 DEF Operation
  <2>2. ops' = [ops EXCEPT ![i] = r]
    BY <1>0, <1>3, <2>1
  <2>3. r.kind = ops[i].kind /\ r.id = ops[i].id /\ r.due = ops[i].due /\ r.stage = "told"
    BY <1>0, <2>1 DEF Operation
  <2>4. ops'[i] = r
    BY <1>0, <2>2
  <2>5. SamePost(i) /\ PostOK(i) /\ SameNotices /\ SameCount
    BY <1>1, <1>3, <2>3, <2>4 DEF SamePost, NoticesInv, PostsInv, SameNotices, SameCount
  <2>6. PostOK(i)'
    BY <1>1, <2>5, PostKept
  <2>7. notices' \in [Id -> Notice] /\ failures' \in 0..MaxFailures /\ broken' \in BOOLEAN
    BY <1>0, <1>1 DEF NoticesTyped, NoticesTypeOK
  <2>8. UNCHANGED <<clock, stamp, page, list, prev, count, steps>>
    BY <1>1, <1>3
  <2> QED
    BY <2>2, <2>5, <2>6, <2>7, <2>8, OneOperation
<1> QED
  BY <1>2, <1>3 DEF oldFetchEnds

\* A step that leaves the mutations, the notices and the time.
LEMMA QueriesStep ==
  ASSUME NoticesInv, UNCHANGED <<notices, stamp, page, prev, ops, steps>>,
         clock' \in 0..MaxClock, clock <= clock',
         list' \in QueryOf(0..MaxNotices), count' \in QueryOf(SUBSET Id),
         failures' \in 0..MaxFailures, broken' \in BOOLEAN, \A i \in DOMAIN ops : PostOK(i)'
  PROVE  NoticesInv'
<1>1. NoticesTyped /\ ops \in Seq(Operation) /\ \A i \in DOMAIN ops : ops[i] \in Operation
  BY NoticesFacts DEF NoticesInv
<1>2. stamp' <= clock'
  BY <1>1 DEF NoticesTyped, NoticesTypeOK, Counted
<1>3. NoticesTypeOK'
  BY <1>1 DEF NoticesTyped, NoticesTypeOK
<1> QED
  BY <1>1, <1>2, <1>3 DEF NoticesInv, NoticesTyped, Counted, PostsInv

\* Time passes, the queries are polled, the list is answered, or a fetch fails.
LEMMA QueriesOK ==
  ASSUME NoticesInv, tick \/ pollNotices \/ pollCount \/ getNoticesQuery \/ noticesFetchFails
  PROVE  NoticesInv'
<1>0. /\ NoticesTyped /\ list \in QueryOf(0..MaxNotices) /\ count \in QueryOf(SUBSET Id)
      /\ failures \in 0..MaxFailures /\ broken \in BOOLEAN
  BY NoticesFacts DEF NoticesInv
<1>1. UNCHANGED <<notices, stamp, page, prev, ops, steps>>
  BY DEF tick, pollNotices, pollCount, getNoticesQuery, noticesFetchFails, noticesVars, panelVars
<1>2. clock' \in 0..MaxClock /\ clock <= clock'
  BY <1>0, NoticesAssumption
  DEF tick, pollNotices, pollCount, getNoticesQuery, noticesFetchFails, noticesVars, NoticesTyped, NoticesTypeOK
<1>3. failures' \in 0..MaxFailures
  BY <1>0, NoticesAssumption
  DEF tick, pollNotices, pollCount, getNoticesQuery, noticesFetchFails, panelVars
<1>4. broken' \in BOOLEAN
  BY <1>0 DEF tick, pollNotices, pollCount, getNoticesQuery, noticesFetchFails, panelVars
<1>5. count' = count \/ count' = Refetch(count)
  BY DEF tick, pollNotices, pollCount, getNoticesQuery, noticesFetchFails, noticesVars
<1>6. count' \in QueryOf(SUBSET Id) /\ SameCount
  BY <1>0, <1>5 DEF Refetch, QueryOf, SameCount
<1>7. list' \in QueryOf(0..MaxNotices)
  <2>1. CASE getNoticesQuery
    <3>1. InForce(stamp) \in SUBSET Id /\ page \in Nat /\ page >= 1
      BY <1>0, NoticesAssumption DEF InForce, NoticesTyped, NoticesTypeOK
    <3>2. PageOf(InForce(stamp), page) \in 0..MaxNotices
      <4>1. Id \cup {0} \subseteq 0..MaxNotices
        BY NoticesAssumption DEF Id
      <4>2. PageOf(InForce(stamp), page) \in InForce(stamp) \cup {0}
        BY <3>1, PageTyped
      <4> QED
        BY <3>1, <4>1, <4>2
    <3> QED
      BY <1>0, <2>1, <3>2, QueryTyped DEF getNoticesQuery
  <2>2. CASE ~getNoticesQuery
    <3>1. list' = list \/ list' = Refetch(list)
      BY <2>2 DEF tick, pollNotices, pollCount, noticesFetchFails, noticesVars
    <3> QED
      BY <1>0, <3>1 DEF Refetch, QueryOf
  <2> QED
    BY <2>1, <2>2
<1>8. ASSUME NEW i \in DOMAIN ops PROVE PostOK(i)'
  <2>1. SamePost(i) /\ SameNotices /\ PostOK(i)
    BY <1>1 DEF SamePost, SameNotices, NoticesInv, PostsInv
  <2> QED
    BY <1>1, <1>6, <2>1, PostKept
<1> QED
  BY <1>1, <1>2, <1>3, <1>4, <1>6, <1>7, <1>8, QueriesStep

\* MSS counts for the time in the key: a notice that had started by it, and is in force.
LEMMA CountedOK == ASSUME NoticesInv, getNoticeCountQuery PROVE NoticesInv'
<1>0. /\ NoticesTyped /\ list \in QueryOf(0..MaxNotices) /\ count \in QueryOf(SUBSET Id)
      /\ failures \in 0..MaxFailures /\ broken \in BOOLEAN
  BY NoticesFacts DEF NoticesInv
<1>1. /\ UNCHANGED <<clock, notices, stamp, page, list, prev, ops, broken, steps, failures>>
      /\ count' = Answer(count, InForce(stamp))
  BY DEF getNoticeCountQuery, panelVars
<1>2. InForce(stamp) \in SUBSET Id
  BY DEF InForce
<1>3. count' \in QueryOf(SUBSET Id)
  BY <1>0, <1>1, <1>2, QueryTyped
<1>4. count'.has = count.has /\ count'.data = count.data /\ count'.answer = InForce(stamp)
  BY <1>0, <1>1 DEF Answer, QueryOf
<1>5. ASSUME NEW i \in DOMAIN ops PROVE PostOK(i)'
  <2>1. PostOK(i)
    BY DEF NoticesInv, PostsInv
  <2> QED
    BY <1>1, <1>4, <2>1 DEF PostOK, InForce
<1>6. clock' \in 0..MaxClock /\ clock <= clock'
  BY <1>0, <1>1 DEF NoticesTyped, NoticesTypeOK
<1> QED
  BY <1>0, <1>1, <1>3, <1>5, <1>6, QueriesStep

\* The list arrives: what awaited it goes on to the count.
LEMMA ListArrivesOK == ASSUME NoticesInv, listArrives PROVE NoticesInv'
<1>0. /\ NoticesTyped /\ ops \in Seq(Operation) /\ list \in QueryOf(0..MaxNotices)
      /\ \A k \in DOMAIN ops : ops[k] \in Operation
  BY NoticesFacts DEF NoticesInv
<1>1. PICK goes : goes = {i \in DOMAIN ops : ops[i].stage = "list" /\ ops[i].own}
  OBVIOUS
<1>2. /\ refreshAllNoticeCounts(ops, goes) /\ list' = Applied(list)
      /\ UNCHANGED <<clock, notices, stamp, page, prev, broken, steps, failures>>
  BY <1>1 DEF listArrives, panelVars
<1>3. list' \in QueryOf(0..MaxNotices)
  BY <1>0, <1>2 DEF Applied, QueryOf
<1>4. \A k \in DOMAIN ops : k \in goes /\ ops[k].kind = "post" => ops[k].stage = "list"
  BY <1>1
<1> QED
  BY <1>0, <1>2, <1>3, <1>4, CountsOK

\* The count arrives: it is what was on its way, and those that awaited it are done.
LEMMA CountArrivesOK == ASSUME NoticesInv, countArrives PROVE NoticesInv'
<1>0. /\ NoticesTyped /\ list \in QueryOf(0..MaxNotices) /\ count \in QueryOf(SUBSET Id)
      /\ \A k \in DOMAIN ops : ops[k] \in Operation
  BY NoticesFacts DEF NoticesInv
<1>1. /\ UNCHANGED <<clock, notices, stamp, page, list, prev, broken, steps, failures>>
      /\ count' = Applied(count) /\ count.fetch = "answered"
      /\ ops' = [i \in DOMAIN ops |-> IF ops[i].stage = "count" /\ ops[i].own
                                      THEN [ops[i] EXCEPT !.stage = "told"] ELSE ops[i]]
  BY DEF countArrives, panelVars
<1>2. count' \in QueryOf(SUBSET Id)
  BY <1>0, <1>1 DEF Applied, QueryOf
<1>3. count'.has /\ count'.data = count.answer /\ count'.fetch = "idle"
  BY <1>1 DEF Applied
<1>4. ASSUME NEW i \in DOMAIN ops PROVE ops'[i] \in Operation /\ PostOK(i)'
  <2>1. ops'[i] = ops[i] \/ (ops'[i] = [ops[i] EXCEPT !.stage = "told"] /\ ops[i].stage = "count")
    BY <1>1
  <2>2. ops'[i] \in Operation /\ SamePost(i)
    BY <1>0, <2>1 DEF Operation, SamePost
  <2>3. PostOK(i)
    BY DEF NoticesInv, PostsInv
  <2> QED
    BY <1>1, <1>3, <2>2, <2>3 DEF PostOK, SamePost
<1>5. ops' = [i \in DOMAIN ops |-> ops'[i]]
  BY <1>1
<1>6. /\ clock' \in 0..MaxClock /\ notices' \in [Id -> Notice] /\ failures' \in 0..MaxFailures
      /\ broken' \in BOOLEAN /\ steps' \in 0..MaxSteps /\ steps <= steps'
      /\ page' \in 1..(MaxSteps + 1) /\ page' <= steps' + 1 /\ stamp' \in 0..MaxClock
      /\ stamp' <= clock' /\ prev' \in 0..MaxNotices /\ list' \in QueryOf(0..MaxNotices)
  BY <1>0, <1>1 DEF NoticesTyped, NoticesTypeOK, Counted
<1> QED
  BY <1>0, <1>2, <1>4, <1>5, <1>6, NoticesStep

\* Every step on the card for notices.
LEMMA NoticesNextOK == ASSUME NoticesInv, NoticesNext PROVE NoticesInv'
<1>1. CASE handlePaginationNext \/ handlePaginationPrevious
  BY <1>1, PaginationOK
<1>2. CASE NoticeForm
  <2>1. 0 \in 0..MaxNotices
    BY NoticesAssumption
  <2> QED
    BY <1>2, <2>1, NoticeBeginsOK DEF NoticeForm
<1>3. CASE AdminNoticeBanner
  <2>1. Shown \in 0..MaxNotices
    BY NoticesFacts DEF NoticesInv
  <2> QED
    BY <1>3, <2>1, NoticeBeginsOK DEF AdminNoticeBanner
<1>4. ASSUME NEW i \in DOMAIN ops, NoticesAnswer(i) \/ noticeRequestFails(i) PROVE NoticesInv'
  BY <1>4, CreateNoticeOK, DeleteNoticeOK, PostedOK, RefreshAllOK, OldFetchOK, NoticeFailsOK DEF NoticesAnswer
<1>5. CASE tick \/ pollNotices \/ pollCount \/ noticesFetchFails
  BY <1>5, QueriesOK
<1>6. CASE ListFetch
  BY <1>6, QueriesOK, ListArrivesOK DEF ListFetch
<1>7. CASE CountFetch
  BY <1>7, CountedOK, CountArrivesOK DEF CountFetch
<1> QED
  BY <1>1, <1>2, <1>3, <1>4, <1>5, <1>6, <1>7 DEF NoticesNext

\* The card begins with its invariant.
LEMMA NoticesInitOK ==
  ASSUME NoticesInit, broken = FALSE, steps = 0, failures = 0
  PROVE  NoticesInv
<1>1. 0 \in 0..MaxClock /\ 0 \in 0..MaxNotices /\ 0 \in 0..MaxSteps /\ 0 \in 0..MaxFailures
  BY NoticesAssumption
<1>2. 1 \in 1..(MaxSteps + 1)
  BY NoticesAssumption
<1>3. notices \in [Id -> Notice]
  <2>1. PICK later \in {"none", "live"} :
          notices = [n \in Id |->
             CASE n = 1 -> [state |-> "live", start |-> 0, expires |-> 0]
               [] n = 2 -> [state |-> later, start |-> 1, expires |-> MaxClock + 1]
               [] OTHER -> NoNotice]
    BY DEF NoticesInit
  <2>2. /\ [state |-> "live", start |-> 0, expires |-> 0] \in Notice
        /\ [state |-> later, start |-> 1, expires |-> MaxClock + 1] \in Notice
        /\ NoNotice \in Notice
    BY NoticesAssumption DEF Notice, NoNotice
  <2>3. \A n \in Id : notices[n] \in Notice
    BY <2>1, <2>2
  <2> QED
    BY <2>1, <2>3
<1>4. list \in QueryOf(0..MaxNotices) /\ count \in QueryOf(SUBSET Id)
  <2>1. {} \in SUBSET Id
    OBVIOUS
  <2> QED
    BY <1>1, <2>1, NewTyped DEF NoticesInit
<1>5. ops = <<>> /\ ops \in Seq(Operation) /\ DOMAIN ops = {} /\ Len(ops) = 0
  BY DEF NoticesInit
<1>6. clock = 0 /\ stamp = 0 /\ page = 1 /\ prev = 0
  BY DEF NoticesInit
<1>7. NoticesTypeOK
  <2>1. clock \in 0..MaxClock /\ stamp \in 0..MaxClock /\ page \in 1..(MaxSteps + 1) /\ prev \in 0..MaxNotices
    BY <1>1, <1>2, <1>6
  <2>2. broken \in BOOLEAN /\ steps \in 0..MaxSteps /\ failures \in 0..MaxFailures
    BY <1>1
  <2>3. Len(ops) <= steps /\ \A i \in DOMAIN ops : ops[i] \in Operation
    BY <1>5
  <2> QED
    BY <1>3, <1>4, <2>1, <2>2, <2>3 DEF NoticesTypeOK
<1>8. Counted
  BY <1>6 DEF Counted
<1> QED
  BY <1>5, <1>7, <1>8 DEF NoticesInv, NoticesTyped, PostsInv

-----------------------------------------------------------------------------
\* The devices

DevicesTyped ==
    /\ devices \in [Device -> DeviceState] /\ selected \in Device
    /\ known \in [Device -> QueryOf(Info)] /\ dialog \in BOOLEAN
    /\ muts \in Seq(Mutation) /\ Len(muts) <= steps
    /\ picks \in 0..MaxMoves /\ others \in 0..MaxOthers
PanelTyped == broken \in BOOLEAN /\ steps \in 0..MaxSteps /\ failures \in 0..MaxFailures

\* Recalibrations only add up: what the card has of a device is no later than what is on its
\* way, and that no later than what MSS has
KnownOK(d) ==
    /\ known[d].data.runs <= devices[d].runs
    /\ known[d].fetch = "answered" =>
         known[d].data.runs <= known[d].answer.runs /\ known[d].answer.runs <= devices[d].runs

Early      == {"sent", "handled", "refused"}
AwaitsFirst(m) == m.device \in m.awaits /\ m.stage = "first"

\* A recalibration that a mutation triggered is one of MSS's; an answer on its way to a fetch
\* of the mutation's own has it, and once that fetch is over, so has the card
RunOK(i) ==
    /\ muts[i].run <= devices[muts[i].device].runs
    /\ muts[i].stage \in Early => ~muts[i].fresh
    /\ muts[i].fresh /\ muts[i].device \in muts[i].awaits /\ known[muts[i].device].fetch = "answered"
         => muts[i].run <= known[muts[i].device].answer.runs
    /\ muts[i].fresh /\ ~AwaitsFirst(muts[i]) => muts[i].run <= known[muts[i].device].data.runs

DevicesInv == DevicesTyped /\ PanelTyped /\ (\A d \in Device : KnownOK(d)) /\ (\A i \in DOMAIN muts : RunOK(i))

\* The answer that is on its way to a device's query arrives, or what the query has stays
\* while MSS may answer
Arrives(d) == known[d].fetch = "answered" /\ known'[d].data = known[d].answer /\ known'[d].fetch # "answered"
Stays(d) ==
    /\ known'[d].data = known[d].data
    /\ known'[d].fetch = "answered" => \/ known[d].fetch = "answered" /\ known'[d].answer = known[d].answer
                                       \/ known'[d].answer.runs = devices[d].runs
DeviceStep(d) == devices[d].runs <= devices'[d].runs /\ (Arrives(d) \/ Stays(d))

\* What a step leaves of a mutation, if it is not the one that has MSS handle it or that
\* begins the fetch of its own
MutationStep(i) ==
    /\ muts'[i].device = muts[i].device /\ muts'[i].run = muts[i].run
    /\ muts'[i].stage \in Early => muts[i].stage \in Early
    /\ muts'[i].fresh => muts[i].fresh
    /\ muts'[i].fresh /\ ~AwaitsFirst(muts'[i]) => ~AwaitsFirst(muts[i]) \/ Arrives(muts[i].device)

\* The numbers that the invariant compares.
LEMMA DevicesFacts ==
  ASSUME DevicesTyped
  PROVE  /\ \A d \in Device : /\ devices[d] \in DeviceState /\ devices[d].runs \in Nat
                              /\ known[d] \in QueryOf(Info)
                              /\ known[d].data.runs \in Nat /\ known[d].answer.runs \in Nat
         /\ \A i \in DOMAIN muts : muts[i] \in Mutation /\ muts[i].device \in Device /\ muts[i].run \in Nat
<1>1. ASSUME NEW d \in Device
      PROVE  /\ devices[d] \in DeviceState /\ devices[d].runs \in Nat
             /\ known[d] \in QueryOf(Info)
             /\ known[d].data.runs \in Nat /\ known[d].answer.runs \in Nat
  <2>1. devices[d] \in DeviceState /\ known[d] \in QueryOf(Info)
    BY DEF DevicesTyped
  <2>2. devices[d].runs \in 0..MaxRuns
    BY <2>1 DEF DeviceState
  <2>3. known[d].data \in Info /\ known[d].answer \in Info
    BY <2>1 DEF QueryOf
  <2>4. known[d].data.runs \in 0..MaxRuns /\ known[d].answer.runs \in 0..MaxRuns
    BY <2>3 DEF Info
  <2> QED
    BY <2>1, <2>2, <2>4
<1>2. ASSUME NEW i \in DOMAIN muts
      PROVE  muts[i] \in Mutation /\ muts[i].device \in Device /\ muts[i].run \in Nat
  <2>1. muts[i] \in Mutation
    BY DEF DevicesTyped
  <2>2. muts[i].device \in Device /\ muts[i].run \in 0..MaxRuns
    BY <2>1 DEF Mutation
  <2> QED
    BY <2>1, <2>2
<1> QED
  BY <1>1, <1>2

\* A step of a device keeps what is known of it no later than what it is.
LEMMA KnownKept ==
  ASSUME DevicesInv, DevicesTyped', NEW d \in Device, DeviceStep(d)
  PROVE  KnownOK(d)'
<1>1. /\ devices[d].runs \in Nat /\ known[d].data.runs \in Nat /\ known[d].answer.runs \in Nat
      /\ KnownOK(d)
  BY DevicesFacts DEF DevicesInv
<1>2. devices'[d].runs \in Nat /\ known'[d].data.runs \in Nat /\ known'[d].answer.runs \in Nat
  <2>1. devices'[d] \in DeviceState /\ known'[d] \in QueryOf(Info)
    BY DEF DevicesTyped
  <2>2. devices'[d].runs \in 0..MaxRuns
    BY <2>1 DEF DeviceState
  <2>3. known'[d].data \in Info /\ known'[d].answer \in Info
    BY <2>1 DEF QueryOf
  <2>4. known'[d].data.runs \in 0..MaxRuns /\ known'[d].answer.runs \in 0..MaxRuns
    BY <2>3 DEF Info
  <2> QED
    BY <2>2, <2>4
<1> QED
  BY <1>1, <1>2 DEF DeviceStep, Arrives, Stays, KnownOK

\* So it does with what the mutations are entitled to.
LEMMA RunKept ==
  ASSUME DevicesInv, NEW i \in DOMAIN muts, MutationStep(i), DeviceStep(muts[i].device),
         devices'[muts[i].device].runs \in Nat
  PROVE  RunOK(i)'
<1>1. PICK d \in Device : d = muts[i].device
  BY DevicesFacts DEF DevicesInv
<1>2. /\ devices[d].runs \in Nat /\ known[d].data.runs \in Nat /\ known[d].answer.runs \in Nat
      /\ muts[i].run \in Nat /\ KnownOK(d) /\ RunOK(i) /\ devices'[d].runs \in Nat
  BY <1>1, DevicesFacts DEF DevicesInv
<1>3. muts'[i].run = muts[i].run /\ muts'[i].device = d /\ DeviceStep(d)
  BY <1>1 DEF MutationStep
<1>4. muts[i].run <= devices[d].runs
  BY <1>1, <1>2 DEF RunOK
<1>5. muts'[i].run <= devices'[muts'[i].device].runs
  BY <1>2, <1>3, <1>4 DEF DeviceStep
<1>6. muts[i].fresh /\ known[d].fetch = "answered" => muts[i].run <= known[d].answer.runs
  <2>1. CASE d \in muts[i].awaits
    BY <1>1, <1>2, <2>1 DEF RunOK
  <2>2. CASE d \notin muts[i].awaits
    <3>1. muts[i].fresh => muts[i].run <= known[d].data.runs
      BY <1>1, <1>2, <2>2 DEF RunOK, AwaitsFirst
    <3>2. known[d].fetch = "answered" => known[d].data.runs <= known[d].answer.runs
      BY <1>2 DEF KnownOK
    <3> QED
      BY <1>2, <3>1, <3>2
  <2> QED
    BY <2>1, <2>2
<1>7. muts'[i].fresh /\ known'[d].fetch = "answered" => muts[i].run <= known'[d].answer.runs
  BY <1>3, <1>4, <1>6 DEF DeviceStep, Arrives, Stays, MutationStep
<1>8. muts'[i].fresh /\ ~AwaitsFirst(muts'[i]) => muts[i].run <= known'[d].data.runs
  <2>1. CASE Arrives(d)
    BY <1>6, <2>1 DEF Arrives, MutationStep
  <2>2. CASE ~Arrives(d)
    BY <1>1, <1>2, <1>3, <2>2 DEF DeviceStep, Stays, MutationStep, RunOK
  <2> QED
    BY <2>1, <2>2
<1>9. muts'[i].stage \in Early => ~muts'[i].fresh
  BY <1>2 DEF MutationStep, RunOK
<1> QED
  BY <1>3, <1>5, <1>7, <1>8, <1>9 DEF RunOK

\* A step on the devices, their queries and the mutations that were begun.
LEMMA DevicesStep ==
  ASSUME DevicesInv, devices' \in [Device -> DeviceState], selected' \in Device,
         known' \in [Device -> QueryOf(Info)], dialog' \in BOOLEAN,
         muts' = [i \in DOMAIN muts |-> muts'[i]], \A i \in DOMAIN muts : muts'[i] \in Mutation,
         picks' \in 0..MaxMoves, others' \in 0..MaxOthers, PanelTyped', steps <= steps',
         \A d \in Device : DeviceStep(d), \A i \in DOMAIN muts : MutationStep(i) \/ RunOK(i)'
  PROVE  DevicesInv'
<1>1. muts \in Seq(Mutation) /\ Len(muts) <= steps /\ steps \in 0..MaxSteps
  BY DEF DevicesInv, DevicesTyped, PanelTyped
<1>2. muts' \in Seq(Mutation) /\ DOMAIN muts' = DOMAIN muts /\ Len(muts') = Len(muts)
  BY <1>1, SeqMap
<1>3. Len(muts') <= steps'
  <2>1. Len(muts) \in Nat /\ steps' \in 0..MaxSteps
    BY <1>1, LenProperties DEF PanelTyped
  <2> QED
    BY <1>1, <1>2, <2>1
<1>4. DevicesTyped'
  BY <1>2, <1>3 DEF DevicesTyped
<1>5. \A d \in Device : KnownOK(d)'
  BY <1>4, KnownKept
<1>6. ASSUME NEW i \in DOMAIN muts PROVE RunOK(i)'
  <2>1. muts[i].device \in Device
    BY DevicesFacts DEF DevicesInv
  <2>2. devices'[muts[i].device] \in DeviceState
    BY <2>1
  <2>3. devices'[muts[i].device].runs \in Nat
    BY <2>2 DEF DeviceState
  <2> QED
    BY <2>1, <2>3, RunKept
<1> QED
  BY <1>2, <1>4, <1>5, <1>6 DEF DevicesInv

\* A device whose part of a step leaves its recalibrations and its query.
LEMMA SameDevice ==
  ASSUME DevicesTyped, NEW d \in Device, known'[d] = known[d], devices'[d].runs = devices[d].runs
  PROVE  DeviceStep(d)
<1>1. devices[d].runs \in Nat
  BY DevicesFacts
<1> QED
  BY <1>1 DEF DeviceStep, Stays

\* A step on one mutation that leaves the queries.
LEMMA OneMutation ==
  ASSUME DevicesInv, NEW i \in DOMAIN muts, NEW r \in Mutation, muts' = [muts EXCEPT ![i] = r],
         devices' \in [Device -> DeviceState], \A d \in Device : devices[d].runs <= devices'[d].runs,
         MutationStep(i) \/ RunOK(i)', UNCHANGED <<selected, known, dialog, picks, others, steps>>,
         failures' \in 0..MaxFailures, broken' \in BOOLEAN
  PROVE  DevicesInv'
<1>0. DevicesTyped /\ muts \in Seq(Mutation)
  BY DEF DevicesInv, DevicesTyped
<1>1. /\ DOMAIN muts' = DOMAIN muts /\ muts'[i] = r
      /\ \A k \in DOMAIN muts \ {i} : muts'[k] = muts[k]
  BY <1>0, SeqOne
<1>2. \A k \in DOMAIN muts : muts'[k] \in Mutation
  BY <1>0, <1>1, DevicesFacts
<1>3. \A k \in DOMAIN muts \ {i} : MutationStep(k)
  BY <1>1 DEF MutationStep
<1>4. \A d \in Device : DeviceStep(d)
  BY DEF DeviceStep, Stays
<1>5. muts' = [k \in DOMAIN muts |-> muts'[k]]
  BY <1>0
<1>6. /\ selected' \in Device /\ known' \in [Device -> QueryOf(Info)] /\ dialog' \in BOOLEAN
      /\ picks' \in 0..MaxMoves /\ others' \in 0..MaxOthers
  BY <1>0 DEF DevicesTyped
<1>7. PanelTyped' /\ steps <= steps'
  BY DEF DevicesInv, PanelTyped
<1> QED
  BY <1>2, <1>3, <1>4, <1>5, <1>6, <1>7, DevicesStep

\* A step on the devices alone.
LEMMA DevicesOnly ==
  ASSUME DevicesInv, devices' \in [Device -> DeviceState], \A d \in Device : devices[d].runs <= devices'[d].runs,
         others' \in 0..MaxOthers, dialog' \in BOOLEAN,
         UNCHANGED <<selected, known, muts, picks, broken, steps, failures>>
  PROVE  DevicesInv'
<1>0. DevicesTyped /\ muts \in Seq(Mutation)
  BY DEF DevicesInv, DevicesTyped
<1>1. \A k \in DOMAIN muts : muts'[k] \in Mutation /\ MutationStep(k)
  BY <1>0, DevicesFacts DEF MutationStep
<1>2. \A d \in Device : DeviceStep(d)
  BY DEF DeviceStep, Stays
<1>3. muts' = [k \in DOMAIN muts |-> muts'[k]]
  BY <1>0
<1>4. selected' \in Device /\ known' \in [Device -> QueryOf(Info)] /\ picks' \in 0..MaxMoves
  BY <1>0 DEF DevicesTyped
<1>5. PanelTyped' /\ steps <= steps'
  BY DEF DevicesInv, PanelTyped
<1> QED
  BY <1>1, <1>2, <1>3, <1>4, <1>5, DevicesStep

\* A backend is switched, a recalibration is stopped or refused, or a request is lost.
LEMMA HandledOK ==
  ASSUME DevicesInv, NEW i \in DOMAIN muts,
         switchBackend(i) \/ stopRecalibration(i) \/ requestFails(i) \/ toast(i) \/ onError(i)
  PROVE  DevicesInv'
<1>0. /\ DevicesTyped /\ muts[i] \in Mutation /\ muts \in Seq(Mutation) /\ devices \in [Device -> DeviceState]
      /\ muts[i].device \in Device
  BY DevicesFacts DEF DevicesInv, DevicesTyped
<1>1. PICK stage \in {"handled", "refused", "told"} :
        /\ muts' = [muts EXCEPT ![i].stage = stage]
        /\ stage \in Early => muts[i].stage \in Early
        /\ AwaitsFirst(muts[i]) => stage \in Early
  BY Zenon DEF switchBackend, stopRecalibration, requestFails, toast, onError, Early, AwaitsFirst
<1>2. PICK r \in Mutation : r = [muts[i] EXCEPT !.stage = stage]
  BY <1>0 DEF Mutation
<1>3. muts' = [muts EXCEPT ![i] = r]
  BY <1>0, <1>1, <1>2
<1>4. /\ r.stage = stage /\ r.device = muts[i].device /\ r.run = muts[i].run
      /\ r.fresh = muts[i].fresh /\ r.awaits = muts[i].awaits
  BY <1>0, <1>2 DEF Mutation
<1>5. muts'[i] = r
  BY <1>0, <1>3
<1>6. MutationStep(i)
  <2>1. muts[i].stage \in Early => ~muts[i].fresh
    BY DEF DevicesInv, RunOK
  <2>2. AwaitsFirst(muts[i]) => muts[i].stage \in Early
    BY <1>1
  <2> QED
    BY <1>1, <1>4, <1>5, <2>1, <2>2 DEF MutationStep
<1>7. devices' \in [Device -> DeviceState] /\ \A d \in Device : devices[d].runs <= devices'[d].runs
  <2>1. CASE devices' = devices
    BY <1>0, <2>1, DevicesFacts
  <2>2. CASE switchBackend(i)
    <3>1. PICK b \in BOOLEAN : devices' = [devices EXCEPT ![muts[i].device].switched = b]
      BY <2>2 DEF switchBackend
    <3>2. PICK v \in DeviceState : v = [devices[muts[i].device] EXCEPT !.switched = b]
      BY <1>0 DEF DeviceState
    <3>3. devices' = [devices EXCEPT ![muts[i].device] = v]
      BY <1>0, <3>1, <3>2
    <3>4. v.runs = devices[muts[i].device].runs
      BY <1>0, <3>2 DEF DeviceState
    <3>5. devices' \in [Device -> DeviceState]
      BY <1>0, <3>3
    <3>6. \A d \in Device : devices'[d].runs = devices[d].runs
      BY <1>0, <3>3, <3>4
    <3> QED
      BY <1>0, <3>5, <3>6, DevicesFacts
  <2>3. CASE stopRecalibration(i)
    <3>1. devices' = [devices EXCEPT ![muts[i].device].active = FALSE]
      BY <2>3 DEF stopRecalibration
    <3>2. PICK v \in DeviceState : v = [devices[muts[i].device] EXCEPT !.active = FALSE]
      BY <1>0 DEF DeviceState
    <3>3. devices' = [devices EXCEPT ![muts[i].device] = v]
      BY <1>0, <3>1, <3>2
    <3>4. v.runs = devices[muts[i].device].runs
      BY <1>0, <3>2 DEF DeviceState
    <3>5. devices' \in [Device -> DeviceState]
      BY <1>0, <3>3
    <3>6. \A d \in Device : devices'[d].runs = devices[d].runs
      BY <1>0, <3>3, <3>4
    <3> QED
      BY <1>0, <3>5, <3>6, DevicesFacts
  <2> QED
    BY <2>1, <2>2, <2>3 DEF requestFails, toast, onError
<1>8. UNCHANGED <<selected, known, dialog, picks, others, steps>>
  BY DEF switchBackend, stopRecalibration, requestFails, toast, onError, panelVars
<1>9. failures' \in 0..MaxFailures
  <2>1. failures \in 0..MaxFailures
    BY DEF DevicesInv, PanelTyped
  <2> QED
    BY <2>1, NoticesAssumption DEF switchBackend, stopRecalibration, requestFails, toast, onError, panelVars
<1>10. broken' \in BOOLEAN
  <2>1. broken \in BOOLEAN /\ muts[i].seen \in BOOLEAN
    BY <1>0 DEF DevicesInv, PanelTyped, Mutation
  <2>2. broken' = broken \/ broken' = muts[i].seen
    BY DEF switchBackend, stopRecalibration, requestFails, toast, onError, panelVars
  <2> QED
    BY <2>1, <2>2, Zenon
<1> QED
  BY <1>3, <1>6, <1>7, <1>8, <1>9, <1>10, OneMutation

\* A recalibration is started, or another is going on.
LEMMA StartOK == ASSUME DevicesInv, NEW i \in DOMAIN muts, startRecalibration(i) PROVE DevicesInv'
<1>0. /\ DevicesTyped /\ muts[i] \in Mutation /\ muts \in Seq(Mutation) /\ devices \in [Device -> DeviceState]
      /\ RunOK(i)
  BY DevicesFacts DEF DevicesInv, DevicesTyped
<1>1. PICK d \in Device : d = muts[i].device
  BY DevicesFacts DEF DevicesInv
<1>2. devices[d].runs \in 0..MaxRuns /\ devices[d].runs < MaxRuns /\ MaxRuns \in Nat
  BY <1>0, <1>1, PanelAssumption DEF startRecalibration, DeviceState
<1>3. PICK stage \in {"handled", "refused"}, run \in 0..MaxRuns :
        /\ muts' = [muts EXCEPT ![i] = [muts[i] EXCEPT !.stage = stage, !.run = run]]
        /\ \/ run = muts[i].run /\ devices' = devices
           \/ /\ run = devices[d].runs + 1
              /\ devices' = [devices EXCEPT ![d] = [devices[d] EXCEPT !.active = TRUE, !.runs = run]]
  <2>1. CASE devices[d].active
    <3>1. muts' = [muts EXCEPT ![i].stage = "refused"] /\ devices' = devices
      BY <1>1, <2>1 DEF startRecalibration
    <3>2. muts[i] = [muts[i] EXCEPT !.run = muts[i].run] /\ muts[i].run \in 0..MaxRuns
      BY <1>0 DEF Mutation
    <3>3. muts' = [muts EXCEPT ![i] = [muts[i] EXCEPT !.stage = "refused", !.run = muts[i].run]]
      BY <1>0, <3>1 DEF Mutation
    <3> QED
      BY <3>1, <3>2, <3>3
  <2>2. CASE ~devices[d].active
    <3>1. /\ devices' = [devices EXCEPT ![d].active = TRUE, ![d].runs = @ + 1]
          /\ muts' = [muts EXCEPT ![i].stage = "handled", ![i].run = devices[d].runs + 1]
      BY <1>1, <2>2 DEF startRecalibration
    <3>2. PICK run \in 0..MaxRuns : run = devices[d].runs + 1
      BY <1>2
    <3>3. devices' = [devices EXCEPT ![d] = [devices[d] EXCEPT !.active = TRUE, !.runs = run]]
      BY <1>0, <3>1, <3>2
    <3>4. muts' = [muts EXCEPT ![i] = [muts[i] EXCEPT !.stage = "handled", !.run = run]]
      BY <1>0, <3>1, <3>2
    <3> QED
      BY <3>2, <3>3, <3>4
  <2> QED
    BY <2>1, <2>2
<1>4. PICK r \in Mutation : r = [muts[i] EXCEPT !.stage = stage, !.run = run]
  BY <1>0 DEF Mutation
<1>5. /\ r.stage = stage /\ r.device = d /\ r.run = run
      /\ r.fresh = muts[i].fresh /\ r.awaits = muts[i].awaits
  BY <1>0, <1>1, <1>4 DEF Mutation
<1>6. muts' = [muts EXCEPT ![i] = r] /\ muts'[i] = r
  BY <1>0, <1>3, <1>4
<1>7. /\ devices' \in [Device -> DeviceState] /\ run <= devices'[d].runs
      /\ \A e \in Device : devices[e].runs <= devices'[e].runs
  <2>1. CASE run = muts[i].run /\ devices' = devices
    BY <1>0, <1>1, <2>1, DevicesFacts DEF RunOK
  <2>2. CASE /\ run = devices[d].runs + 1
             /\ devices' = [devices EXCEPT ![d] = [devices[d] EXCEPT !.active = TRUE, !.runs = run]]
    <3>1. PICK v \in DeviceState : v = [devices[d] EXCEPT !.active = TRUE, !.runs = run]
      BY <1>0 DEF DeviceState
    <3>2. devices' = [devices EXCEPT ![d] = v]
      BY <2>2, <3>1
    <3>3. v.runs = run
      BY <1>0, <3>1 DEF DeviceState
    <3>4. devices' \in [Device -> DeviceState] /\ devices'[d].runs = run
      BY <1>0, <3>2, <3>3
    <3>5. \A e \in Device \ {d} : devices'[e] = devices[e]
      BY <1>0, <3>2
    <3>6. run <= devices'[d].runs /\ devices[d].runs <= devices'[d].runs
      BY <1>2, <2>2, <3>4
    <3>7. \A e \in Device : devices[e].runs \in Nat
      BY <1>0, DevicesFacts
    <3> QED
      BY <3>4, <3>5, <3>6, <3>7
  <2> QED
    BY <1>3, <2>1, <2>2
<1>8. ~muts[i].fresh
  BY <1>0 DEF RunOK, startRecalibration, Early
<1>9. RunOK(i)'
  BY <1>5, <1>6, <1>7, <1>8 DEF RunOK
<1>10. UNCHANGED <<selected, known, dialog, picks, others, broken, steps, failures>>
  BY DEF startRecalibration, panelVars
<1>11. failures' \in 0..MaxFailures /\ broken' \in BOOLEAN
  BY <1>10 DEF DevicesInv, PanelTyped
<1> QED
  BY <1>6, <1>7, <1>9, <1>10, <1>11, OneMutation

\* What a device is in MSS changes without the admin: its recalibrations are never fewer.
LEMMA DeviceChangesOK ==
  ASSUME DevicesInv, NEW d \in Device, deviceFollows(d) \/ deviceChanges(d)
  PROVE  DevicesInv'
<1>0. /\ DevicesTyped /\ devices \in [Device -> DeviceState] /\ devices[d] \in DeviceState
      /\ dialog \in BOOLEAN /\ others \in 0..MaxOthers /\ {MaxOthers, MaxRuns} \subseteq Nat
  BY PanelAssumption DEF DevicesInv, DevicesTyped
<1>1. devices[d].runs \in 0..MaxRuns /\ \A e \in Device : devices[e].runs \in Nat
  BY <1>0, DevicesFacts DEF DeviceState
<1>2. UNCHANGED <<selected, known, muts, picks, broken, steps, failures, dialog>>
  BY DEF deviceFollows, deviceChanges, panelVars
<1>3. others' \in 0..MaxOthers
  BY <1>0 DEF deviceFollows, deviceChanges
<1>4. PICK v \in DeviceState : devices' = [devices EXCEPT ![d] = v] /\ devices[d].runs <= v.runs
  <2>1. CASE \E b \in BOOLEAN : devices' = [devices EXCEPT ![d].active = b]
    <3>1. PICK b \in BOOLEAN : devices' = [devices EXCEPT ![d].active = b]
      BY <2>1
    <3>2. PICK v \in DeviceState : v = [devices[d] EXCEPT !.active = b]
      BY <1>0 DEF DeviceState
    <3>3. devices' = [devices EXCEPT ![d] = v] /\ v.runs = devices[d].runs
      BY <1>0, <3>1, <3>2 DEF DeviceState
    <3>4. devices[d].runs <= v.runs
      BY <1>1, <3>3
    <3> QED
      BY <3>3, <3>4
  <2>2. CASE devices[d].runs < MaxRuns /\ devices' = [devices EXCEPT ![d].active = TRUE, ![d].runs = @ + 1]
    <3>1. PICK run \in 0..MaxRuns : run = devices[d].runs + 1
      BY <1>0, <1>1, <2>2
    <3>2. PICK v \in DeviceState : v = [devices[d] EXCEPT !.active = TRUE, !.runs = run]
      BY <1>0 DEF DeviceState
    <3>3. devices' = [devices EXCEPT ![d] = v]
      BY <1>0, <2>2, <3>1, <3>2
    <3>4. v.runs = run
      BY <1>0, <3>2 DEF DeviceState
    <3>5. devices[d].runs <= v.runs
      BY <1>1, <3>1, <3>4
    <3> QED
      BY <3>3, <3>5
  <2>3. CASE \E b, c \in BOOLEAN : devices' = [devices EXCEPT ![d].online = b, ![d].switched = c]
    <3>1. PICK b \in BOOLEAN, c \in BOOLEAN : devices' = [devices EXCEPT ![d].online = b, ![d].switched = c]
      BY <2>3
    <3>2. PICK v \in DeviceState : v = [devices[d] EXCEPT !.online = b, !.switched = c]
      BY <1>0 DEF DeviceState
    <3>3. devices' = [devices EXCEPT ![d] = v] /\ v.runs = devices[d].runs
      BY <1>0, <3>1, <3>2 DEF DeviceState
    <3>4. devices[d].runs <= v.runs
      BY <1>1, <3>3
    <3> QED
      BY <3>3, <3>4
  <2>4. CASE \E b \in BOOLEAN : devices' = [devices EXCEPT ![d].online = b]
    <3>1. PICK b \in BOOLEAN : devices' = [devices EXCEPT ![d].online = b]
      BY <2>4
    <3>2. PICK v \in DeviceState : v = [devices[d] EXCEPT !.online = b]
      BY <1>0 DEF DeviceState
    <3>3. devices' = [devices EXCEPT ![d] = v] /\ v.runs = devices[d].runs
      BY <1>0, <3>1, <3>2 DEF DeviceState
    <3>4. devices[d].runs <= v.runs
      BY <1>1, <3>3
    <3> QED
      BY <3>3, <3>4
  <2>5. devices[d].online \in BOOLEAN /\ devices[d].switched \in BOOLEAN
    BY <1>0 DEF DeviceState
  <2>6. CASE deviceFollows(d)
    BY <2>4, <2>5, <2>6 DEF deviceFollows
  <2>7. CASE deviceChanges(d) /\ devices' = [devices EXCEPT ![d].online = ~@, ![d].switched = ~devices[d].online]
    <3>1. PICK b \in BOOLEAN : b = ~devices[d].online
      BY <2>5, Zenon
    <3>2. devices' = [devices EXCEPT ![d].online = b, ![d].switched = b]
      BY <1>0, <2>7, <3>1
    <3> QED
      BY <2>3, <3>2
  <2>8. CASE deviceChanges(d) /\ devices' = [devices EXCEPT ![d].active = FALSE]
    BY <2>1, <2>8
  <2> QED
    BY <2>2, <2>6, <2>7, <2>8 DEF deviceChanges
<1>5. devices' \in [Device -> DeviceState] /\ \A e \in Device : devices[e].runs <= devices'[e].runs
  <2>1. devices' \in [Device -> DeviceState] /\ devices'[d] = v /\ \A e \in Device \ {d} : devices'[e] = devices[e]
    BY <1>0, <1>4
  <2> QED
    BY <1>1, <1>4, <2>1
<1> QED
  BY <1>0, <1>2, <1>3, <1>5, DevicesOnly

\* The dialog opens and closes.
LEMMA DialogOK == ASSUME DevicesInv, opensDialog \/ ConfirmDialog PROVE DevicesInv'
<1>1. /\ UNCHANGED <<devices, selected, known, muts, picks, others, broken, steps, failures>>
      /\ dialog' \in BOOLEAN
  BY DEF opensDialog, ConfirmDialog, panelVars
<1>2. devices' \in [Device -> DeviceState] /\ others' \in 0..MaxOthers
  BY <1>1 DEF DevicesInv, DevicesTyped
<1>3. \A d \in Device : devices[d].runs <= devices'[d].runs
  BY <1>1, DevicesFacts DEF DevicesInv
<1> QED
  BY <1>1, <1>2, <1>3, DevicesOnly

\* A mutation begins: it has triggered nothing, and fetches nothing.
LEMMA BeginsOK ==
  ASSUME DevicesInv, NEW kind \in {"on", "off", "trigger", "stop"}, Begins(kind)
  PROVE  DevicesInv'
<1>0. DevicesTyped /\ muts \in Seq(Mutation) /\ Len(muts) <= steps /\ steps \in 0..MaxSteps /\ selected \in Device
  BY DEF DevicesInv, DevicesTyped, PanelTyped
<1>1. PICK r : r = [kind |-> kind, device |-> selected, stage |-> "sent", seen |-> TRUE,
                    awaits |-> {}, fresh |-> FALSE, run |-> 0]
  OBVIOUS
<1>2. /\ muts' = Append(muts, r) /\ dialog' = FALSE /\ steps' = steps + 1 /\ steps < MaxSteps
      /\ UNCHANGED <<devices, selected, known, picks, others, broken, failures>>
  BY <1>1 DEF Begins, Does
<1>3. r \in Mutation /\ r.device = selected /\ r.run = 0 /\ r.fresh = FALSE
  <2>1. 0 \in 0..MaxRuns
    BY PanelAssumption
  <2> QED
    BY <1>0, <1>1, <2>1 DEF Mutation
<1>4. /\ muts' \in Seq(Mutation) /\ Len(muts') = Len(muts) + 1 /\ Len(muts) \in Nat
      /\ \A i \in DOMAIN muts : i \in DOMAIN muts' /\ muts'[i] = muts[i]
      /\ \A i \in DOMAIN muts' : i \in DOMAIN muts \/ muts'[i] = r
  BY <1>0, <1>2, <1>3, SeqAdd
<1>5. ASSUME NEW i \in DOMAIN muts' PROVE RunOK(i)'
  <2>1. CASE i \in DOMAIN muts
    <3>1. muts'[i] = muts[i] /\ RunOK(i)
      BY <1>4, <2>1 DEF DevicesInv
    <3> QED
      BY <1>2, <3>1 DEF RunOK
  <2>2. CASE muts'[i] = r
    <3>1. devices[selected].runs \in Nat
      BY <1>0, DevicesFacts
    <3> QED
      BY <1>2, <1>3, <2>2, <3>1 DEF RunOK
  <2> QED
    BY <1>4, <2>1, <2>2
<1>6. PanelTyped' /\ Len(muts') <= steps'
  <2>1. steps' \in 0..MaxSteps /\ Len(muts') <= steps'
    BY <1>0, <1>2, <1>4, NoticesAssumption
  <2> QED
    BY <1>2, <2>1 DEF DevicesInv, PanelTyped
<1>7. DevicesTyped'
  BY <1>0, <1>2, <1>4, <1>6 DEF DevicesTyped
<1>8. \A d \in Device : KnownOK(d)'
  BY <1>2 DEF DevicesInv, KnownOK
<1> QED
  BY <1>5, <1>6, <1>7, <1>8 DEF DevicesInv

\* What the admin does with the cards for devices.
LEMMA AdminOK ==
  ASSUME DevicesInv, handleToggle \/ BackendToggle \/ CalibrationActions \/ onConfirm \/ ConfirmDialog
  PROVE  DevicesInv'
<1>1. Offered \in {"on", "off", "trigger", "stop"}
  BY DEF Offered
<1> QED
  BY <1>1, DialogOK, BeginsOK DEF handleToggle, BackendToggle, CalibrationActions, onConfirm

\* A step on the query of one device, with the mutations.
LEMMA OneQuery ==
  ASSUME DevicesInv, NEW d \in Device, NEW q \in QueryOf(Info), known' = [known EXCEPT ![d] = q],
         \/ known[d].fetch = "answered" /\ q.data = known[d].answer /\ q.fetch # "answered"
         \/ /\ q.data = known[d].data
            /\ q.fetch = "answered" => \/ known[d].fetch = "answered" /\ q.answer = known[d].answer
                                       \/ q.answer.runs = devices[d].runs,
         muts' = [i \in DOMAIN muts |-> muts'[i]], \A i \in DOMAIN muts : muts'[i] \in Mutation,
         \A i \in DOMAIN muts : MutationStep(i) \/ RunOK(i)',
         selected' \in Device, picks' \in 0..MaxMoves, UNCHANGED <<devices, dialog, others, steps>>,
         failures' \in 0..MaxFailures, broken' \in BOOLEAN
  PROVE  DevicesInv'
<1>0. DevicesTyped /\ known \in [Device -> QueryOf(Info)]
  BY DEF DevicesInv, DevicesTyped
<1>1. /\ known' \in [Device -> QueryOf(Info)] /\ known'[d] = q
      /\ \A e \in Device \ {d} : known'[e] = known[e]
  BY <1>0
<1>2. DeviceStep(d)
  <2>1. devices[d].runs <= devices'[d].runs
    BY <1>0, DevicesFacts
  <2> QED
    BY <1>1, <2>1 DEF DeviceStep, Arrives, Stays
<1>3. \A e \in Device : DeviceStep(e)
  BY <1>0, <1>1, <1>2, SameDevice
<1>4. PanelTyped' /\ steps <= steps'
  BY DEF DevicesInv, PanelTyped
<1>5. devices' \in [Device -> DeviceState] /\ dialog' \in BOOLEAN /\ others' \in 0..MaxOthers
  BY <1>0 DEF DevicesTyped
<1> QED
  BY <1>1, <1>3, <1>4, <1>5, DevicesStep

\* Another device is selected: its query is mounted, and the hooks forget their mutations.
LEMMA SelectOK == ASSUME DevicesInv, NEW d \in Device, setSelectedDeviceName(d) PROVE DevicesInv'
<1>0. /\ DevicesTyped /\ known[d] \in QueryOf(Info) /\ (\A i \in DOMAIN muts : muts[i] \in Mutation)
      /\ broken \in BOOLEAN /\ failures \in 0..MaxFailures
  BY DevicesFacts DEF DevicesInv, PanelTyped
<1>1. /\ known' = [known EXCEPT ![d] = Refetch(known[d])] /\ selected' = d
      /\ muts' = [i \in DOMAIN muts |-> [muts[i] EXCEPT !.seen = FALSE]]
      /\ UNCHANGED <<devices, dialog, others, broken, steps, failures>>
  BY <1>0 DEF setSelectedDeviceName, panelVars, DevicesTyped
<1>2. PICK q \in QueryOf(Info) : q = Refetch(known[d])
  BY <1>0 DEF Refetch, QueryOf
<1>3. /\ q.data = known[d].data
      /\ q.fetch = "answered" => known[d].fetch = "answered" /\ q.answer = known[d].answer
  BY <1>0, <1>2 DEF Refetch, QueryOf
<1>4. ASSUME NEW i \in DOMAIN muts PROVE muts'[i] \in Mutation /\ MutationStep(i)
  <2>1. muts'[i] = [muts[i] EXCEPT !.seen = FALSE]
    BY <1>1
  <2>2. /\ muts'[i] \in Mutation
        /\ muts'[i].device = muts[i].device /\ muts'[i].run = muts[i].run /\ muts'[i].stage = muts[i].stage
        /\ muts'[i].fresh = muts[i].fresh /\ muts'[i].awaits = muts[i].awaits
    BY <1>0, <2>1 DEF Mutation
  <2> QED
    BY <2>2 DEF MutationStep, AwaitsFirst
<1>5. picks' \in 0..MaxMoves
  <2>1. picks \in 0..MaxMoves /\ steps \in 0..MaxSteps /\ MaxMoves \in Nat
    BY <1>0, PanelAssumption DEF DevicesTyped, DevicesInv, PanelTyped
  <2> QED
    BY <2>1, NoticesAssumption DEF setSelectedDeviceName
<1>6. muts' = [i \in DOMAIN muts |-> muts'[i]]
  BY <1>1
<1> QED
  BY <1>0, <1>1, <1>2, <1>3, <1>4, <1>5, <1>6, OneQuery

\* A query is polled, or MSS answers it.
LEMMA PollOK ==
  ASSUME DevicesInv, NEW d \in Device, (d = selected /\ poll) \/ getDeviceQuery(d)
  PROVE  DevicesInv'
<1>0. /\ DevicesTyped /\ known[d] \in QueryOf(Info) /\ (\A i \in DOMAIN muts : muts[i] \in Mutation)
      /\ broken \in BOOLEAN /\ failures \in 0..MaxFailures /\ muts \in Seq(Mutation)
      /\ devices[d] \in DeviceState /\ selected \in Device /\ picks \in 0..MaxMoves
  BY DevicesFacts DEF DevicesInv, PanelTyped, DevicesTyped
<1>1. InfoOf(d) \in Info /\ InfoOf(d).runs = devices[d].runs
  BY <1>0 DEF InfoOf, Info, DeviceState
<1>2. PICK q \in QueryOf(Info) :
        /\ known' = [known EXCEPT ![d] = q] /\ q.data = known[d].data
        /\ q.fetch = "answered" => \/ known[d].fetch = "answered" /\ q.answer = known[d].answer
                                   \/ q.answer.runs = devices[d].runs
  <2>1. CASE d = selected /\ poll
    <3>1. PICK q \in QueryOf(Info) : q = Refetch(known[d])
      BY <1>0 DEF Refetch, QueryOf
    <3>2. known' = [known EXCEPT ![d] = q]
      BY <1>0, <2>1, <3>1 DEF poll, DevicesTyped
    <3>3. /\ q.data = known[d].data
          /\ q.fetch = "answered" => known[d].fetch = "answered" /\ q.answer = known[d].answer
      BY <1>0, <3>1 DEF Refetch, QueryOf
    <3> QED
      BY <3>2, <3>3
  <2>2. CASE getDeviceQuery(d)
    <3>1. PICK q \in QueryOf(Info) : q = Answer(known[d], InfoOf(d))
      BY <1>0, <1>1 DEF Answer, QueryOf
    <3>2. known' = [known EXCEPT ![d] = q]
      BY <1>0, <2>2, <3>1 DEF getDeviceQuery, DevicesTyped
    <3>3. q.data = known[d].data /\ q.answer = InfoOf(d)
      BY <1>0, <3>1 DEF Answer, QueryOf
    <3> QED
      BY <1>1, <3>2, <3>3
  <2> QED
    BY <2>1, <2>2
<1>3. UNCHANGED <<devices, selected, dialog, muts, picks, others, broken, steps, failures>>
  BY DEF poll, getDeviceQuery, panelVars
<1>4. \A i \in DOMAIN muts : muts'[i] \in Mutation /\ MutationStep(i)
  BY <1>0, <1>3 DEF MutationStep
<1>5. muts' = [i \in DOMAIN muts |-> muts'[i]]
  BY <1>0, <1>3
<1> QED
  BY <1>0, <1>2, <1>3, <1>4, <1>5, OneQuery

\* The answer arrives, and those that awaited it go on.
LEMMA ArrivesOK == ASSUME DevicesInv, NEW d \in Device, deviceArrives(d) PROVE DevicesInv'
<1>0. /\ DevicesTyped /\ known[d] \in QueryOf(Info) /\ (\A i \in DOMAIN muts : muts[i] \in Mutation)
      /\ broken \in BOOLEAN /\ failures \in 0..MaxFailures
      /\ selected \in Device /\ picks \in 0..MaxMoves /\ known \in [Device -> QueryOf(Info)]
  BY DevicesFacts DEF DevicesInv, PanelTyped, DevicesTyped
<1>1. PICK q \in QueryOf(Info) : q = Applied(known[d])
  BY <1>0 DEF Applied, QueryOf
<1>2. known' = [known EXCEPT ![d] = q] /\ known[d].fetch = "answered"
  BY <1>0, <1>1 DEF deviceArrives
<1>3. q.data = known[d].answer /\ q.fetch = "idle"
  BY <1>1 DEF Applied
<1>4. /\ muts' = [i \in DOMAIN muts |-> [muts[i] EXCEPT !.awaits = @ \ {d}]]
      /\ UNCHANGED <<devices, selected, dialog, picks, others, broken, steps, failures>>
  BY DEF deviceArrives, panelVars
<1>5. Arrives(d)
  BY <1>0, <1>2, <1>3 DEF Arrives
<1>6. ASSUME NEW i \in DOMAIN muts PROVE muts'[i] \in Mutation /\ MutationStep(i)
  <2>1. muts'[i] = [muts[i] EXCEPT !.awaits = muts[i].awaits \ {d}] /\ muts[i].awaits \subseteq Device
    BY <1>0, <1>4 DEF Mutation
  <2>2. /\ muts'[i] \in Mutation
        /\ muts'[i].device = muts[i].device /\ muts'[i].run = muts[i].run /\ muts'[i].stage = muts[i].stage
        /\ muts'[i].fresh = muts[i].fresh /\ muts'[i].awaits = muts[i].awaits \ {d}
    BY <1>0, <2>1 DEF Mutation
  <2> QED
    BY <1>5, <2>2 DEF MutationStep, AwaitsFirst
<1>7. muts' = [i \in DOMAIN muts |-> muts'[i]]
  BY <1>4
<1> QED
  BY <1>0, <1>2, <1>3, <1>4, <1>6, <1>7, OneQuery

\* A mutation that loses the fetch of its own that it awaits has none.
ReleasedOne(m, d) ==
    [m EXCEPT !.awaits = m.awaits \ {d}, !.fresh = m.fresh /\ (m.device = d => d \notin m.awaits)]
ReleasedFrom(r, m) ==
    /\ r \in Mutation /\ r.device = m.device /\ r.run = m.run /\ r.stage = m.stage
    /\ r.fresh => m.fresh
    /\ r.fresh /\ ~AwaitsFirst(r) => ~AwaitsFirst(m)

LEMMA ReleasedOK ==
  ASSUME NEW m \in Mutation, NEW d \in Device
  PROVE  ReleasedFrom(ReleasedOne(m, d), m)
<1>1. PICK b \in BOOLEAN : b = (m.fresh /\ (m.device = d => d \notin m.awaits))
  OBVIOUS
<1>2. PICK r : r = [m EXCEPT !.awaits = m.awaits \ {d}, !.fresh = b]
  OBVIOUS
<1>3. /\ r \in Mutation /\ r.device = m.device /\ r.run = m.run /\ r.stage = m.stage
      /\ r.awaits = m.awaits \ {d} /\ r.fresh = b
  BY <1>2 DEF Mutation
<1>4. ReleasedOne(m, d) = r
  BY <1>1, <1>2 DEF ReleasedOne
<1>5. ReleasedFrom(r, m)
  BY <1>1, <1>3 DEF ReleasedFrom, AwaitsFirst
<1> QED
  BY <1>4, <1>5

\* A fetch gives up.
LEMMA FetchFailsOK == ASSUME DevicesInv, NEW d \in Device, deviceFetchFails(d) PROVE DevicesInv'
<1>0. /\ DevicesTyped /\ known[d] \in QueryOf(Info) /\ (\A i \in DOMAIN muts : muts[i] \in Mutation)
      /\ broken \in BOOLEAN /\ failures \in 0..MaxFailures
      /\ selected \in Device /\ picks \in 0..MaxMoves /\ known \in [Device -> QueryOf(Info)]
  BY DevicesFacts DEF DevicesInv, PanelTyped, DevicesTyped
<1>1. PICK q \in QueryOf(Info) : q = Dropped(known[d])
  BY <1>0 DEF Dropped, QueryOf
<1>2. known' = [known EXCEPT ![d] = q]
  BY <1>0, <1>1 DEF deviceFetchFails
<1>3. q.data = known[d].data /\ q.fetch = "idle"
  BY <1>0, <1>1 DEF Dropped, QueryOf
<1>4. /\ muts' = Released(muts, d)
      /\ UNCHANGED <<devices, selected, dialog, picks, others, steps>>
  BY DEF deviceFetchFails
<1>5. failures' \in 0..MaxFailures
  BY <1>0, NoticesAssumption DEF deviceFetchFails
<1>6. broken' \in BOOLEAN
  BY DEF deviceFetchFails
<1>7. ASSUME NEW i \in DOMAIN muts PROVE muts'[i] \in Mutation /\ MutationStep(i)
  <2>1. muts'[i] = ReleasedOne(muts[i], d)
    BY <1>4 DEF Released, ReleasedOne
  <2>2. ReleasedFrom(muts'[i], muts[i])
    BY <1>0, <2>1, ReleasedOK
  <2> QED
    BY <2>2 DEF ReleasedFrom, MutationStep
<1>8. muts' = [i \in DOMAIN muts |-> muts'[i]]
  BY <1>4 DEF Released
<1> QED
  BY <1>0, <1>2, <1>3, <1>4, <1>5, <1>6, <1>7, <1>8, OneQuery

\* A mutation invalidates a device's query: a new fetch of its own device's is its own,
\* while one that is joined is not, and the fetch that others await is dropped for a new one.
LEMMA InvalidatesOK ==
  ASSUME DevicesInv, NEW i \in DOMAIN muts, NEW d \in Device, NEW stage \in {"first", "second"},
         Invalidates(i, d, stage),
         \/ stage = "first" /\ muts[i].stage = "handled"
         \/ stage = "second" /\ muts[i].stage = "first" /\ muts[i].awaits = {},
         UNCHANGED <<devices, selected, dialog, picks, others, broken, steps, failures>>
  PROVE  DevicesInv'
<1>0. /\ DevicesTyped /\ (\A k \in DOMAIN muts : muts[k] \in Mutation) /\ muts[i] \in Mutation
      /\ broken' \in BOOLEAN /\ failures' \in 0..MaxFailures /\ muts \in Seq(Mutation)
      /\ selected' \in Device /\ picks' \in 0..MaxMoves /\ known \in [Device -> QueryOf(Info)]
      /\ devices' \in [Device -> DeviceState] /\ RunOK(i)
  BY DevicesFacts DEF DevicesInv, PanelTyped, DevicesTyped
<1>1. ~AwaitsFirst(muts[i])
  BY DEF AwaitsFirst
<1>2. known[d] \in QueryOf(Info) /\ devices[d].runs \in Nat
  BY <1>0, DevicesFacts
<1>3. CASE d # selected
  <2>1. muts' = [muts EXCEPT ![i].stage = stage, ![i].awaits = {}] /\ UNCHANGED known
    BY <1>3 DEF Invalidates
  <2>2. PICK r \in Mutation : r = [muts[i] EXCEPT !.stage = stage, !.awaits = {}]
    BY <1>0 DEF Mutation
  <2>3. muts' = [muts EXCEPT ![i] = r] /\ muts'[i] = r
    BY <1>0, <2>1, <2>2
  <2>4. /\ r.stage = stage /\ r.device = muts[i].device /\ r.run = muts[i].run
        /\ r.fresh = muts[i].fresh
    BY <1>0, <2>2 DEF Mutation
  <2>5. MutationStep(i)
    BY <1>1, <2>3, <2>4 DEF MutationStep, Early
  <2>6. \A e \in Device : devices[e].runs <= devices'[e].runs
    BY <1>0, DevicesFacts
  <2> QED
    BY <1>0, <2>1, <2>3, <2>5, <2>6, OneMutation
<1>4. CASE d = selected
  <2>1. PICK ms : ms = IF JoinsFirstFetch(known[d]) THEN muts ELSE Released(muts, d)
    OBVIOUS
  <2>2. PICK b \in BOOLEAN : b = ((stage = "first" /\ d = muts[i].device /\ ~JoinsFirstFetch(known[d])) \/ muts[i].fresh)
    OBVIOUS
  <2>3. /\ known' = [known EXCEPT ![d] = Invalidate(known[d])]
        /\ muts' = [ms EXCEPT ![i].stage = stage, ![i].awaits = {d}, ![i].fresh = b]
    BY <1>0, <1>4, <2>1, <2>2 DEF Invalidates
  <2>4. PICK q \in QueryOf(Info) : q = Invalidate(known[d])
    BY <1>2 DEF Invalidate, QueryOf
  <2>5. /\ q.data = known[d].data
        /\ q.fetch = "answered" => known[d].fetch = "answered" /\ q.answer = known[d].answer
        /\ ~JoinsFirstFetch(known[d]) => q.fetch = "sent"
    BY <1>2, <2>4 DEF Invalidate, QueryOf
  <2>6. known' = [known EXCEPT ![d] = q] /\ known'[d] = q
    BY <1>0, <2>3, <2>4
  <2>7. DOMAIN ms = DOMAIN muts
    BY <2>1 DEF Released
  <2>8. ASSUME NEW k \in DOMAIN muts PROVE ReleasedFrom(ms[k], muts[k])
    <3>1. muts[k] \in Mutation
      BY <1>0
    <3>2. CASE ms = muts
      BY <3>1, <3>2 DEF ReleasedFrom
    <3>3. CASE ms = Released(muts, d)
      <4>1. ms[k] = ReleasedOne(muts[k], d)
        BY <3>3 DEF Released, ReleasedOne
      <4> QED
        BY <3>1, <4>1, ReleasedOK
    <3> QED
      BY <2>1, <3>2, <3>3
  <2>9. ASSUME NEW k \in DOMAIN muts, k # i PROVE muts'[k] \in Mutation /\ MutationStep(k)
    <3>1. muts'[k] = ms[k]
      BY <2>3, <2>7, <2>9
    <3> QED
      BY <2>8, <3>1 DEF ReleasedFrom, MutationStep
  <2>10. muts'[i] = [ms[i] EXCEPT !.stage = stage, !.awaits = {d}, !.fresh = b]
    BY <2>3, <2>7
  <2>11. ms[i] \in Mutation /\ ms[i].device = muts[i].device /\ ms[i].run = muts[i].run
    BY <2>8 DEF ReleasedFrom
  <2>12. /\ muts'[i] \in Mutation /\ muts'[i].device = muts[i].device /\ muts'[i].run = muts[i].run
         /\ muts'[i].stage = stage /\ muts'[i].awaits = {d} /\ muts'[i].fresh = b
    <3>1. {d} \in SUBSET Device
      OBVIOUS
    <3> QED
      BY <2>10, <2>11, <3>1 DEF Mutation
  <2>13. MutationStep(i) \/ RunOK(i)'
    <3>1. CASE stage = "first" /\ d = muts[i].device /\ ~JoinsFirstFetch(known[d])
      <4>1. known'[d].fetch = "sent" /\ muts[i].run <= devices[d].runs
        BY <1>0, <2>5, <2>6, <3>1 DEF RunOK
      <4> QED
        BY <2>12, <3>1, <4>1 DEF RunOK, AwaitsFirst, Early
    <3>2. CASE ~(stage = "first" /\ d = muts[i].device /\ ~JoinsFirstFetch(known[d]))
      <4>1. b = muts[i].fresh
        <5>1. muts[i].fresh \in BOOLEAN
          BY <1>0 DEF Mutation
        <5> QED
          BY <2>2, <3>2, <5>1, Zenon
      <4> QED
        BY <1>1, <2>12, <4>1 DEF MutationStep, Early
    <3> QED
      BY <3>1, <3>2
  <2>14. muts' = [k \in DOMAIN muts |-> muts'[k]]
    BY <2>3, <2>7
  <2>15. \A k \in DOMAIN muts : muts'[k] \in Mutation /\ (MutationStep(k) \/ RunOK(k)')
    BY <2>9, <2>12, <2>13
  <2> QED
    BY <1>0, <2>5, <2>6, <2>14, <2>15, OneQuery
<1> QED
  BY <1>3, <1>4

\* onSuccess of a mutation: its two refreshes.
LEMMA RefreshOK ==
  ASSUME DevicesInv, NEW i \in DOMAIN muts, refreshCalibCache(i) \/ secondRefresh(i)
  PROVE  DevicesInv'
<1>1. UNCHANGED <<devices, selected, dialog, picks, others, broken, steps, failures>>
  BY DEF refreshCalibCache, secondRefresh, panelVars
<1>0. selected \in Device /\ muts[i].device \in Device
  BY DevicesFacts DEF DevicesInv, DevicesTyped
<1>2. CASE refreshCalibCache(i)
  <2>1. PICK d \in Device : d = IF card = "switch" THEN selected ELSE muts[i].device
    BY <1>0
  <2>2. Invalidates(i, d, "first")
    BY <1>2, <2>1 DEF refreshCalibCache
  <2> QED
    BY <1>1, <1>2, <2>2, InvalidatesOK DEF refreshCalibCache
<1>3. CASE secondRefresh(i) /\ Invalidates(i, muts[i].device, "second")
  BY <1>0, <1>1, <1>3, InvalidatesOK DEF secondRefresh
<1>4. CASE secondRefresh(i) /\ muts' = [muts EXCEPT ![i].stage = "second"] /\ UNCHANGED known
  <2>0. /\ DevicesTyped /\ muts[i] \in Mutation /\ muts \in Seq(Mutation)
        /\ devices' \in [Device -> DeviceState] /\ broken' \in BOOLEAN /\ failures' \in 0..MaxFailures
    BY <1>1, DevicesFacts DEF DevicesInv, DevicesTyped, PanelTyped
  <2>1. PICK r \in Mutation : r = [muts[i] EXCEPT !.stage = "second"]
    BY <2>0 DEF Mutation
  <2>2. muts' = [muts EXCEPT ![i] = r] /\ muts'[i] = r
    BY <1>4, <2>0, <2>1
  <2>3. /\ r.stage = "second" /\ r.device = muts[i].device /\ r.run = muts[i].run
        /\ r.fresh = muts[i].fresh /\ r.awaits = muts[i].awaits
    BY <2>0, <2>1 DEF Mutation
  <2>4. MutationStep(i)
    BY <1>4, <2>2, <2>3 DEF secondRefresh, MutationStep, AwaitsFirst, Early
  <2>5. \A e \in Device : devices[e].runs <= devices'[e].runs
    BY <1>1, <2>0, DevicesFacts
  <2> QED
    BY <1>1, <1>4, <2>0, <2>2, <2>4, <2>5, OneMutation
<1> QED
  BY <1>2, <1>3, <1>4 DEF secondRefresh

\* Every step on the cards for devices.
LEMMA DevicesNextOK == ASSUME DevicesInv, DevicesNext PROVE DevicesInv'
<1>1. ASSUME NEW d \in Device,
             setSelectedDeviceName(d) \/ deviceFollows(d) \/ deviceChanges(d) \/ DevicesFetch(d) \/ deviceFetchFails(d)
      PROVE  DevicesInv'
  BY <1>1, SelectOK, DeviceChangesOK, PollOK, ArrivesOK, FetchFailsOK DEF DevicesFetch
<1>2. CASE handleToggle \/ BackendToggle \/ CalibrationActions \/ onConfirm \/ ConfirmDialog
  BY <1>2, AdminOK
<1>3. ASSUME NEW i \in DOMAIN muts, DevicesAnswer(i) \/ requestFails(i) PROVE DevicesInv'
  BY <1>3, HandledOK, StartOK, RefreshOK DEF DevicesAnswer
<1>4. CASE poll
  <2>1. selected \in Device
    BY DEF DevicesInv, DevicesTyped
  <2> QED
    BY <1>4, <2>1, PollOK
<1> QED
  BY <1>1, <1>2, <1>3, <1>4 DEF DevicesNext

-----------------------------------------------------------------------------
\* The panel

PanelInv == card \in {"switch", "calibration", "notices"} /\ NoticesInv /\ DevicesInv

\* The admin's steps on either card only add up.
LEMMA StepsAddUp == ASSUME PanelTyped, NoticesNext \/ DevicesNext PROVE steps <= steps'
<1>0. steps \in Nat
  BY NoticesAssumption DEF PanelTyped
<1>1. CASE NoticesNext
  <2>1. CASE \/ handlePaginationNext \/ handlePaginationPrevious \/ NoticeForm \/ AdminNoticeBanner
    BY <1>0, <2>1 DEF handlePaginationNext, handlePaginationPrevious, NoticeForm, AdminNoticeBanner, NoticeBegins
  <2>2. ASSUME NEW i \in DOMAIN ops, NoticesAnswer(i) \/ noticeRequestFails(i) PROVE steps' = steps
    BY <2>2 DEF NoticesAnswer, noticeRequestFails, createNotice, deleteNotice, posted, refreshAllNotices,
                oldFetchEnds, noticeError, panelVars
  <2>3. CASE tick \/ pollNotices \/ pollCount \/ ListFetch \/ CountFetch \/ noticesFetchFails
    BY <1>0, <2>3 DEF tick, pollNotices, pollCount, ListFetch, CountFetch, noticesFetchFails, getNoticesQuery,
                      listArrives, getNoticeCountQuery, countArrives, panelVars
  <2> QED
    BY <1>0, <1>1, <2>1, <2>2, <2>3 DEF NoticesNext
<1>2. CASE DevicesNext
  <2>1. ASSUME NEW d \in Device,
               setSelectedDeviceName(d) \/ deviceFollows(d) \/ deviceChanges(d) \/ DevicesFetch(d) \/ deviceFetchFails(d)
        PROVE  steps' = steps
    BY <2>1 DEF setSelectedDeviceName, deviceFollows, deviceChanges, DevicesFetch, getDeviceQuery, deviceArrives,
                deviceFetchFails, panelVars
  <2>2. CASE handleToggle \/ BackendToggle \/ CalibrationActions \/ onConfirm \/ ConfirmDialog
    BY <1>0, <2>2 DEF handleToggle, BackendToggle, CalibrationActions, onConfirm, ConfirmDialog, opensDialog,
                      Begins, Does, panelVars
  <2>3. ASSUME NEW i \in DOMAIN muts, DevicesAnswer(i) \/ requestFails(i) PROVE steps' = steps
    BY <2>3 DEF DevicesAnswer, requestFails, switchBackend, startRecalibration, stopRecalibration, refreshCalibCache,
                secondRefresh, toast, onError, panelVars
  <2>4. CASE poll
    BY <1>0, <2>4 DEF poll, panelVars
  <2> QED
    BY <1>0, <1>2, <2>1, <2>2, <2>3, <2>4 DEF DevicesNext
<1> QED
  BY <1>1, <1>2

\* The panel begins with its invariant.
LEMMA PanelInit == ASSUME Init PROVE PanelInv
<1>1. NoticesInv
  BY NoticesInitOK DEF Init
<1>2. selected \in Device
  BY PanelAssumption DEF Init
<1>3. 0 \in 0..MaxRuns /\ 0 \in 0..MaxMoves /\ 0 \in 0..MaxOthers
  BY PanelAssumption
<1>4. \A d \in Device : devices[d] \in DeviceState /\ devices[d].runs = 0
  BY <1>3 DEF Init, DeviceState
<1>5. NoInfo \in Info /\ NoInfo.runs = 0
  BY <1>3 DEF NoInfo, Info
<1>6. ASSUME NEW d \in Device
      PROVE  known[d] \in QueryOf(Info) /\ known[d].data.runs = 0 /\ known[d].fetch # "answered"
  <2>1. known[d] = NewQuery(NoInfo) \/ known[d] = Refetch(NewQuery(NoInfo))
    BY DEF Init
  <2>2. NewQuery(NoInfo) \in QueryOf(Info) /\ Refetch(NewQuery(NoInfo)) \in QueryOf(Info)
    BY <1>5, NewTyped
  <2>3. known[d].data = NoInfo /\ known[d].fetch # "answered"
    BY <2>1 DEF NewQuery, Refetch
  <2>4. known[d] \in QueryOf(Info)
    BY <2>1, <2>2
  <2> QED
    BY <1>5, <2>3, <2>4
<1>7. devices \in [Device -> DeviceState] /\ known \in [Device -> QueryOf(Info)]
  BY <1>4, <1>6 DEF Init
<1>8. muts = <<>> /\ muts \in Seq(Mutation) /\ DOMAIN muts = {} /\ Len(muts) = 0 /\ steps = 0
  BY DEF Init
<1>9. DevicesTyped
  <2>1. picks \in 0..MaxMoves /\ others \in 0..MaxOthers /\ dialog \in BOOLEAN
    BY <1>3 DEF Init
  <2>2. Len(muts) <= steps
    BY <1>8
  <2> QED
    BY <1>2, <1>7, <1>8, <2>1, <2>2 DEF DevicesTyped
<1>10. PanelTyped
  BY <1>1, NoticesFacts DEF NoticesInv, PanelTyped
<1>11. \A d \in Device : KnownOK(d)
  BY <1>4, <1>6 DEF KnownOK
<1> QED
  BY <1>1, <1>8, <1>9, <1>10, <1>11 DEF PanelInv, DevicesInv, Init

\* A step of one card leaves the other's invariant.
LEMMA PanelStep == ASSUME PanelInv, [Next]_vars PROVE PanelInv'
<1>0. PanelTyped /\ NoticesTyped /\ DevicesTyped
  BY DEF PanelInv, DevicesInv, NoticesInv
<1>1. CASE NoticesNext /\ UNCHANGED <<card, devicesVars>>
  <2>1. NoticesInv'
    BY <1>1, NoticesNextOK DEF PanelInv
  <2>2. steps <= steps'
    BY <1>0, <1>1, StepsAddUp
  <2>3. UNCHANGED <<card, devices, selected, known, dialog, muts, picks, others>>
    BY <1>1 DEF devicesVars
  <2>4. PanelTyped'
    BY <2>1 DEF NoticesInv, NoticesTyped, NoticesTypeOK, PanelTyped
  <2>5. Len(muts') <= steps'
    <3>1. Len(muts) \in Nat /\ steps \in Int /\ steps' \in Int /\ Len(muts) <= steps
      BY <1>0, <2>4, LenProperties DEF DevicesTyped, PanelTyped
    <3> QED
      BY <2>2, <2>3, <3>1
  <2>6. DevicesTyped'
    BY <1>0, <2>3, <2>5 DEF DevicesTyped
  <2>7. (\A d \in Device : KnownOK(d)') /\ (\A i \in DOMAIN muts' : RunOK(i)')
    BY <2>3 DEF PanelInv, DevicesInv, KnownOK, RunOK
  <2> QED
    BY <2>1, <2>3, <2>4, <2>6, <2>7 DEF PanelInv, DevicesInv
<1>2. CASE DevicesNext /\ UNCHANGED <<card, noticesVars>>
  <2>1. DevicesInv'
    BY <1>2, DevicesNextOK DEF PanelInv
  <2>2. steps <= steps'
    BY <1>0, <1>2, StepsAddUp
  <2>3. UNCHANGED <<card, clock, notices, stamp, page, list, prev, count, ops>>
    BY <1>2 DEF noticesVars
  <2>4. PanelTyped'
    BY <2>1 DEF DevicesInv
  <2>5. Len(ops') <= steps' /\ page' <= steps' + 1
    <3>1. Len(ops) \in Nat /\ steps \in Int /\ steps' \in Int /\ Len(ops) <= steps /\ page \in Int /\ page <= steps + 1
      BY <1>0, <2>4, LenProperties DEF NoticesTyped, NoticesTypeOK, Counted, PanelTyped
    <3>2. Len(ops') = Len(ops) /\ page' = page
      BY <2>3
    <3>3. Len(ops') <= steps'
      BY <2>2, <3>1, <3>2
    <3>4. page' <= steps' + 1
      <4>1. \A a, b, c \in Int : a <= b + 1 /\ b <= c => a <= c + 1
        OBVIOUS
      <4>2. page <= steps' + 1
        BY <2>2, <3>1, <4>1
      <4> QED
        BY <3>2, <4>2
    <3> QED
      BY <3>3, <3>4
  <2>6. NoticesTypeOK'
    BY <1>0, <2>3, <2>4, <2>5 DEF NoticesTyped, NoticesTypeOK, PanelTyped
  <2>7. NoticesTyped'
    BY <1>0, <2>3, <2>5, <2>6 DEF NoticesTyped, Counted
  <2>8. PostsInv'
    BY <2>3 DEF PanelInv, NoticesInv, PostsInv, PostOK
  <2> QED
    BY <2>1, <2>3, <2>7, <2>8 DEF PanelInv, NoticesInv
<1>3. CASE UNCHANGED vars
  <2>1. UNCHANGED <<card, clock, notices, stamp, page, list, prev, count, ops>>
    BY <1>3 DEF vars, noticesVars
  <2>2. UNCHANGED <<devices, selected, known, dialog, muts, picks, others>>
    BY <1>3 DEF vars, devicesVars
  <2>3. UNCHANGED <<broken, steps, failures>>
    BY <1>3 DEF vars, panelVars
  <2>4. NoticesInv'
    BY <2>1, <2>3 DEF PanelInv, NoticesInv, NoticesTyped, NoticesTypeOK, Counted, PostsInv, PostOK
  <2>5. DevicesInv'
    BY <2>2, <2>3 DEF PanelInv, DevicesInv, DevicesTyped, PanelTyped, KnownOK, RunOK
  <2> QED
    BY <2>1, <2>4, <2>5 DEF PanelInv
<1> QED
  BY <1>1, <1>2, <1>3 DEF Next

\* The invariant holds of every behaviour of the panel.
THEOREM PanelInvariant == Spec => []PanelInv
<1>1. Init => PanelInv
  BY PanelInit
<1>2. PanelInv /\ [Next]_vars => PanelInv'
  BY PanelStep
<1> QED
  BY <1>1, <1>2, PTL DEF Spec

\* Every variable of the control panel keeps its type: the page that MSS answers with is a
\* notice's id or 0, and there are no more mutations than steps of the admin.
THEOREM PanelTypeCorrect == Spec => []TypeOK
<1>1. PanelInv => TypeOK
  <2> SUFFICES ASSUME PanelInv PROVE TypeOK
    OBVIOUS
  <2>1. NoticesTypeOK /\ DevicesTyped /\ card \in {"switch", "calibration", "notices"}
    BY DEF PanelInv, NoticesInv, NoticesTyped, DevicesInv
  <2>2. \A i \in DOMAIN muts : muts[i] \in Mutation
    BY <2>1, DevicesFacts
  <2> QED
    BY <2>1, <2>2 DEF TypeOK, DevicesTyped
<1> QED
  BY <1>1, PanelInvariant, PTL

\* From when a post is answered, any count that the card for notices shows has the notice, if
\* it had started by then and is in force, however pages, fetches, posts and deletions overlap.
THEOREM PostedNoticesAreCounted == Spec => []PostedIsCounted
<1>1. PanelInv => PostedIsCounted
  BY DEF PanelInv, NoticesInv, PostsInv, PostOK, PostedIsCounted
<1> QED
  BY <1>1, PanelInvariant, PTL

\* After "Recalibration started", the card knows of the recalibration if the fetch that the
\* mutation awaited was its own, whatever answers were on their way when it was triggered.
THEOREM StartedRunsAreKnown == Spec => []StartedIsKnown
<1>1. PanelInv => StartedIsKnown
  <2> SUFFICES ASSUME PanelInv, NEW i \in DOMAIN muts, muts[i].stage \in {"second", "told"}, muts[i].fresh
               PROVE  known[muts[i].device].data.runs >= muts[i].run
    BY DEF StartedIsKnown
  <2>1. DevicesTyped /\ RunOK(i)
    BY DEF PanelInv, DevicesInv
  <2>2. muts[i].device \in Device /\ muts[i].run \in Nat
    BY <2>1, DevicesFacts
  <2>3. known[muts[i].device].data.runs \in Nat
    BY <2>1, <2>2, DevicesFacts
  <2>4. muts[i].run <= known[muts[i].device].data.runs
    BY <2>1 DEF RunOK, AwaitsFirst
  <2> QED
    BY <2>2, <2>3, <2>4
<1> QED
  BY <1>1, PanelInvariant, PTL
=============================================================================
