---------------------------- MODULE CalendarProofs ----------------------------
(***************************************************************************)
(* The calendar is type-correct, its edits and moves never leave more      *)
(* bookings than were asked for, however many overlap and fail, and what   *)
(* it says was saved is what it shows.                                     *)
(***************************************************************************)
EXTENDS BookingsCalendar, FiniteSetTheorems, TLAPS

\* The edits, moves and discards that have taken a booking away and not made it again
Owed == {o \in Drag \cup {"edit"} : op[o].stage \in {"cancelled", "create"}}

\* Each of them may make one booking more
BookingsInv ==
    /\ IsFiniteSet(server)
    /\ Cardinality(server) + Cardinality(Owed) <= granted

\* No more bookings were asked for and made than there are ids
Typed == TypeOK /\ granted < nextId

-----------------------------------------------------------------------------
\* What happens to a query leaves it a query, of the same data or of what was answered.
LEMMA QueryTyped ==
  ASSUME NEW D, NEW q \in QueryOf(D), NEW d \in D
  PROVE  /\ Refetch(q) \in QueryOf(D) /\ Invalidate(q) \in QueryOf(D)
         /\ Answer(q, d) \in QueryOf(D) /\ Applied(q) \in QueryOf(D)
         /\ Dropped(q) \in QueryOf(D)
BY DEF QueryOf, Refetch, Invalidate, JoinsFirstFetch, Answer, Applied, Dropped

Mutation == [stage : Stage, id : 0..MaxId, start : Time, discards : BOOLEAN, shows : BOOLEAN]

\* A mutation that begins is a mutation.
LEMMA BeginsTyped ==
  ASSUME Typed, NEW o \in Op, NEW stage \in Stage, NEW id \in 0..MaxId, NEW start \in Time,
         NEW discards \in BOOLEAN, Begins(o, stage, id, start, discards)
  PROVE  op' \in [Op -> Mutation] /\ begun' \in 0..MaxOps
<1>1. [stage |-> stage, id |-> id, start |-> start, discards |-> discards, shows |-> FALSE] \in Mutation
  BY DEF Mutation
<1>2. op \in [Op -> Mutation] /\ begun \in 0..MaxOps
  BY DEF Typed, TypeOK, Mutation
<1>3. op' \in [Op -> Mutation]
  BY <1>1, <1>2 DEF Begins
<1>4. begun' \in 0..MaxOps
  BY <1>2, CalendarAssumption DEF Begins
<1> QED
  BY <1>3, <1>4

\* The idle mutation and the closed dialog are of their types.
LEMMA RestTyped == NoOp \in Mutation /\ ClosedForm \in [open : BOOLEAN, since : Time]
BY CalendarAssumption DEF NoOp, Mutation, ClosedForm, Stage, Time

\* The mutations that are released stay mutations.
LEMMA ReleasedTyped ==
  ASSUME NEW ops \in [Op -> Mutation]
  PROVE  Released(ops) \in [Op -> Mutation]
<1>1. ASSUME NEW o \in Op PROVE [ops[o] EXCEPT !.stage = "refreshed", !.shows = FALSE] \in Mutation
  BY DEF Mutation, Stage
<1> QED
  BY <1>1 DEF Released

\* The calendar starts as one.
LEMMA InitTyped == Init => Typed
<1> SUFFICES ASSUME Init PROVE Typed
  OBVIOUS
<1>1. server \subseteq Booking
  BY CalendarAssumption DEF Init, Booking, User
<1>2. query \in QueryOf(SUBSET Booking)
  BY DEF Init, Refetch, NewQuery, QueryOf
<1>3. op \in [Op -> Mutation]
  BY RestTyped DEF Init
<1>4. form \in [{"create", "edit"} -> [open : BOOLEAN, since : Time]]
  BY RestTyped DEF Init
<1>5. /\ now \in Time /\ nextId \in 1..(MaxId + 1) /\ granted \in 0..MaxId /\ granted < nextId
      /\ current \in 0..MaxId /\ begun \in 0..MaxOps /\ failures \in 0..MaxFailures
  BY CalendarAssumption DEF Init, Time
<1>6. broken \in BOOLEAN
  BY DEF Init
<1> QED
  BY <1>1, <1>2, <1>3, <1>4, <1>5, <1>6 DEF Typed, TypeOK, Mutation

-----------------------------------------------------------------------------
\* What the user does keeps the types.
LEMMA UserTyped ==
  ASSUME Typed, UserStep
  PROVE  Typed'
<1>0. op \in [Op -> Mutation] /\ query.data \subseteq Booking
  BY DEF Typed, TypeOK, Mutation, QueryOf
<1>1. ASSUME NEW o \in Drag, NEW b \in query.data, handleBookingCancel(o, b) PROVE Typed'
  <2>1. o \in Op /\ b.id \in 0..MaxId /\ b.start \in Time /\ "cancel" \in Stage
    BY <1>0, CalendarAssumption DEF Op, Booking, Stage
  <2>2. op' \in [Op -> Mutation] /\ begun' \in 0..MaxOps
    BY <1>1, <2>1, BeginsTyped DEF handleBookingCancel
  <2> QED
    BY <1>1, <2>2 DEF handleBookingCancel, Typed, TypeOK, Mutation
<1>2. ASSUME NEW o \in Drag, NEW b \in query.data, NEW t \in Time, bookingMove(o, b, t) PROVE Typed'
  <2>1. /\ o \in Op /\ b.id \in 0..MaxId
        /\ (IF isBookingEditable(b, t) THEN "cancel" ELSE "reverted") \in Stage
    BY <1>0, CalendarAssumption DEF Op, Booking, Stage
  <2>2. op' \in [Op -> Mutation] /\ begun' \in 0..MaxOps
    BY <1>2, <2>1, BeginsTyped DEF bookingMove
  <2> QED
    BY <1>2, <2>2 DEF bookingMove, Typed, TypeOK, Mutation
<1>3. CASE handleDateClick
  <2>1. form' \in [{"create", "edit"} -> [open : BOOLEAN, since : Time]]
    BY <1>3 DEF handleDateClick, Typed, TypeOK
  <2> QED
    BY <1>3, <2>1 DEF handleDateClick, Typed, TypeOK
<1>4. ASSUME NEW b \in query.data, handleBookingEdit(b) PROVE Typed'
  <2>1. form' \in [{"create", "edit"} -> [open : BOOLEAN, since : Time]]
    BY <1>4 DEF handleBookingEdit, Typed, TypeOK
  <2>2. current' \in 0..MaxId
    BY <1>0, <1>4, CalendarAssumption DEF handleBookingEdit, Booking
  <2> QED
    BY <1>4, <2>1, <2>2 DEF handleBookingEdit, Typed, TypeOK
<1>5. ASSUME NEW f \in {"create", "edit"}, NEW t \in Time, submitForm(f, t) PROVE Typed'
  <2>1. "create" \in Op /\ "edit" \in Op /\ "create" \in Stage /\ "cancel" \in Stage
    BY DEF Op, Stage
  <2>2. 0 \in 0..MaxId /\ current \in 0..MaxId
    BY CalendarAssumption DEF Typed, TypeOK
  <2>3. CASE f = "create"
    <3>1. Begins("create", "create", 0, t, FALSE)
      BY <1>5, <2>3 DEF submitForm
    <3> QED
      BY <1>5, <2>1, <2>2, <3>1, BeginsTyped DEF submitForm, Typed, TypeOK, Mutation
  <2>4. CASE f = "edit"
    <3>1. Begins("edit", "cancel", current, t, FALSE)
      BY <1>5, <2>4 DEF submitForm
    <3> QED
      BY <1>5, <2>1, <2>2, <3>1, BeginsTyped DEF submitForm, Typed, TypeOK, Mutation
  <2> QED
    BY <2>3, <2>4
<1>6. ASSUME NEW f \in {"create", "edit"}, handleOpenChange(f) PROVE Typed'
  <2>1. form' \in [{"create", "edit"} -> [open : BOOLEAN, since : Time]]
    BY <1>6, RestTyped DEF handleOpenChange, Typed, TypeOK
  <2> QED
    BY <1>6, <2>1 DEF handleOpenChange, Typed, TypeOK
<1> QED
  BY <1>1, <1>2, <1>3, <1>4, <1>5, <1>6 DEF UserStep

\* What the backend does, and the answers to mutations, keep the types.
LEMMA AnswerTyped ==
  ASSUME Typed, NEW o \in Op, AnswerStep(o) \/ requestFails(o)
  PROVE  Typed'
<1>0. op \in [Op -> Mutation] /\ op[o] \in Mutation
  BY DEF Typed, TypeOK, Mutation
<1>S. ASSUME NEW stage \in Stage PROVE [op EXCEPT ![o].stage = stage] \in [Op -> Mutation]
  <2>1. [op[o] EXCEPT !.stage = stage] \in Mutation
    BY <1>0 DEF Mutation
  <2> QED
    BY <1>0, <2>1
<1>1. CASE cancelBooking(o)
  <2>1. op' \in [Op -> Mutation]
    BY <1>1, <1>S DEF cancelBooking, Stage
  <2>2. server' \subseteq Booking
    BY <1>1 DEF cancelBooking, Typed, TypeOK
  <2> QED
    BY <1>1, <2>1, <2>2 DEF cancelBooking, Typed, TypeOK, Mutation
<1>2. CASE createNewBooking(o)
  <2> DEFINE taken == \E b \in server : b.start = op[o].start
  <2>0. nextId \in 1..MaxId /\ granted \in 0..MaxId /\ granted < nextId /\ nextId \in 0..MaxId /\ MaxId \in Nat
    BY <1>2, CalendarAssumption DEF createNewBooking, Typed, TypeOK
  <2>1. CASE taken
    <3>1. /\ op' = [op EXCEPT ![o].stage = "failed", ![o].id = op[o].id]
          /\ UNCHANGED <<server, nextId, granted>>
      BY <1>2, <2>1 DEF createNewBooking
    <3>2. op' \in [Op -> Mutation]
      BY <1>0, <3>1 DEF Mutation, Stage
    <3> QED
      BY <1>2, <3>1, <3>2 DEF createNewBooking, Typed, TypeOK, Mutation
  <2>2. CASE ~taken
    <3>1. /\ op' = [op EXCEPT ![o].stage = "created", ![o].id = nextId]
          /\ server' = server \cup {[id |-> nextId, user |-> "me", start |-> op[o].start]}
          /\ nextId' = nextId + 1
          /\ granted' = granted \/ granted' = granted + 1
      BY <1>2, <2>2 DEF createNewBooking
    <3>2. op' \in [Op -> Mutation]
      BY <1>0, <2>0, <3>1 DEF Mutation, Stage
    <3>3. server' \subseteq Booking
      BY <1>0, <2>0, <3>1 DEF Typed, TypeOK, Booking, Mutation, User
    <3>4. nextId' \in 1..(MaxId + 1) /\ granted' \in 0..MaxId /\ granted' < nextId'
      BY <2>0, <3>1
    <3> QED
      BY <1>2, <3>2, <3>3, <3>4 DEF createNewBooking, Typed, TypeOK, Mutation
  <2> QED
    BY <2>1, <2>2
<1>3. CASE updateBooking(o)
  <2>1. op' \in [Op -> Mutation]
    BY <1>3, <1>S DEF updateBooking, Stage
  <2> QED
    BY <1>3, <2>1 DEF updateBooking, Typed, TypeOK, Mutation
<1>4. CASE refreshBookingsQueries(o)
  <2>0. CASE broken
    <3>1. op' = [op EXCEPT ![o].stage = "refreshed", ![o].shows = FALSE] /\ query' = query
      BY <1>4, <2>0 DEF refreshBookingsQueries
    <3>2. op' \in [Op -> Mutation]
      BY <1>0, <3>1 DEF Mutation, Stage
    <3> QED
      BY <1>4, <3>1, <3>2 DEF refreshBookingsQueries, Typed, TypeOK, Mutation
  <2>n. CASE ~broken
    <3>0. query \in QueryOf(SUBSET Booking) /\ query' = Invalidate(query)
      BY <1>4, <2>n DEF refreshBookingsQueries, Typed, TypeOK
    <3>1. query' \in QueryOf(SUBSET Booking)
      BY <3>0, QueryTyped
    <3>2. PICK ops \in [Op -> Mutation], joins \in BOOLEAN :
            op' = [ops EXCEPT ![o].stage = "refreshing", ![o].shows = joins]
      <4>1. (~JoinsFirstFetch(query)) \in BOOLEAN
        BY DEF JoinsFirstFetch
      <4>2. (IF JoinsFirstFetch(query) THEN op ELSE Released(op)) \in [Op -> Mutation]
        BY <1>0, ReleasedTyped
      <4> QED
        BY <1>4, <2>n, <4>1, <4>2 DEF refreshBookingsQueries
    <3>3. op' \in [Op -> Mutation]
      BY <3>2 DEF Mutation, Stage
    <3> QED
      BY <1>4, <3>1, <3>3 DEF refreshBookingsQueries, Typed, TypeOK, Mutation
  <2> QED
    BY <2>0, <2>n
<1>5. CASE onSuccess(o)
  <2>1. op' \in [Op -> Mutation]
    BY <1>0, <1>5, RestTyped DEF onSuccess
  <2>2. form' \in [{"create", "edit"} -> [open : BOOLEAN, since : Time]]
    BY <1>5, RestTyped DEF onSuccess, Typed, TypeOK
  <2>3. current' \in 0..MaxId
    BY <1>0, <1>5 DEF onSuccess, Typed, TypeOK, Mutation
  <2> QED
    BY <1>5, <2>1, <2>2, <2>3 DEF onSuccess, Typed, TypeOK, Mutation
<1>6. CASE onError(o)
  <2>1. op' \in [Op -> Mutation]
    BY <1>0, <1>6, RestTyped DEF onError
  <2>2. form' \in [{"create", "edit"} -> [open : BOOLEAN, since : Time]]
    BY <1>6, RestTyped DEF onError, Typed, TypeOK
  <2> QED
    BY <1>6, <2>1, <2>2 DEF onError, Typed, TypeOK, Mutation
<1>7. CASE requestFails(o)
  <2>1. op' \in [Op -> Mutation]
    BY <1>7, <1>S DEF requestFails, Stage
  <2>2. failures' \in 0..MaxFailures
    BY <1>7, CalendarAssumption DEF requestFails, Typed, TypeOK
  <2> QED
    BY <1>7, <2>1, <2>2 DEF requestFails, Typed, TypeOK, Mutation
<1> QED
  BY <1>1, <1>2, <1>3, <1>4, <1>5, <1>6, <1>7 DEF AnswerStep

\* Other users, time and the query's fetches keep the types.
LEMMA OtherTyped ==
  ASSUME Typed, (\E t \in Time : otherBooks(t)) \/ poll \/ FetchStep \/ fetchFails \/ tick
  PROVE  Typed'
<1>0. op \in [Op -> Mutation] /\ query \in QueryOf(SUBSET Booking) /\ server \in SUBSET Booking
  BY DEF Typed, TypeOK, Mutation
<1>1. ASSUME NEW t \in Time, otherBooks(t) PROVE Typed'
  <2>0. nextId \in 1..MaxId /\ granted \in 0..MaxId /\ granted < nextId /\ MaxId \in Nat
    BY <1>1, CalendarAssumption DEF otherBooks, Typed, TypeOK
  <2>1. server' \subseteq Booking
    BY <1>0, <1>1, <2>0 DEF otherBooks, Booking, User
  <2>2. nextId' \in 1..(MaxId + 1) /\ granted' \in 0..MaxId /\ granted' < nextId'
    BY <1>1, <2>0 DEF otherBooks
  <2>3. begun' \in 0..MaxOps
    BY <1>1, CalendarAssumption DEF otherBooks, Typed, TypeOK
  <2> QED
    BY <1>1, <2>1, <2>2, <2>3 DEF otherBooks, Typed, TypeOK
<1>2. CASE poll
  BY <1>0, <1>2, QueryTyped DEF poll, Typed, TypeOK
<1>3. CASE getBookings
  BY <1>0, <1>3, QueryTyped DEF getBookings, Typed, TypeOK
<1>4. CASE fetchArrives
  <2>1. query' \in QueryOf(SUBSET Booking)
    BY <1>0, <1>4, QueryTyped DEF fetchArrives
  <2>2. op' \in [Op -> Mutation]
    <3>1. ASSUME NEW o \in Op PROVE [op[o] EXCEPT !.stage = "refreshed"] \in Mutation
      BY <1>0 DEF Mutation, Stage
    <3> QED
      BY <1>0, <1>4, <3>1 DEF fetchArrives
  <2> QED
    BY <1>4, <2>1, <2>2 DEF fetchArrives, Typed, TypeOK, Mutation
<1>5. CASE fetchFails
  <2>1. query' \in QueryOf(SUBSET Booking)
    BY <1>0, <1>5, QueryTyped DEF fetchFails
  <2>2. op' \in [Op -> Mutation]
    BY <1>0, <1>5, ReleasedTyped DEF fetchFails
  <2>3. failures' \in 0..MaxFailures /\ broken' \in BOOLEAN
    BY <1>5, CalendarAssumption DEF fetchFails, Typed, TypeOK
  <2> QED
    BY <1>5, <2>1, <2>2, <2>3 DEF fetchFails, Typed, TypeOK, Mutation
<1>6. CASE tick
  BY <1>6, CalendarAssumption DEF tick, Typed, TypeOK, Time
<1> QED
  BY <1>1, <1>2, <1>3, <1>4, <1>5, <1>6 DEF FetchStep

\* Every step keeps the types.
LEMMA StepTyped == Typed /\ [Next]_vars => Typed'
<1>1. CASE UNCHANGED vars
  BY <1>1 DEF vars, Typed, TypeOK
<1> QED
  BY <1>1, UserTyped, AnswerTyped, OtherTyped DEF Next

\* The calendar is type-correct for any bounds and any number of operations at once: ids and
\* what was granted stay within what the backend has made.
THEOREM CalendarTypeCorrect == Spec => []TypeOK
<1>1. Typed => TypeOK
  BY DEF Typed
<1> QED
  BY <1>1, InitTyped, StepTyped, PTL DEF Spec

-----------------------------------------------------------------------------
\* There are finitely many operations that may owe a booking.
LEMMA OwedFinite == IsFiniteSet(Owed) /\ Cardinality(Owed) \in Nat
<1>1. IsFiniteSet(Drag \cup {"edit"})
  BY CalendarAssumption, FS_AddElement
<1>2. Owed \in SUBSET (Drag \cup {"edit"})
  BY DEF Owed
<1> QED
  BY <1>1, <1>2, FS_Subset, FS_CardinalityType

\* A step after which no operation owes more, and which leaves the bookings alone.
LEMMA OwesNoMore ==
  ASSUME BookingsInv, Typed, UNCHANGED <<server, granted>>, Owed' \subseteq Owed
  PROVE  BookingsInv'
<1>1. Cardinality(Owed') \in Nat /\ Cardinality(Owed') <= Cardinality(Owed)
  BY OwedFinite, FS_Subset, FS_CardinalityType
<1>2. Cardinality(server) \in Nat /\ granted \in Nat /\ Cardinality(Owed) \in Nat
  BY OwedFinite, FS_CardinalityType, CalendarAssumption DEF BookingsInv, Typed, TypeOK
<1> QED
  BY <1>1, <1>2 DEF BookingsInv

\* Only these steps touch the bookings or what is owed.
LEMMA UserOwes == ASSUME Typed, UserStep PROVE UNCHANGED <<server, granted>> /\ Owed' \subseteq Owed
<1>0. op \in [Op -> Mutation] /\ Drag \cup {"edit"} \subseteq Op /\ "create" \notin Drag \cup {"edit"}
  BY CalendarAssumption DEF Typed, TypeOK, Mutation, Op
<1>1. ASSUME NEW o \in Op, NEW stage, NEW id, NEW start, NEW discards,
             Begins(o, stage, id, start, discards),
             stage \in {"cancel", "reverted"} \/ o = "create"
      PROVE  Owed' \subseteq Owed
  <2>1. \A x \in Op : x # o => op'[x] = op[x]
    BY <1>0, <1>1 DEF Begins
  <2>2. op'[o].stage = stage
    BY <1>0, <1>1 DEF Begins
  <2> QED
    BY <1>0, <1>1, <2>1, <2>2 DEF Owed
<1>2. ASSUME NEW o \in Drag, NEW b \in query.data, handleBookingCancel(o, b)
      PROVE  UNCHANGED <<server, granted>> /\ Owed' \subseteq Owed
  BY <1>0, <1>1, <1>2 DEF handleBookingCancel
<1>3. ASSUME NEW o \in Drag, NEW b \in query.data, NEW t \in Time, bookingMove(o, b, t)
      PROVE  UNCHANGED <<server, granted>> /\ Owed' \subseteq Owed
  BY <1>0, <1>1, <1>3 DEF bookingMove
<1>4. ASSUME NEW f \in {"create", "edit"}, NEW t \in Time, submitForm(f, t)
      PROVE  UNCHANGED <<server, granted>> /\ Owed' \subseteq Owed
  <2>1. \/ Begins("create", "create", 0, t, FALSE)
        \/ Begins("edit", "cancel", current, t, FALSE)
    BY <1>4 DEF submitForm
  <2>2. "create" \in Op /\ "edit" \in Op
    BY DEF Op
  <2>3. Owed' \subseteq Owed
    BY <1>1, <2>1, <2>2
  <2> QED
    BY <1>4, <2>3 DEF submitForm
<1>5. ASSUME handleDateClick \/ (\E b \in query.data : handleBookingEdit(b))
               \/ \E f \in {"create", "edit"} : handleOpenChange(f)
      PROVE  UNCHANGED <<server, granted>> /\ Owed' \subseteq Owed
  BY <1>5 DEF handleDateClick, handleBookingEdit, handleOpenChange, Owed
<1> QED
  BY <1>2, <1>3, <1>4, <1>5 DEF UserStep

\* A cancellation that succeeds takes at least one booking away, which its operation owes.
LEMMA CancelOwes ==
  ASSUME Typed, BookingsInv, NEW o \in Op, cancelBooking(o)
  PROVE  BookingsInv'
<1>0. op \in [Op -> Mutation] /\ Drag \cup {"edit"} \subseteq Op
  BY DEF Typed, TypeOK, Mutation, Op
<1>1. \A x \in Op : x # o => op'[x] = op[x]
  BY <1>0 DEF cancelBooking
<1>2. CASE op[o].id \in Ids(server)
  <2>1. PICK b \in server : b.id = op[o].id
    BY <1>2 DEF Ids
  <2>2. server' \in SUBSET (server \ {b}) /\ granted' = granted
    BY <1>2, <2>1 DEF cancelBooking
  <2>3. IsFiniteSet(server \ {b}) /\ Cardinality(server \ {b}) = Cardinality(server) - 1
    BY <2>1, FS_RemoveElement DEF BookingsInv
  <2>4. IsFiniteSet(server') /\ Cardinality(server') <= Cardinality(server) - 1
    BY <2>2, <2>3, FS_Subset
  <2>5. Owed' \in SUBSET (Owed \cup {o})
    BY <1>0, <1>1 DEF Owed
  <2>6. IsFiniteSet(Owed \cup {o}) /\ Cardinality(Owed \cup {o}) <= Cardinality(Owed) + 1
    BY OwedFinite, FS_AddElement
  <2>7. IsFiniteSet(Owed') /\ Cardinality(Owed') <= Cardinality(Owed) + 1
    <3>1. IsFiniteSet(Owed') /\ Cardinality(Owed') <= Cardinality(Owed \cup {o})
      BY <2>5, <2>6, FS_Subset
    <3>2. Cardinality(Owed') \in Nat /\ Cardinality(Owed \cup {o}) \in Nat
      BY <2>6, <3>1, FS_CardinalityType
    <3> QED
      BY <2>6, <3>1, <3>2, OwedFinite
  <2>8. /\ Cardinality(server) \in Nat /\ Cardinality(server') \in Nat
        /\ Cardinality(Owed) \in Nat /\ Cardinality(Owed') \in Nat /\ granted \in Nat
    BY <2>4, <2>7, OwedFinite, FS_CardinalityType, CalendarAssumption DEF BookingsInv, Typed, TypeOK
  <2> QED
    BY <2>2, <2>4, <2>7, <2>8 DEF BookingsInv
<1>3. CASE op[o].id \notin Ids(server)
  <2>0. op' = [op EXCEPT ![o].stage = "failed"] /\ UNCHANGED <<server, granted>>
    BY <1>3 DEF cancelBooking
  <2>1. op'[o].stage = "failed" /\ UNCHANGED <<server, granted>>
    BY <1>0, <2>0 DEF Mutation
  <2>2. Owed' \subseteq Owed
    BY <1>0, <1>1, <2>1 DEF Owed
  <2> QED
    BY <2>1, <2>2, OwesNoMore
<1> QED
  BY <1>2, <1>3

\* A creation is one that is asked for, or one that its operation owes.
LEMMA CreateOwes ==
  ASSUME Typed, BookingsInv, NEW o \in Op, createNewBooking(o)
  PROVE  BookingsInv'
<1>0. op \in [Op -> Mutation] /\ Drag \cup {"edit"} \subseteq Op /\ Op = (Drag \cup {"edit"}) \cup {"create"}
  BY DEF Typed, TypeOK, Mutation, Op
<1>1. \A x \in Op : x # o => op'[x] = op[x]
  BY <1>0 DEF createNewBooking
<1> DEFINE taken == \E b \in server : b.start = op[o].start
           new == [id |-> nextId, user |-> "me", start |-> op[o].start]
<1>2. CASE taken
  <2>1. /\ op' = [op EXCEPT ![o].stage = "failed", ![o].id = op[o].id]
        /\ UNCHANGED <<server, granted>>
    BY <1>2 DEF createNewBooking
  <2>2. op'[o].stage = "failed"
    BY <1>0, <2>1 DEF Mutation
  <2>3. Owed' \subseteq Owed
    BY <1>0, <1>1, <2>2 DEF Owed
  <2> QED
    BY <2>1, <2>3, OwesNoMore
<1>3. CASE ~taken
  <2>1. /\ op' = [op EXCEPT ![o].stage = "created", ![o].id = nextId]
        /\ server' = server \cup {new}
        /\ granted' = IF o = "create" THEN granted + 1 ELSE granted
    BY <1>3 DEF createNewBooking
  <2>2. op'[o].stage = "created"
    BY <1>0, <2>1 DEF Mutation
  <2> HIDE DEF new
  <2>3. IsFiniteSet(server') /\ Cardinality(server') <= Cardinality(server) + 1
    <3>1. Cardinality(server) \in Nat
      BY FS_CardinalityType DEF BookingsInv
    <3> QED
      BY <2>1, <3>1, FS_AddElement DEF BookingsInv
  <2>4. Cardinality(Owed') <= IF o = "create" THEN Cardinality(Owed) ELSE Cardinality(Owed) - 1
    <3>1. CASE o = "create"
      <4>1. Owed' \in SUBSET Owed
        BY <1>0, <1>1, <2>2, <3>1 DEF Owed
      <4> QED
        BY <3>1, <4>1, OwedFinite, FS_Subset
    <3>2. CASE o # "create"
      <4>1. o \in Owed
        BY <1>0, <3>2 DEF Owed, createNewBooking
      <4>2. Owed' \in SUBSET (Owed \ {o})
        BY <1>0, <1>1, <2>2 DEF Owed
      <4>3. IsFiniteSet(Owed \ {o}) /\ Cardinality(Owed \ {o}) = Cardinality(Owed) - 1
        BY <4>1, OwedFinite, FS_RemoveElement
      <4>4. Cardinality(Owed') <= Cardinality(Owed \ {o})
        BY <4>2, <4>3, FS_Subset
      <4> QED
        BY <3>2, <4>3, <4>4
    <3> QED
      BY <3>1, <3>2
  <2>5. Cardinality(Owed') \in Nat
    <3>1. Owed' \in SUBSET Owed
      BY <1>0, <1>1, <2>2 DEF Owed
    <3> QED
      BY <3>1, OwedFinite, FS_Subset, FS_CardinalityType
  <2>6. Cardinality(server) \in Nat /\ Cardinality(server') \in Nat /\ Cardinality(Owed) \in Nat /\ granted \in Nat
    BY <2>3, OwedFinite, FS_CardinalityType, CalendarAssumption DEF BookingsInv, Typed, TypeOK
  <2>7. CASE o = "create"
    BY <2>1, <2>3, <2>4, <2>5, <2>6, <2>7 DEF BookingsInv
  <2>8. CASE o # "create"
    BY <2>1, <2>3, <2>4, <2>5, <2>6, <2>8 DEF BookingsInv
  <2> QED
    BY <2>7, <2>8
<1> QED
  BY <1>2, <1>3

\* The other answers owe no more: updateBooking goes on only from a cancellation.
LEMMA AnswerOwes ==
  ASSUME Typed, BookingsInv, NEW o \in Op,
         updateBooking(o) \/ refreshBookingsQueries(o) \/ onSuccess(o) \/ onError(o) \/ requestFails(o)
  PROVE  BookingsInv'
<1>0. op \in [Op -> Mutation] /\ Drag \cup {"edit"} \subseteq Op
  BY DEF Typed, TypeOK, Mutation, Op
<1>1. UNCHANGED <<server, granted>>
  BY DEF updateBooking, refreshBookingsQueries, onSuccess, onError, requestFails
<1>2. CASE updateBooking(o)
  <2>1. op' = [op EXCEPT ![o].stage = "create"] /\ op[o].stage = "cancelled"
    BY <1>2 DEF updateBooking
  <2>2. Owed' \subseteq Owed
    BY <1>0, <2>1 DEF Owed
  <2> QED
    BY <1>1, <2>2, OwesNoMore
<1>3. CASE refreshBookingsQueries(o) /\ broken
  <2>1. op' = [op EXCEPT ![o].stage = "refreshed", ![o].shows = FALSE]
    BY <1>3 DEF refreshBookingsQueries
  <2>2. op'[o].stage = "refreshed" /\ \A x \in Op : x # o => op'[x] = op[x]
    BY <1>0, <2>1 DEF Mutation
  <2>3. Owed' \subseteq Owed
    BY <1>0, <2>2 DEF Owed
  <2> QED
    BY <1>1, <2>3, OwesNoMore
<1>6. CASE refreshBookingsQueries(o) /\ ~broken
  <2> DEFINE ops == IF JoinsFirstFetch(query) THEN op ELSE Released(op)
  <2>1. \A x \in Op : ops[x].stage \in {"cancelled", "create"} => op[x].stage \in {"cancelled", "create"}
    BY DEF Released
  <2>2. ops \in [Op -> Mutation]
    BY <1>0, ReleasedTyped
  <2>3. op' = [ops EXCEPT ![o].stage = "refreshing", ![o].shows = ~JoinsFirstFetch(query)]
    BY <1>6 DEF refreshBookingsQueries
  <2> HIDE DEF ops
  <2>4. op'[o].stage = "refreshing" /\ \A x \in Op : x # o => op'[x] = ops[x]
    BY <2>2, <2>3 DEF Mutation
  <2>5. Owed' \subseteq Owed
    BY <1>0, <2>1, <2>4 DEF Owed
  <2> QED
    BY <1>1, <2>5, OwesNoMore
<1>4. CASE onSuccess(o) \/ onError(o)
  <2>1. op' = [op EXCEPT ![o] = NoOp]
    BY <1>4 DEF onSuccess, onError
  <2>2. Owed' \subseteq Owed
    BY <1>0, <2>1 DEF Owed, NoOp
  <2> QED
    BY <1>1, <2>2, OwesNoMore
<1>5. CASE requestFails(o)
  <2>1. op' = [op EXCEPT ![o].stage = "failed"]
    BY <1>5 DEF requestFails
  <2>2. Owed' \subseteq Owed
    BY <1>0, <2>1 DEF Owed
  <2> QED
    BY <1>1, <2>2, OwesNoMore
<1> QED
  BY <1>2, <1>3, <1>4, <1>5, <1>6

\* Others' bookings are granted, and fetches owe nothing.
LEMMA OtherOwes ==
  ASSUME Typed, BookingsInv,
         (\E t \in Time : otherBooks(t)) \/ poll \/ FetchStep \/ fetchFails \/ tick
  PROVE  BookingsInv'
<1>0. op \in [Op -> Mutation] /\ Drag \cup {"edit"} \subseteq Op
  BY DEF Typed, TypeOK, Mutation, Op
<1>1. ASSUME NEW t \in Time, otherBooks(t) PROVE BookingsInv'
  <2> DEFINE new == [id |-> nextId, user |-> "other", start |-> t]
  <2>1. server' = server \cup {new} /\ granted' = granted + 1 /\ Owed' = Owed
    BY <1>1 DEF otherBooks, Owed
  <2> HIDE DEF new
  <2>2. /\ Cardinality(server) \in Nat /\ Cardinality(Owed) \in Nat /\ granted \in Nat
    BY OwedFinite, FS_CardinalityType, CalendarAssumption DEF BookingsInv, Typed, TypeOK
  <2>3. IsFiniteSet(server') /\ Cardinality(server') <= Cardinality(server) + 1
    <3>1. IsFiniteSet(server)
      BY DEF BookingsInv
    <3> QED
      BY <2>1, <2>2, <3>1, FS_AddElement
  <2>4. Cardinality(server') \in Nat
    BY <2>3, FS_CardinalityType
  <2> QED
    BY <2>1, <2>2, <2>3, <2>4 DEF BookingsInv
<1>2. CASE poll \/ getBookings \/ tick
  <2>1. UNCHANGED <<server, granted, op>>
    BY <1>2 DEF poll, getBookings, tick
  <2> QED
    BY <2>1, OwesNoMore DEF Owed
<1>3. CASE fetchArrives
  <2>1. UNCHANGED <<server, granted>> /\ Owed' \subseteq Owed
    BY <1>0, <1>3 DEF fetchArrives, Owed
  <2> QED
    BY <2>1, OwesNoMore
<1>4. CASE fetchFails
  <2>1. UNCHANGED <<server, granted>> /\ op' = Released(op)
    BY <1>4 DEF fetchFails
  <2>2. \A x \in Op : op'[x].stage \in {"cancelled", "create"} => op[x].stage \in {"cancelled", "create"}
    BY <1>0, <2>1 DEF Released, Mutation
  <2>3. Owed' \subseteq Owed
    BY <1>0, <2>2 DEF Owed
  <2> QED
    BY <2>1, <2>3, OwesNoMore
<1> QED
  BY <1>1, <1>2, <1>3, <1>4 DEF FetchStep

\* At first there is one booking, which was granted, and nothing is owed.
LEMMA InitOwes == Init => BookingsInv
<1> SUFFICES ASSUME Init PROVE BookingsInv
  OBVIOUS
<1>1. IsFiniteSet(server) /\ Cardinality(server) = 1 /\ granted = 1
  BY FS_Singleton DEF Init
<1>2. Owed = {}
  BY DEF Init, Owed, NoOp, Op
<1> QED
  BY <1>1, <1>2, FS_EmptySet DEF BookingsInv

\* Every step keeps what is owed within what was granted.
LEMMA StepOwes == Typed /\ BookingsInv /\ [Next]_vars => BookingsInv'
<1> SUFFICES ASSUME Typed, BookingsInv, [Next]_vars PROVE BookingsInv'
  OBVIOUS
<1>1. CASE UNCHANGED vars
  <2>1. UNCHANGED <<server, granted, op>>
    BY <1>1 DEF vars
  <2> QED
    BY <2>1, OwesNoMore DEF Owed
<1>2. CASE UserStep
  BY <1>2, UserOwes, OwesNoMore
<1>3. ASSUME NEW o \in Op, AnswerStep(o) \/ requestFails(o) PROVE BookingsInv'
  BY <1>3, CancelOwes, CreateOwes, AnswerOwes DEF AnswerStep
<1> QED
  BY <1>1, <1>2, <1>3, OtherOwes DEF Next

\* However many edits, moves and discards overlap and whatever fails, the backend never has
\* more bookings than were asked for: each update that goes on to its creation owes the one
\* booking that its own cancellation took away.
THEOREM BookingsOneForOne == Spec => []OneForOne
<1>1. Typed /\ BookingsInv => OneForOne
  <2> SUFFICES ASSUME Typed, BookingsInv PROVE OneForOne
    OBVIOUS
  <2>1. Cardinality(server) \in Nat /\ Cardinality(Owed) \in Nat /\ granted \in Nat
    BY OwedFinite, FS_CardinalityType, CalendarAssumption DEF BookingsInv, Typed, TypeOK
  <2> QED
    BY <2>1 DEF BookingsInv, OneForOne
<1> QED
  BY <1>1, InitTyped, StepTyped, InitOwes, StepOwes, PTL DEF Spec

-----------------------------------------------------------------------------
\* What is told as saved is shown: whatever fetch is applied once a mutation has refreshed the
\* bookings was answered after the backend had made its change.

\* The ids that anything knows are of bookings made before
IdsKnown ==
    /\ \A b \in server \cup query.data \cup query.answer : b.id < nextId
    /\ current < nextId

\* Bookings that have what the mutation of o did
Shows(o, bookings) ==
    IF op[o].discards THEN op[o].id \notin Ids(bookings)
    ELSE op[o].id \in Ids(bookings) \/ op[o].id \notin Ids(server)

\* A discarded booking does not come back, and the data, and the answer that is on its way,
\* are of after the change if the mutation has refetched
OpShown(o) ==
    /\ op[o].id < nextId
    /\ op[o].discards =>
         /\ op[o].stage \notin {"create", "created", "reverted"}
         /\ op[o].stage \in {"cancelled", "refreshing", "refreshed"} => op[o].id \notin Ids(server)
    /\ op[o].shows =>
         /\ op[o].stage = "refreshed" => Shows(o, query.data)
         /\ op[o].stage \in {"refreshing", "refreshed"} /\ query.fetch = "answered" =>
              Shows(o, query.answer)

ShownInv == IdsKnown /\ \A o \in Op : OpShown(o)

\* Ids are numbers.
LEMMA IdsAreNumbers ==
  ASSUME Typed
  PROVE  /\ nextId \in Nat /\ current \in Nat
         /\ \A b \in server \cup query.data \cup query.answer : b.id \in Nat
         /\ \A o \in Op : op[o] \in Mutation /\ op[o].id \in Nat
<1>1. nextId \in Nat /\ current \in Nat
  BY CalendarAssumption DEF Typed, TypeOK
<1>2. server \cup query.data \cup query.answer \subseteq Booking
  BY DEF Typed, TypeOK, QueryOf
<1>3. \A b \in Booking : b.id \in Nat
  BY CalendarAssumption DEF Booking
<1>4. \A o \in Op : op[o] \in Mutation
  BY DEF Typed, TypeOK, Mutation
<1>5. \A m \in Mutation : m.id \in Nat
  BY CalendarAssumption DEF Mutation
<1> QED
  BY <1>1, <1>2, <1>3, <1>4, <1>5

\* The backend's bookings grow by new ids only.
Grows ==
    /\ nextId \in Nat /\ nextId' \in Nat /\ nextId <= nextId'
    /\ \A i \in Nat : i < nextId /\ i \in Ids(server') => i \in Ids(server)

\* A mutation that a step leaves alone is shown as it was.
LEMMA SameOp ==
  ASSUME Typed, Grows, query' = query, NEW x \in Op, OpShown(x), op'[x] = op[x]
  PROVE  OpShown(x)'
<1>1. op[x].id \in Nat /\ op[x].id < nextId /\ op[x].id < nextId'
  BY IdsAreNumbers DEF Grows, OpShown
<1>2. op[x].id \notin Ids(server) => op[x].id \notin Ids(server')
  BY <1>1 DEF Grows
<1> QED
  BY <1>1, <1>2 DEF OpShown, Shows, Ids

\* So is a mutation that has nothing to show yet.
LEMMA QuietOp ==
  ASSUME Typed, Grows, NEW x \in Op, op'[x].id < nextId', op'[x].stage \notin {"refreshing", "refreshed"},
         op'[x].discards => op'[x].stage \in {"idle", "cancel", "failed"}
  PROVE  OpShown(x)'
BY DEF OpShown

\* A step of one mutation, which fetches nothing.
LEMMA OneOp ==
  ASSUME Typed, ShownInv, Grows, query' = query, NEW o \in Op,
         \A x \in Op \ {o} : op'[x] = op[x], OpShown(o)', IdsKnown'
  PROVE  ShownInv'
<1>1. \A x \in Op \ {o} : OpShown(x)'
  BY SameOp DEF ShownInv
<1> QED
  BY <1>1 DEF ShownInv

\* An operation begins with a booking that the calendar knows, or with none.
LEMMA UserShows == ASSUME Typed, ShownInv, UserStep PROVE ShownInv'
<1>0. /\ op \in [Op -> Mutation] /\ Drag \subseteq Op /\ "create" \in Op /\ "edit" \in Op
      /\ current < nextId /\ 0 < nextId /\ \A b \in query.data : b.id < nextId
  BY DEF Typed, TypeOK, Mutation, Op, ShownInv, IdsKnown
<1>g. UNCHANGED <<server, nextId, query>> /\ Grows
  <2>1. UNCHANGED <<server, nextId, query>>
    BY DEF UserStep, handleBookingCancel, bookingMove, handleDateClick, handleBookingEdit,
       submitForm, handleOpenChange
  <2> QED
    BY <2>1, IdsAreNumbers DEF Grows
<1>1. ASSUME NEW o \in Op, NEW stage \in {"cancel", "create", "reverted"}, NEW id, NEW start, NEW discards,
             Begins(o, stage, id, start, discards), discards => stage = "cancel", id < nextId,
             current' = current
      PROVE  ShownInv'
  <2>1. \A x \in Op \ {o} : op'[x] = op[x]
    BY <1>0, <1>1 DEF Begins
  <2>2. op'[o] = [stage |-> stage, id |-> id, start |-> start, discards |-> discards, shows |-> FALSE]
    BY <1>0, <1>1 DEF Begins
  <2>3. OpShown(o)'
    BY <1>g, <1>1, <2>2, QuietOp
  <2>4. IdsKnown'
    BY <1>g, <1>1 DEF ShownInv, IdsKnown
  <2> QED
    BY <1>g, <2>1, <2>3, <2>4, OneOp
<1>2. ASSUME NEW o \in Drag, NEW b \in query.data, handleBookingCancel(o, b) PROVE ShownInv'
  <2>1. Begins(o, "cancel", b.id, b.start, TRUE) /\ current' = current
    BY <1>2 DEF handleBookingCancel
  <2> QED
    BY <1>0, <1>1, <2>1
<1>3. ASSUME NEW o \in Drag, NEW b \in query.data, NEW t \in Time, bookingMove(o, b, t)
      PROVE  ShownInv'
  <2>1. /\ Begins(o, "cancel", b.id, t, FALSE) \/ Begins(o, "reverted", b.id, t, FALSE)
        /\ current' = current
    BY <1>3 DEF bookingMove
  <2> QED
    BY <1>0, <1>1, <2>1
<1>4. ASSUME NEW f \in {"create", "edit"}, NEW t \in Time, submitForm(f, t) PROVE ShownInv'
  <2>1. /\ \/ Begins("create", "create", 0, t, FALSE)
           \/ Begins("edit", "cancel", current, t, FALSE)
        /\ current' = current
    BY <1>4 DEF submitForm
  <2> QED
    BY <1>0, <1>1, <2>1
<1>5. ASSUME handleDateClick \/ (\E b \in query.data : handleBookingEdit(b))
               \/ \E f \in {"create", "edit"} : handleOpenChange(f)
      PROVE  ShownInv'
  <2>1. op' = op /\ current' < nextId
    BY <1>0, <1>5 DEF handleDateClick, handleBookingEdit, handleOpenChange
  <2>2. IdsKnown'
    BY <1>g, <2>1 DEF ShownInv, IdsKnown
  <2>3. \A x \in Op : OpShown(x)'
    BY <1>g, <2>1, SameOp DEF ShownInv
  <2> QED
    BY <2>2, <2>3 DEF ShownInv
<1> QED
  BY <1>2, <1>3, <1>4, <1>5 DEF UserStep

\* A cancellation takes the booking away for good.
LEMMA CancelShows == ASSUME Typed, ShownInv, NEW o \in Op, cancelBooking(o) PROVE ShownInv'
<1>0. op \in [Op -> Mutation] /\ op[o].id \in Nat /\ op[o].id < nextId
  BY IdsAreNumbers DEF Typed, TypeOK, Mutation, ShownInv, OpShown
<1>1. \A x \in Op \ {o} : op'[x] = op[x]
  BY <1>0 DEF cancelBooking
<1>2. UNCHANGED <<nextId, query, current>> /\ server' \subseteq server
  BY DEF cancelBooking
<1>3. Grows
  BY <1>2, IdsAreNumbers DEF Grows, Ids
<1>4. IdsKnown'
  BY <1>2 DEF ShownInv, IdsKnown
<1>5. OpShown(o)'
  <2>1. CASE op[o].id \in Ids(server)
    <3>1. op' = [op EXCEPT ![o].stage = "cancelled"] /\ server' = {b \in server : b.id # op[o].id}
      BY <2>1 DEF cancelBooking
    <3>2. op'[o].stage = "cancelled" /\ op'[o].id = op[o].id
      BY <1>0, <3>1 DEF Mutation
    <3>3. op[o].id \notin Ids(server')
      BY <3>1 DEF Ids
    <3> QED
      BY <1>0, <1>2, <3>2, <3>3 DEF OpShown, Ids
  <2>2. CASE op[o].id \notin Ids(server)
    <3>1. op' = [op EXCEPT ![o].stage = "failed"]
      BY <2>2 DEF cancelBooking
    <3>2. op'[o].stage = "failed" /\ op'[o].id = op[o].id
      BY <1>0, <3>1 DEF Mutation
    <3> QED
      BY <1>0, <1>2, <3>2 DEF OpShown
  <2> QED
    BY <2>1, <2>2
<1> QED
  BY <1>1, <1>2, <1>3, <1>4, <1>5, OneOp

\* A creation gives the booking an id that nothing knows.
LEMMA CreateShows == ASSUME Typed, ShownInv, NEW o \in Op, createNewBooking(o) PROVE ShownInv'
<1>0. op \in [Op -> Mutation] /\ op[o].id \in Nat /\ op[o].id < nextId /\ ~op[o].discards
      /\ nextId \in Nat
  BY IdsAreNumbers DEF Typed, TypeOK, Mutation, ShownInv, OpShown, createNewBooking
<1>1. \A x \in Op \ {o} : op'[x] = op[x]
  BY <1>0 DEF createNewBooking
<1> DEFINE taken == \E b \in server : b.start = op[o].start
           new == [id |-> nextId, user |-> "me", start |-> op[o].start]
<1>2. CASE taken
  <2>1. /\ op' = [op EXCEPT ![o].stage = "failed", ![o].id = op[o].id]
        /\ UNCHANGED <<server, nextId, query, current>>
    BY <1>2 DEF createNewBooking
  <2>2. op'[o].stage = "failed" /\ op'[o].id = op[o].id
    BY <1>0, <2>1 DEF Mutation
  <2>3. Grows /\ IdsKnown'
    BY <1>0, <2>1 DEF Grows, ShownInv, IdsKnown
  <2>4. OpShown(o)'
    BY <1>0, <2>1, <2>2 DEF OpShown
  <2> QED
    BY <1>1, <2>1, <2>3, <2>4, OneOp
<1>3. CASE ~taken
  <2>1. /\ op' = [op EXCEPT ![o].stage = "created", ![o].id = nextId]
        /\ server' = server \cup {new} /\ nextId' = nextId + 1 /\ UNCHANGED <<query, current>>
    BY <1>3 DEF createNewBooking
  <2>2. op'[o].stage = "created" /\ op'[o].id = nextId /\ op'[o].discards = op[o].discards
    BY <1>0, <2>1 DEF Mutation
  <2>n. new.id = nextId
    OBVIOUS
  <2> HIDE DEF new
  <2>3. Grows
    BY <1>0, <2>1, <2>n DEF Grows, Ids
  <2>4. IdsKnown'
    <3>1. \A i \in Nat : i < nextId => i < nextId + 1
      BY <1>0
    <3> QED
      BY <1>0, <2>1, <2>n, <3>1, IdsAreNumbers DEF ShownInv, IdsKnown
  <2>5. OpShown(o)'
    <3>1. op'[o].id < nextId'
      BY <1>0, <2>1, <2>2
    <3> QED
      BY <1>0, <2>2, <3>1 DEF OpShown
  <2> QED
    BY <1>1, <2>1, <2>3, <2>4, <2>5, OneOp
<1> QED
  BY <1>2, <1>3

\* Going on to the creation, and the end of a mutation, show nothing new.
LEMMA EndShows ==
  ASSUME Typed, ShownInv, NEW o \in Op,
         updateBooking(o) \/ onSuccess(o) \/ onError(o) \/ requestFails(o)
  PROVE  ShownInv'
<1>0. op \in [Op -> Mutation] /\ op[o].id < nextId /\ 0 < nextId
  BY CalendarAssumption DEF Typed, TypeOK, Mutation, ShownInv, OpShown
<1>1. UNCHANGED <<server, nextId, query>>
  BY DEF updateBooking, onSuccess, onError, requestFails
<1>2. Grows
  BY <1>1, IdsAreNumbers DEF Grows
<1>3. IdsKnown'
  <2>1. current' < nextId
    BY <1>0 DEF updateBooking, onSuccess, onError, requestFails, ShownInv, IdsKnown
  <2> QED
    BY <1>1, <2>1 DEF ShownInv, IdsKnown
<1>4. \A x \in Op \ {o} : op'[x] = op[x]
  BY <1>0 DEF updateBooking, onSuccess, onError, requestFails
<1>5. OpShown(o)'
  <2>1. CASE updateBooking(o)
    <3>1. op' = [op EXCEPT ![o].stage = "create"] /\ ~op[o].discards
      BY <2>1 DEF updateBooking
    <3>2. op'[o].stage = "create" /\ op'[o].id = op[o].id /\ ~op'[o].discards
      BY <1>0, <3>1 DEF Mutation
    <3> QED
      BY <1>0, <1>1, <1>2, <3>2, QuietOp
  <2>2. CASE onSuccess(o) \/ onError(o)
    <3>1. op'[o] = NoOp
      BY <1>0, <2>2 DEF onSuccess, onError
    <3> QED
      BY <1>0, <1>1, <1>2, <3>1, QuietOp DEF NoOp
  <2>3. CASE requestFails(o)
    <3>1. op' = [op EXCEPT ![o].stage = "failed"]
      BY <2>3 DEF requestFails
    <3>2. op'[o].stage = "failed" /\ op'[o].id = op[o].id
      BY <1>0, <3>1 DEF Mutation
    <3> QED
      BY <1>0, <1>1, <1>2, <3>2, QuietOp
  <2> QED
    BY <2>1, <2>2, <2>3
<1> QED
  BY <1>1, <1>2, <1>3, <1>4, <1>5, OneOp

\* A mutation that is released no longer says that it shows; the others are as they were.
LEMMA ReleasedOp ==
  ASSUME NEW ops \in [Op -> Mutation], NEW x \in Op
  PROVE  /\ ops[x].stage # "refreshing" => Released(ops)[x] = ops[x]
         /\ ops[x].stage = "refreshing" =>
              /\ Released(ops)[x].stage = "refreshed" /\ ~Released(ops)[x].shows
              /\ Released(ops)[x].id = ops[x].id /\ Released(ops)[x].discards = ops[x].discards
BY DEF Released, Mutation

\* A page that is gone shows nothing: the mutation ends without a fetch.
LEMMA BrokenShows ==
  ASSUME Typed, ShownInv, NEW o \in Op, refreshBookingsQueries(o), broken
  PROVE  ShownInv'
<1>1. op' = [op EXCEPT ![o].stage = "refreshed", ![o].shows = FALSE]
      /\ UNCHANGED <<server, nextId, current, query>>
  BY DEF refreshBookingsQueries
<1>2. op \in [Op -> Mutation]
  BY DEF Typed, TypeOK, Mutation
<1>3. Grows /\ IdsKnown'
  BY <1>1, IdsAreNumbers DEF Grows, ShownInv, IdsKnown
<1>4. \A x \in Op \ {o} : op'[x] = op[x]
  BY <1>1, <1>2
<1>5. OpShown(o)'
  <2>1. /\ op'[o].stage = "refreshed" /\ ~op'[o].shows
        /\ op'[o].id = op[o].id /\ op'[o].discards = op[o].discards
    BY <1>1, <1>2 DEF Mutation
  <2>2. op[o].id < nextId /\ (op[o].discards => op[o].id \notin Ids(server))
    BY DEF ShownInv, OpShown, refreshBookingsQueries, Succeeded
  <2> QED
    BY <1>1, <2>1, <2>2 DEF OpShown, Ids
<1> QED
  BY <1>1, <1>3, <1>4, <1>5, OneOp

\* The mutation's own fetch begins after the backend has made the change; what joins the first
\* fetch does not claim to show anything.
LEMMA RefreshShows ==
  ASSUME Typed, ShownInv, NEW o \in Op, refreshBookingsQueries(o), ~broken
  PROVE  ShownInv'
<1> DEFINE ops == IF JoinsFirstFetch(query) THEN op ELSE Released(op)
<1>0. op \in [Op -> Mutation] /\ query \in QueryOf(SUBSET Booking)
  BY DEF Typed, TypeOK, Mutation
<1>1. UNCHANGED <<server, nextId, current>> /\ query' = Invalidate(query)
  BY DEF refreshBookingsQueries
<1>2. ops \in [Op -> Mutation]
  BY <1>0, ReleasedTyped
<1>3. op' = [ops EXCEPT ![o].stage = "refreshing", ![o].shows = ~JoinsFirstFetch(query)]
  BY DEF refreshBookingsQueries
<1>4. ops[o] = op[o]
  <2>1. op[o].stage # "refreshing"
    BY DEF refreshBookingsQueries, Succeeded
  <2> QED
    BY <1>0, <2>1, ReleasedOp
<1>5. /\ JoinsFirstFetch(query) => query' = query
      /\ ~JoinsFirstFetch(query) => query'.fetch = "sent"
      /\ query'.data = query.data /\ query'.answer \in {query.data, query.answer}
  BY <1>0, <1>1 DEF Invalidate, QueryOf
<1>6. IdsKnown'
  BY <1>1, <1>5 DEF ShownInv, IdsKnown
<1>7. OpShown(o)'
  <2> HIDE DEF ops
  <2>1. /\ op'[o].stage = "refreshing" /\ op'[o].shows = ~JoinsFirstFetch(query)
        /\ op'[o].id = op[o].id /\ op'[o].discards = op[o].discards
    BY <1>2, <1>3, <1>4 DEF Mutation
  <2>2. op'[o].discards => op[o].id \notin Ids(server)
    BY <2>1 DEF ShownInv, OpShown, refreshBookingsQueries, Succeeded
  <2>3. op[o].id < nextId
    BY DEF ShownInv, OpShown
  <2> QED
    BY <1>1, <1>5, <2>1, <2>2, <2>3 DEF OpShown, Ids
<1>8. ASSUME NEW x \in Op \ {o} PROVE OpShown(x)'
  <2>1. op'[x] = ops[x]
    <3> HIDE DEF ops
    <3> QED BY <1>2, <1>3
  <2>2. OpShown(x)
    BY DEF ShownInv
  <2>3. CASE JoinsFirstFetch(query)
    BY <1>1, <1>5, <2>1, <2>2, <2>3 DEF OpShown, Shows, Ids
  <2>4. CASE ~JoinsFirstFetch(query) /\ op[x].stage # "refreshing"
    <3>1. op'[x] = op[x]
      BY <1>0, <2>1, <2>4, ReleasedOp
    <3> QED
      BY <1>1, <1>5, <2>2, <2>4, <3>1 DEF OpShown, Shows, Ids
  <2>5. CASE ~JoinsFirstFetch(query) /\ op[x].stage = "refreshing"
    <3>1. /\ op'[x].stage = "refreshed" /\ ~op'[x].shows
          /\ op'[x].id = op[x].id /\ op'[x].discards = op[x].discards
      BY <1>0, <2>1, <2>5, ReleasedOp
    <3> QED
      BY <1>1, <2>2, <2>5, <3>1 DEF OpShown, Ids
  <2> QED
    BY <2>3, <2>4, <2>5
<1> QED
  BY <1>6, <1>7, <1>8 DEF ShownInv

\* Others' bookings have new ids; an answer has what the backend has, and so every change that
\* was made before it.
LEMMA OtherShows ==
  ASSUME Typed, ShownInv,
         (\E t \in Time : otherBooks(t)) \/ poll \/ FetchStep \/ fetchFails \/ tick
  PROVE  ShownInv'
<1>0. op \in [Op -> Mutation] /\ query \in QueryOf(SUBSET Booking) /\ nextId \in Nat
  BY IdsAreNumbers DEF Typed, TypeOK, Mutation
<1>1. ASSUME NEW t \in Time, otherBooks(t) PROVE ShownInv'
  <2> DEFINE new == [id |-> nextId, user |-> "other", start |-> t]
  <2>1. server' = server \cup {new} /\ nextId' = nextId + 1 /\ UNCHANGED <<query, op, current>>
    BY <1>1 DEF otherBooks
  <2>n. new.id = nextId
    OBVIOUS
  <2> HIDE DEF new
  <2>2. Grows
    BY <1>0, <2>1, <2>n DEF Grows, Ids
  <2>3. IdsKnown'
    <3>1. \A i \in Nat : i < nextId => i < nextId + 1
      BY <1>0
    <3> QED
      BY <1>0, <2>1, <2>n, <3>1, IdsAreNumbers DEF ShownInv, IdsKnown
  <2> QED
    BY <2>1, <2>2, <2>3, SameOp DEF ShownInv
<1>2. CASE tick
  <2>1. UNCHANGED <<server, nextId, query, op, current>>
    BY <1>2 DEF tick
  <2> QED
    BY <2>1 DEF ShownInv, IdsKnown, OpShown, Shows, Ids
<1>3. CASE poll
  <2>1. /\ UNCHANGED <<server, nextId, op, current>>
        /\ query'.fetch = "sent" /\ query'.data = query.data /\ query'.answer = query.answer
    BY <1>0, <1>3 DEF poll, Refetch, QueryOf
  <2> QED
    BY <2>1 DEF ShownInv, IdsKnown, OpShown, Shows, Ids
<1>4. CASE getBookings
  <2>1. /\ UNCHANGED <<server, nextId, op, current>>
        /\ query'.data = query.data /\ query'.answer = server
    BY <1>0, <1>4 DEF getBookings, Answer, QueryOf
  <2>2. IdsKnown'
    BY <2>1 DEF ShownInv, IdsKnown
  <2>3. ASSUME NEW x \in Op PROVE OpShown(x)'
    <3>1. op[x].stage \in {"refreshing", "refreshed"} => Shows(x, server)
      BY DEF ShownInv, OpShown, Shows
    <3> QED
      BY <2>1, <3>1 DEF ShownInv, OpShown, Shows, Ids
  <2> QED
    BY <2>2, <2>3 DEF ShownInv
<1>5. CASE fetchArrives
  <2>1. /\ UNCHANGED <<server, nextId, current>> /\ query.fetch = "answered"
        /\ query'.data = query.answer /\ query'.answer = query.answer /\ query'.fetch = "idle"
    BY <1>5 DEF fetchArrives, Applied
  <2>2. IdsKnown'
    BY <2>1 DEF ShownInv, IdsKnown
  <2>3. ASSUME NEW x \in Op PROVE OpShown(x)'
    <3>1. /\ op'[x].id = op[x].id /\ op'[x].discards = op[x].discards /\ op'[x].shows = op[x].shows
          /\ op'[x].stage = IF op[x].stage = "refreshing" THEN "refreshed" ELSE op[x].stage
      BY <1>0, <1>5 DEF fetchArrives, Mutation
    <3> QED
      BY <2>1, <3>1 DEF ShownInv, OpShown, Shows, Ids
  <2> QED
    BY <2>2, <2>3 DEF ShownInv
<1>6. CASE fetchFails
  <2>1. /\ UNCHANGED <<server, nextId, current>> /\ op' = Released(op)
        /\ query'.data = query.data /\ query'.answer = query.data /\ query'.fetch = "idle"
    BY <1>0, <1>6 DEF fetchFails, Dropped, QueryOf
  <2>2. IdsKnown'
    BY <2>1 DEF ShownInv, IdsKnown
  <2>3. ASSUME NEW x \in Op PROVE OpShown(x)'
    <3>1. CASE op[x].stage # "refreshing"
      <4>1. op'[x] = op[x]
        BY <1>0, <2>1, <3>1, ReleasedOp
      <4> QED
        BY <2>1, <4>1 DEF ShownInv, OpShown, Shows, Ids
    <3>2. CASE op[x].stage = "refreshing"
      <4>1. /\ op'[x].stage = "refreshed" /\ ~op'[x].shows
            /\ op'[x].id = op[x].id /\ op'[x].discards = op[x].discards
        BY <1>0, <2>1, <3>2, ReleasedOp
      <4> QED
        BY <2>1, <3>2, <4>1 DEF ShownInv, OpShown, Ids
    <3> QED
      BY <3>1, <3>2
  <2> QED
    BY <2>2, <2>3 DEF ShownInv
<1> QED
  BY <1>1, <1>2, <1>3, <1>4, <1>5, <1>6 DEF FetchStep

\* At first no mutation has anything to show.
LEMMA InitShows == Init => ShownInv
<1> SUFFICES ASSUME Init PROVE ShownInv
  OBVIOUS
<1>1. query.data = {} /\ query.answer = {}
  BY DEF Init, Refetch, NewQuery
<1>2. server \subseteq {b \in server : b.id = 1} /\ nextId = 2 /\ current = 0
  BY DEF Init
<1>3. \A o \in Op : op[o] = NoOp
  BY DEF Init
<1> QED
  BY <1>1, <1>2, <1>3 DEF ShownInv, IdsKnown, OpShown, NoOp

\* Every step keeps it so.
LEMMA StepShows == Typed /\ ShownInv /\ [Next]_vars => ShownInv'
<1> SUFFICES ASSUME Typed, ShownInv, [Next]_vars PROVE ShownInv'
  OBVIOUS
<1>1. CASE UNCHANGED vars
  BY <1>1 DEF vars, ShownInv, IdsKnown, OpShown, Shows, Ids
<1>2. CASE UserStep
  BY <1>2, UserShows
<1>3. ASSUME NEW o \in Op, AnswerStep(o) \/ requestFails(o) PROVE ShownInv'
  BY <1>3, CancelShows, CreateShows, EndShows, RefreshShows, BrokenShows DEF AnswerStep
<1> QED
  BY <1>1, <1>2, <1>3, OtherShows DEF Next

\* refreshBookingsQueries, in lib/api/bookings.ts: when a mutation says that a booking was saved
\* or discarded, and its own refetch was answered, the calendar shows it so, whatever other
\* operations, polls and users do between the request and the toast.
THEOREM SavedBookingsAreShown == Spec => []SavedIsShown
<1>1. ShownInv => SavedIsShown
  BY DEF ShownInv, OpShown, Shows, SavedIsShown
<1> QED
  BY <1>1, InitTyped, StepTyped, InitShows, StepShows, PTL DEF Spec
=============================================================================
