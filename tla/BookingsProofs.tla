--------------------------- MODULE BookingsProofs ---------------------------
(***************************************************************************)
(* Proofs about Bookings, for any sets of bookings, technicians and        *)
(* requests and any bounds.  The last part proves what an overlap costs.   *)
(***************************************************************************)
EXTENDS Bookings, TLAPS

-----------------------------------------------------------------------------
(* Type correctness.                                                       *)

\* Rows and snapshots refer to bookings that exist.
Referenced ==
  /\ \A i \in DOMAIN assignments : status[assignments[i].booking] # "NONE"
  /\ \A r \in Requests :
       req[r].op \in {"status", "gps", "reschedule", "backfill", "assign"} =>
         status[req[r].b] # "NONE"

TypeInv == TypeOK /\ Referenced

\* What a handler holds after its reads: a snapshot of rows that exist, as they
\* are now.
Snapshot(s) ==
  /\ s \in Request
  /\ s.op \in {"reassign", "accept", "reject", "unassign"} => s.a \in DOMAIN assignments
  /\ s.op \in {"status", "gps", "reschedule", "backfill", "assign"} => status[s.b] # "NONE"
  /\ s.op \in {"status", "gps", "reschedule"} => s.seen = status[s.b]
  /\ s.op = "accept" => s.seen = status[assignments[s.a].booking]
  /\ s.op = "backfill" => status[s.b] = "COMPLETED"

LEMMA RowType ==
  ASSUME TypeOK, NEW i \in DOMAIN assignments
  PROVE  /\ i \in Nat \ {0}
         /\ i \in 1..Len(assignments)
         /\ assignments[i].booking \in Bookings
         /\ assignments[i].tech \in Technicians
         /\ assignments[i].status \in AssignmentStatus
<1>1. assignments \in Seq(AssignmentRow)
  BY DEF TypeOK
<1>2. i \in 1..Len(assignments) /\ assignments[i] \in AssignmentRow
  BY <1>1
<1> QED BY <1>1, <1>2 DEF AssignmentRow

\* The fields a snapshot has, by its operation.
LEMMA SnapshotType ==
  ASSUME NEW s \in Request
  PROVE  /\ s.op \in {"status", "gps", "reschedule", "backfill", "assign"} => s.b \in Bookings
         /\ s.op \in {"status", "gps", "reschedule", "accept"} => s.seen \in BookingStatus
         /\ s.op \in {"status", "gps"} => s.next \in BookingStatus
BY BookingsAssumption DEF Request, Idle

\* Once its reads are done, a handler holds a snapshot of rows that exist.
LEMMA BeginHolds ==
  ASSUME TypeInv, NEW r \in Requests, Begin(r)
  PROVE  \E s : Snapshot(s) /\ Hold(r, s)
<1>1. CASE \E actor \in Actors, b \in Recordable : BeginReschedule(r, actor, b)
  <2>1. PICK actor \in Actors, b \in Bookings : BeginReschedule(r, actor, b)
    BY <1>1 DEF Recordable
  <2>2. Snapshot([op |-> "reschedule", b |-> b, seen |-> status[b]])
    BY <2>1 DEF BeginReschedule, requireAccessible, Snapshot, Request, TypeInv, TypeOK
  <2> QED BY <2>1, <2>2 DEF BeginReschedule
<1>2. CASE \E actor \in Actors, b \in Recordable : BeginCancel(r, actor, b)
  <2>1. PICK actor \in Actors, b \in Bookings : BeginCancel(r, actor, b)
    BY <1>2 DEF Recordable
  <2>2. Snapshot([op |-> "status", b |-> b, seen |-> status[b], next |-> "CANCELLED"])
    BY <2>1 DEF BeginCancel, requireAccessible, Snapshot, Request, TypeInv, TypeOK, BookingStatus
  <2> QED BY <2>1, <2>2 DEF BeginCancel
<1>3. CASE \E actor \in Actors, b \in Recordable, next \in BookingStatus :
             BeginChangeStatus(r, actor, b, next)
  <2>1. PICK actor \in Actors, b \in Bookings, next \in BookingStatus :
           BeginChangeStatus(r, actor, b, next)
    BY <1>3 DEF Recordable
  <2>2. Snapshot([op |-> "status", b |-> b, seen |-> status[b], next |-> next])
    BY <2>1 DEF BeginChangeStatus, requireAccessible, Snapshot, Request, TypeInv, TypeOK
  <2> QED BY <2>1, <2>2 DEF BeginChangeStatus
<1>4. CASE \E t \in Technicians, b \in Recordable, next \in {"ARRIVED", "COMPLETED"} :
             BeginGps(r, t, b, next)
  <2>1. PICK t \in Technicians, b \in Bookings, next \in {"ARRIVED", "COMPLETED"} :
           BeginGps(r, t, b, next)
    BY <1>4 DEF Recordable
  <2>2. Snapshot([op |-> "gps", b |-> b, seen |-> status[b], next |-> next])
    BY <2>1 DEF BeginGps, requireAccessible, Snapshot, Request, TypeInv, TypeOK, BookingStatus
  <2> QED BY <2>1, <2>2 DEF BeginGps
<1>5. CASE \E t \in Technicians, b \in Bookings : BeginAssign(r, b, t)
  <2>1. PICK t \in Technicians, b \in Bookings : BeginAssign(r, b, t)
    BY <1>5
  <2>2. Snapshot([op |-> "assign", b |-> b, tech |-> t])
    BY <2>1 DEF BeginAssign, Snapshot, Request
  <2> QED BY <2>1, <2>2 DEF BeginAssign
<1>6. CASE \E b \in Bookings : BeginBackfill(r, b)
  <2>1. PICK b \in Bookings : BeginBackfill(r, b)
    BY <1>6
  <2>2. Snapshot([op |-> "backfill", b |-> b])
    BY <2>1 DEF BeginBackfill, Snapshot, Request
  <2> QED BY <2>1, <2>2 DEF BeginBackfill
<1>7. CASE \E i \in DOMAIN assignments, t \in Technicians : BeginReassign(r, i, t)
  <2>1. PICK i \in DOMAIN assignments, t \in Technicians : BeginReassign(r, i, t)
    BY <1>7
  <2>2. i \in Nat \ {0}
    BY DEF TypeInv, TypeOK
  <2>3. Snapshot([op |-> "reassign", a |-> i, tech |-> t])
    BY <2>1, <2>2 DEF Snapshot, Request
  <2> QED BY <2>1, <2>3 DEF BeginReassign
<1>8. CASE \E i \in DOMAIN assignments : BeginAccept(r, i)
  <2>1. PICK i \in DOMAIN assignments : BeginAccept(r, i)
    BY <1>8
  <2>2. i \in Nat \ {0} /\ assignments[i].booking \in Bookings
    BY RowType DEF TypeInv
  <2>3. status[assignments[i].booking] \in BookingStatus
    BY <2>2 DEF TypeInv, TypeOK, Referenced
  <2>4. Snapshot([op |-> "accept", a |-> i, seen |-> status[assignments[i].booking]])
    BY <2>1, <2>2, <2>3 DEF Snapshot, Request
  <2> QED BY <2>1, <2>4 DEF BeginAccept
<1>9. CASE \E i \in DOMAIN assignments : \/ BeginRelease(r, i, "reject", "DECLINED")
                                        \/ BeginRelease(r, i, "unassign", "CANCELLED")
  <2>1. PICK i \in DOMAIN assignments, op \in {"reject", "unassign"} :
           Hold(r, [op |-> op, a |-> i])
    BY <1>9 DEF BeginRelease
  <2>2. i \in Nat \ {0}
    BY DEF TypeInv, TypeOK
  <2>3. Snapshot([op |-> op, a |-> i])
    BY <2>1, <2>2 DEF Snapshot, Request
  <2> QED BY <2>1, <2>3
<1> QED
  BY <1>1, <1>2, <1>3, <1>4, <1>5, <1>6, <1>7, <1>8, <1>9 DEF Begin

\* No handler writes while it reads.
LEMMA BeginReads ==
  ASSUME TypeInv, NEW r \in Requests, Begin(r)
  PROVE  UNCHANGED <<status, history, warranty, assignments>>
BY BeginHolds DEF Hold

\* Adding a history row keeps the table's type.
LEMMA RecordType ==
  ASSUME TypeOK, NEW b, NEW prev \in BookingStatus \cup {"NONE"}, NEW new \in BookingStatus,
         Record(b, prev, new)
  PROVE  history' \in [Bookings -> Seq(HistoryRow)]
<1>1. b \in Bookings
  BY DEF Record, Recordable
<1>2. [prev |-> prev, new |-> new] \in HistoryRow
  BY DEF HistoryRow
<1>3. Append(history[b], [prev |-> prev, new |-> new]) \in Seq(HistoryRow)
  BY <1>1, <1>2 DEF TypeOK
<1> QED BY <1>1, <1>3 DEF Record, TypeOK

\* transition keeps the types and never takes a booking row away.
LEMMA TransitionType ==
  ASSUME TypeOK, NEW b, NEW current \in BookingStatus, NEW next \in BookingStatus,
         transition(b, current, next)
  PROVE  /\ b \in Bookings
         /\ status' \in [Bookings -> BookingStatus \cup {"NONE"}]
         /\ history' \in [Bookings -> Seq(HistoryRow)]
         /\ \A c \in Bookings : status[c] # "NONE" => status'[c] # "NONE"
<1>1. b \in Bookings /\ Record(b, current, next)
  BY DEF transition, Record, Recordable
<1>2. history' \in [Bookings -> Seq(HistoryRow)]
  BY <1>1, RecordType
<1>3. status' = [status EXCEPT ![b] = next]
  BY DEF transition
<1>4. "NONE" \notin BookingStatus
  BY DEF BookingStatus
<1> QED BY <1>1, <1>2, <1>3, <1>4 DEF TypeOK

\* Setting the status of an assignment row keeps the table's shape.
LEMMA RowSetType ==
  ASSUME TypeOK, NEW i \in DOMAIN assignments, NEW s \in AssignmentStatus
  PROVE  /\ RowSetTo(i, s) \in Seq(AssignmentRow)
         /\ Len(RowSetTo(i, s)) = Len(assignments)
         /\ DOMAIN RowSetTo(i, s) = DOMAIN assignments
         /\ \A j \in DOMAIN assignments :
              /\ RowSetTo(i, s)[j].booking = assignments[j].booking
              /\ RowSetTo(i, s)[j].tech = assignments[j].tech
              /\ RowSetTo(i, s)[j].status = IF j = i THEN s ELSE assignments[j].status
<1>1. assignments \in Seq(AssignmentRow) /\ assignments[i] \in AssignmentRow
  BY DEF TypeOK
<1>2. [assignments[i] EXCEPT !.status = s] \in AssignmentRow
  BY <1>1 DEF AssignmentRow
<1>3. RowSetTo(i, s) = [assignments EXCEPT ![i] = [assignments[i] EXCEPT !.status = s]]
  BY DEF RowSetTo
<1>4. /\ RowSetTo(i, s) \in Seq(AssignmentRow)
      /\ Len(RowSetTo(i, s)) = Len(assignments)
      /\ DOMAIN RowSetTo(i, s) = DOMAIN assignments
  BY <1>1, <1>2, <1>3
<1>5. ASSUME NEW j \in DOMAIN assignments
      PROVE  /\ RowSetTo(i, s)[j].booking = assignments[j].booking
             /\ RowSetTo(i, s)[j].tech = assignments[j].tech
             /\ RowSetTo(i, s)[j].status = IF j = i THEN s ELSE assignments[j].status
  <2>1. CASE j = i
    BY <2>1, <1>1, <1>3 DEF AssignmentRow
  <2>2. CASE j # i
    BY <2>2, <1>1, <1>3
  <2> QED BY <2>1, <2>2
<1> QED BY <1>4, <1>5

\* Every step leaves the types right; no step removes a booking or an assignment,
\* or moves an assignment to another booking.
RowsStay ==
  /\ \A b \in Bookings : status[b] # "NONE" => status'[b] # "NONE"
  /\ Len(assignments) <= Len(assignments')
  /\ \A i \in DOMAIN assignments :
       /\ i \in DOMAIN assignments'
       /\ assignments'[i].booking = assignments[i].booking
  /\ \A i \in DOMAIN assignments' :
       i \in DOMAIN assignments \/ status[assignments'[i].booking] # "NONE"

LEMMA TypeStep ==
  ASSUME TypeInv, [Next]_vars
  PROVE  TypeInv' /\ RowsStay
<1>1. CASE UNCHANGED vars
  BY <1>1 DEF TypeInv, TypeOK, Referenced, RowsStay, vars
<1>2. ASSUME NEW b \in Bookings, Create(b)
      PROVE  TypeInv' /\ RowsStay
  <2>1. history' \in [Bookings -> Seq(HistoryRow)]
    BY <1>2, RecordType DEF Create, TypeInv, BookingStatus
  <2>2. /\ status' \in [Bookings -> BookingStatus \cup {"NONE"}]
        /\ \A c \in Bookings : status[c] # "NONE" => status'[c] # "NONE"
    BY <1>2 DEF Create, TypeInv, TypeOK, BookingStatus
  <2>3. UNCHANGED <<warranty, assignments, req, raced, contested>>
    BY <1>2 DEF Create
  <2>4. RowsStay
    BY <2>2, <2>3 DEF RowsStay, TypeInv, TypeOK, Referenced
  <2>5. TypeOK'
    BY <2>1, <2>2, <2>3 DEF TypeInv, TypeOK
  <2>6. \A i \in DOMAIN assignments' : status'[assignments'[i].booking] # "NONE"
    BY <2>2, <2>3, RowType DEF TypeInv, Referenced
  <2>7. \A r \in Requests : req[r] \in Request
    BY DEF TypeInv, TypeOK
  <2>8. Referenced'
    BY <2>2, <2>3, <2>6, <2>7, SnapshotType DEF TypeInv, Referenced
  <2> QED BY <2>4, <2>5, <2>8 DEF TypeInv
<1>3. ASSUME NEW r \in Requests, Begin(r)
      PROVE  TypeInv' /\ RowsStay
  <2>1. PICK s : Snapshot(s) /\ Hold(r, s)
    BY <1>3, BeginHolds
  <2>2. /\ UNCHANGED <<status, history, warranty, assignments>>
        /\ req' = [req EXCEPT ![r] = s]
        /\ req' \in [Requests -> Request]
        /\ raced' \subseteq Bookings /\ contested' \subseteq Bookings
    BY <2>1 DEF Hold, Snapshot, TypeInv, TypeOK
  <2>3. TypeOK'
    BY <2>1, <2>2 DEF Snapshot, TypeInv, TypeOK
  <2>4. Referenced'
    BY <2>1, <2>2 DEF Snapshot, TypeInv, TypeOK, Referenced
  <2> QED BY <2>2, <2>3, <2>4 DEF TypeInv, TypeOK, RowsStay
<1>4. ASSUME NEW r \in Requests, Commit(r) \/ Abandon(r)
      PROVE  TypeInv' /\ RowsStay
  <2>1. /\ Done(r)
        /\ status' \in [Bookings -> BookingStatus \cup {"NONE"}]
        /\ history' \in [Bookings -> Seq(HistoryRow)]
        /\ \A c \in Bookings : status[c] # "NONE" => status'[c] # "NONE"
        /\ warranty' \subseteq Warranted
        /\ assignments' \in Seq(AssignmentRow)
        /\ Len(assignments) <= Len(assignments')
        /\ \A i \in DOMAIN assignments : assignments'[i].booking = assignments[i].booking
        /\ \A i \in DOMAIN assignments' :
             i \in DOMAIN assignments \/ status[assignments'[i].booking] # "NONE"
    <3>0. /\ req[r] \in Request
          /\ status \in [Bookings -> BookingStatus \cup {"NONE"}]
          /\ history \in [Bookings -> Seq(HistoryRow)]
          /\ warranty \subseteq Warranted
          /\ assignments \in Seq(AssignmentRow)
      BY DEF TypeInv, TypeOK
    <3>1. CASE CommitReschedule(r)
      <4>1. req[r].seen \in BookingStatus
        BY <3>0, <3>1 DEF CommitReschedule, Request, Idle
      <4>2. history' \in [Bookings -> Seq(HistoryRow)]
        BY <4>1, <3>1, RecordType DEF CommitReschedule, TypeInv
      <4> QED BY <4>2, <3>0, <3>1 DEF CommitReschedule
    <3>2. CASE CommitStatus(r)
      <4>1. req[r].seen \in BookingStatus /\ req[r].next \in BookingStatus
        BY <3>0, <3>2 DEF CommitStatus, Request, Idle
      <4>2. /\ status' \in [Bookings -> BookingStatus \cup {"NONE"}]
            /\ history' \in [Bookings -> Seq(HistoryRow)]
            /\ \A c \in Bookings : status[c] # "NONE" => status'[c] # "NONE"
        BY <4>1, <3>2, TransitionType DEF CommitStatus, TypeInv
      <4>3. warranty' \subseteq Warranted
        BY <3>0, <3>2 DEF CommitStatus
      <4> QED BY <4>2, <4>3, <3>0, <3>2 DEF CommitStatus
    <3>3. CASE CommitGps(r)
      <4>1. req[r].seen \in BookingStatus /\ req[r].next \in BookingStatus
        BY <3>0, <3>3 DEF CommitGps, Request, Idle
      <4>2. /\ status' \in [Bookings -> BookingStatus \cup {"NONE"}]
            /\ history' \in [Bookings -> Seq(HistoryRow)]
            /\ \A c \in Bookings : status[c] # "NONE" => status'[c] # "NONE"
        BY <4>1, <3>3, TransitionType DEF CommitGps, TypeInv
      <4> QED BY <4>2, <3>0, <3>3 DEF CommitGps
    <3>5. CASE CommitAssign(r)
      <4>1. /\ req[r].b \in Bookings /\ req[r].tech \in Technicians
            /\ status[req[r].b] # "NONE"
        BY <3>0, <3>5 DEF CommitAssign, Request, Idle, TypeInv, Referenced
      <4>2. /\ RowFor(req[r].b, req[r].tech) \in AssignmentRow
            /\ RowFor(req[r].b, req[r].tech).booking = req[r].b
        BY <4>1 DEF RowFor, AssignmentRow, AssignmentStatus
      <4>3. assignments' = Append(assignments, RowFor(req[r].b, req[r].tech))
        BY <3>5 DEF CommitAssign
      <4> QED BY <4>1, <4>2, <4>3, <3>0, <3>5 DEF CommitAssign
    <3>6. CASE CommitReassign(r)
      <4> DEFINE i == req[r].a
                 rows == RowSetTo(i, "REASSIGNED")
                 new == RowFor(assignments[i].booking, req[r].tech)
      <4>1. i \in DOMAIN assignments /\ req[r].tech \in Technicians
        BY <3>0, <3>6 DEF CommitReassign, Request, Idle, TypeInv, TypeOK
      <4>2. assignments[i].booking \in Bookings /\ status[assignments[i].booking] # "NONE"
        BY <4>1, RowType DEF TypeInv, Referenced
      <4>3. new \in AssignmentRow /\ new.booking = assignments[i].booking
        BY <4>1, <4>2 DEF RowFor, AssignmentRow, AssignmentStatus
      <4>4. /\ rows \in Seq(AssignmentRow)
            /\ Len(rows) = Len(assignments)
            /\ \A j \in DOMAIN assignments : rows[j].booking = assignments[j].booking
        BY <4>1, RowSetType DEF TypeInv, AssignmentStatus
      <4>5. assignments' = Append(rows, new)
        BY <3>6 DEF CommitReassign
      <4> HIDE DEF rows, new
      <4>6. /\ assignments' \in Seq(AssignmentRow)
            /\ Len(assignments') = Len(assignments) + 1
            /\ \A j \in DOMAIN assignments : assignments'[j] = rows[j]
            /\ \A j \in DOMAIN assignments' : j \in DOMAIN assignments \/ assignments'[j] = new
        BY <4>3, <4>4, <4>5, <3>0
      <4>7. /\ \A j \in DOMAIN assignments : assignments'[j].booking = assignments[j].booking
            /\ Len(assignments) <= Len(assignments')
        <5>1. Len(assignments) \in Nat
          BY <3>0
        <5> QED BY <4>4, <4>6, <5>1
      <4>8. new.booking = assignments[i].booking /\ status[new.booking] # "NONE"
        BY <4>2, <4>3
      <4>9. \A j \in DOMAIN assignments' :
              j \in DOMAIN assignments \/ status[assignments'[j].booking] # "NONE"
        BY <4>6, <4>8
      <4>10. Done(r) /\ UNCHANGED <<status, history, warranty>>
        BY <3>6 DEF CommitReassign
      <4> QED BY <4>6, <4>7, <4>9, <4>10, <3>0
    <3>7. CASE CommitAccept(r)
      <4>1. req[r].a \in DOMAIN assignments
        BY <3>0, <3>7 DEF CommitAccept, TypeInv, TypeOK
      <4>2. /\ status' \in [Bookings -> BookingStatus \cup {"NONE"}]
            /\ history' \in [Bookings -> Seq(HistoryRow)]
            /\ \A c \in Bookings : status[c] # "NONE" => status'[c] # "NONE"
        BY <3>0, <3>7, TransitionType DEF CommitAccept, TypeInv, BookingStatus
      <4>3. /\ assignments' \in Seq(AssignmentRow)
            /\ Len(assignments') = Len(assignments)
            /\ DOMAIN assignments' = DOMAIN assignments
            /\ \A j \in DOMAIN assignments : assignments'[j].booking = assignments[j].booking
        BY <4>1, <3>7, RowSetType DEF CommitAccept, TypeInv, AssignmentStatus
      <4> QED BY <4>2, <4>3, <3>0, <3>7 DEF CommitAccept
    <3>8. CASE CommitRelease(r)
      <4>1. req[r].a \in DOMAIN assignments
        BY <3>0, <3>8 DEF CommitRelease, TypeInv, TypeOK
      <4>2. /\ assignments' \in Seq(AssignmentRow)
            /\ Len(assignments') = Len(assignments)
            /\ DOMAIN assignments' = DOMAIN assignments
            /\ \A j \in DOMAIN assignments : assignments'[j].booking = assignments[j].booking
        BY <4>1, <3>8, RowSetType DEF CommitRelease, TypeInv, AssignmentStatus
      <4> QED BY SMTT(40), <4>2, <3>0, <3>8 DEF CommitRelease
    <3>9. CASE CommitBackfill(r)
      BY <3>0, <3>9 DEF CommitBackfill, Request, Idle
    <3>10. CASE Abandon(r)
      BY <3>0, <3>10 DEF Abandon
    <3> QED
      BY <1>4, <3>1, <3>2, <3>3, <3>5, <3>6, <3>7, <3>8, <3>9, <3>10 DEF Commit
  <2>2. /\ req' = [req EXCEPT ![r] = Idle]
        /\ req' \in [Requests -> Request]
        /\ UNCHANGED <<raced, contested>>
    BY <2>1 DEF Done, TypeInv, TypeOK, Request
  <2>3. \A i \in DOMAIN assignments : i \in DOMAIN assignments'
    BY <2>1 DEF TypeInv, TypeOK
  <2>4. TypeOK'
    BY <2>1, <2>2, <2>3 DEF TypeInv, TypeOK, Idle
  <2>5. RowsStay
    BY <2>1, <2>3 DEF RowsStay
  <2>6. \A i \in DOMAIN assignments' : status'[assignments'[i].booking] # "NONE"
    <3> SUFFICES ASSUME NEW i \in DOMAIN assignments' PROVE status'[assignments'[i].booking] # "NONE"
      OBVIOUS
    <3>1. assignments'[i] \in AssignmentRow
      BY <2>1
    <3>2. assignments'[i].booking \in Bookings
      BY <3>1 DEF AssignmentRow
    <3>3. status[assignments'[i].booking] # "NONE"
      BY <2>1 DEF TypeInv, Referenced
    <3> QED BY <3>2, <3>3, <2>1
  <2>7. ASSUME NEW q \in Requests,
               req'[q].op \in {"status", "gps", "reschedule", "backfill", "assign"}
        PROVE  status'[req'[q].b] # "NONE"
    <3>1. req'[q] = req[q]
      BY <2>2, <2>7 DEF Idle, TypeInv, TypeOK
    <3>2. req[q].b \in Bookings /\ status[req[q].b] # "NONE"
      BY <3>1, <2>7, SnapshotType DEF TypeInv, TypeOK, Referenced
    <3> QED BY <3>1, <3>2, <2>1
  <2>8. Referenced'
    BY <2>6, <2>7 DEF Referenced
  <2> QED BY <2>4, <2>5, <2>8 DEF TypeInv
<1> QED
  BY <1>1, <1>2, <1>3, <1>4 DEF Next

\* The types are right in every reachable state.
THEOREM TypeCorrect == Spec => []TypeOK
<1>1. Init => TypeInv
  BY DEF Init, TypeInv, TypeOK, Referenced, Request, Idle
<1>2. TypeInv /\ [Next]_vars => TypeInv'
  BY TypeStep
<1>3. TypeInv => TypeOK
  BY DEF TypeInv
<1> QED BY <1>1, <1>2, <1>3, PTL DEF Spec

-----------------------------------------------------------------------------
(* The audit trail.                                                        *)

\* Request r has read status p of booking b and may still write it down.
Reading(r, b, p) ==
  /\ req[r].op \in {"status", "gps", "reschedule", "accept"}
  /\ b = IF req[r].op = "accept" THEN assignments[req[r].a].booking ELSE req[r].b
  /\ p = req[r].seen

Keeps(b) == status'[b] = status[b] /\ history'[b] = history[b]

Opens(b) ==
  /\ status[b] = "NONE"
  /\ status'[b] = "PENDING"
  /\ history'[b] = Append(history[b], [prev |-> "NONE", new |-> "PENDING"])

Moves(b, p, n) ==
  /\ p # n
  /\ isTransitionAllowed(p, n)
  /\ status'[b] = n
  /\ history'[b] = Append(history[b], [prev |-> p, new |-> n])

Notes(b, p) ==
  /\ status'[b] = status[b]
  /\ history'[b] = Append(history[b], [prev |-> p, new |-> p])

\* What a step can do to one booking and its history.
Event(b) ==
  \/ Keeps(b)
  \/ Opens(b)
  \/ \E r \in Requests, p, n \in BookingStatus :
       Reading(r, b, p) /\ req'[r] = Idle /\ Moves(b, p, n)
  \/ \E r \in Requests, p \in BookingStatus :
       Reading(r, b, p) /\ req'[r] = Idle /\ Notes(b, p)

LEMMA TransitionEvent ==
  ASSUME TypeOK, NEW r \in Requests, NEW b \in Bookings,
         NEW p \in BookingStatus, NEW n \in BookingStatus,
         Reading(r, b, p), req'[r] = Idle, transition(b, p, n)
  PROVE  \A c \in Bookings : Event(c)
<1>1. /\ p # n /\ isTransitionAllowed(p, n)
      /\ status' = [status EXCEPT ![b] = n]
      /\ history' = [history EXCEPT ![b] = Append(@, [prev |-> p, new |-> n])]
  BY DEF transition, Record
<1>2. Moves(b, p, n)
  BY <1>1 DEF Moves, TypeOK
<1>3. \A c \in Bookings : c # b => Keeps(c)
  BY <1>1 DEF Keeps, TypeOK
<1> QED BY <1>2, <1>3 DEF Event

LEMMA HistoryStep ==
  ASSUME TypeInv, [Next]_vars
  PROVE  \A c \in Bookings : Event(c)
<1>0. TypeOK
  BY DEF TypeInv
<1>1. CASE UNCHANGED <<status, history>>
  BY <1>1 DEF Event, Keeps
<1>2. ASSUME NEW b \in Bookings, Create(b)
      PROVE  \A c \in Bookings : Event(c)
  BY <1>0, <1>2 DEF Create, Record, Event, Opens, Keeps, TypeOK
<1>3. ASSUME NEW r \in Requests, CommitReschedule(r)
      PROVE  \A c \in Bookings : Event(c)
  <2>1. /\ req[r].op = "reschedule" /\ req[r].b \in Bookings /\ req[r].seen \in BookingStatus
        /\ req'[r] = Idle
    BY <1>0, <1>3, SnapshotType DEF CommitReschedule, TypeOK, Done
  <2>2. Reading(r, req[r].b, req[r].seen)
    BY <2>1 DEF Reading
  <2>3. Notes(req[r].b, req[r].seen)
    BY <1>0, <1>3, <2>1 DEF CommitReschedule, Record, Notes, TypeOK
  <2>4. \A c \in Bookings : c # req[r].b => Keeps(c)
    BY <1>0, <1>3, <2>1 DEF CommitReschedule, Record, Keeps, TypeOK
  <2> QED BY <2>1, <2>2, <2>3, <2>4 DEF Event
<1>4. ASSUME NEW r \in Requests, CommitStatus(r) \/ CommitGps(r)
      PROVE  \A c \in Bookings : Event(c)
  <2>1. /\ req[r].op \in {"status", "gps"} /\ transition(req[r].b, req[r].seen, req[r].next)
        /\ req'[r] = Idle
    BY <1>0, <1>4 DEF CommitStatus, CommitGps, Done, TypeOK
  <2>2. /\ req[r].b \in Bookings
        /\ req[r].seen \in BookingStatus
        /\ req[r].next \in BookingStatus
    BY <1>0, <2>1, SnapshotType DEF TypeOK
  <2>3. Reading(r, req[r].b, req[r].seen)
    BY <2>1 DEF Reading
  <2> QED BY <1>0, <2>1, <2>2, <2>3, TransitionEvent
<1>5. ASSUME NEW r \in Requests, CommitAccept(r), ~UNCHANGED <<status, history>>
      PROVE  \A c \in Bookings : Event(c)
  <2>1. /\ req[r].op = "accept" /\ req[r].seen = "PENDING"
        /\ transition(assignments[req[r].a].booking, "PENDING", "CONFIRMED")
        /\ req'[r] = Idle
    BY <1>0, <1>5 DEF CommitAccept, Done, TypeOK
  <2>2. assignments[req[r].a].booking \in Bookings
    BY <1>0, <2>1, RowType DEF TypeOK
  <2>3. Reading(r, assignments[req[r].a].booking, "PENDING")
    BY <2>1 DEF Reading
  <2> QED BY <1>0, <2>1, <2>2, <2>3, TransitionEvent DEF BookingStatus
<1> QED
  BY <1>1, <1>2, <1>3, <1>4, <1>5, BeginReads
  DEF Next, vars, Commit, CommitBackfill, CommitAssign, CommitReassign, CommitRelease, Abandon

\* The same notions for one history h on its own.
NewIn(h) == {h[i].new : i \in DOMAIN h}

Grounded(h) ==
  \A i \in DOMAIN h :
    IF i = 1 THEN h[1].prev = "NONE" ELSE \E j \in 1..(i - 1) : h[j].new = h[i].prev

EndsIn(h, s) ==
  LET M == {i \in DOMAIN h : h[i].prev # h[i].new}
  IN  IF M = {} THEN s = "NONE"
      ELSE \E i \in M : (\A j \in M : j <= i) /\ s = h[i].new

\* Every status in the history was entered along an edge from another one.
Reached(h) ==
  \A s \in NewIn(h) : s = "PENDING" \/ \E q \in NewIn(h) : isTransitionAllowed(q, s)

\* What appending a row does to each of them.
LEMMA AppendRow ==
  ASSUME NEW h \in Seq(HistoryRow), NEW row \in HistoryRow
  PROVE  /\ NewIn(Append(h, row)) = NewIn(h) \cup {row.new}
         /\ Grounded(h) /\ row.prev \in NewIn(h) => Grounded(Append(h, row))
         /\ h = <<>> /\ row.prev = "NONE" => Grounded(Append(h, row))
         /\ row.prev # row.new => EndsIn(Append(h, row), row.new)
         /\ \A s : EndsIn(h, s) /\ row.prev = row.new => EndsIn(Append(h, row), s)
<1> DEFINE g == Append(h, row)
<1>1. /\ DOMAIN h = 1..Len(h)
      /\ DOMAIN g = 1..(Len(h) + 1)
      /\ g[Len(h) + 1] = row
      /\ \A i \in DOMAIN h : g[i] = h[i] /\ i \in DOMAIN g
      /\ Len(h) \in Nat
  OBVIOUS
<1> HIDE DEF g
<1>2. NewIn(g) = NewIn(h) \cup {row.new}
  BY <1>1 DEF NewIn
<1>3. ASSUME Grounded(h), row.prev \in NewIn(h)
      PROVE  Grounded(g)
  <2>1. PICK k \in DOMAIN h : h[k].new = row.prev
    BY <1>3 DEF NewIn
  <2>2. ASSUME NEW i \in DOMAIN h
        PROVE  IF i = 1 THEN g[1].prev = "NONE" ELSE \E j \in 1..(i - 1) : g[j].new = g[i].prev
    <3>1. IF i = 1 THEN h[1].prev = "NONE" ELSE \E j \in 1..(i - 1) : h[j].new = h[i].prev
      BY <1>3 DEF Grounded
    <3>2. \A j \in 1..(i - 1) : j \in DOMAIN h
      BY <1>1
    <3> QED BY <3>1, <3>2, <1>1
  <2>3. \E j \in 1..Len(h) : g[j].new = g[Len(h) + 1].prev
    BY <2>1, <1>1
  <2>4. Len(h) + 1 # 1 /\ (Len(h) + 1) - 1 = Len(h)
    BY <2>1, <1>1
  <2> SUFFICES ASSUME NEW i \in DOMAIN g
               PROVE  IF i = 1 THEN g[1].prev = "NONE"
                      ELSE \E j \in 1..(i - 1) : g[j].new = g[i].prev
    BY DEF Grounded
  <2>5. CASE i \in DOMAIN h
    BY <2>5, <2>2
  <2>6. CASE i = Len(h) + 1
    BY <2>6, <2>3, <2>4
  <2> QED BY <2>5, <2>6, <1>1
<1>4. ASSUME h = <<>>, row.prev = "NONE"
      PROVE  Grounded(g)
  <2>1. DOMAIN g = {1} /\ g[1] = row
    BY <1>4, <1>1
  <2> QED BY <2>1, <1>4 DEF Grounded
<1>5. ASSUME row.prev # row.new
      PROVE  EndsIn(g, row.new)
  BY <1>1, <1>5 DEF EndsIn
<1>6. ASSUME NEW s, EndsIn(h, s), row.prev = row.new
      PROVE  EndsIn(g, s)
  <2>1. {i \in DOMAIN g : g[i].prev # g[i].new} = {i \in DOMAIN h : h[i].prev # h[i].new}
    BY <1>1, <1>6
  <2>2. \A i \in {i \in DOMAIN h : h[i].prev # h[i].new} : g[i] = h[i]
    BY <1>1
  <2> QED BY <2>1, <2>2, <1>6 DEF EndsIn
<1> QED BY <1>2, <1>3, <1>4, <1>5, <1>6 DEF g

\* The inductive invariant of the audit trail: a status that may still be written
\* down, and the current one, are in the history.
ReadIsVisited ==
  \A r \in Requests, b \in Bookings, p \in BookingStatus : Reading(r, b, p) => p \in NewIn(history[b])

AuditInv ==
  /\ TypeInv
  /\ ReadIsVisited
  /\ \A b \in Bookings :
       /\ IF status[b] = "NONE" THEN history[b] = <<>> ELSE status[b] \in NewIn(history[b])
       /\ Grounded(history[b])
       /\ EndsIn(history[b], status[b])
       /\ Reached(history[b])

\* A step replaces the snapshot of a request only by a fresh one.
LEMMA RequestStep ==
  ASSUME TypeInv, [Next]_vars, NEW r \in Requests
  PROVE  \/ req'[r] = req[r]
         \/ req'[r] = Idle
         \/ /\ Begin(r)
            /\ Snapshot(req'[r])
            /\ UNCHANGED <<status, history, warranty, assignments>>
<1>1. CASE UNCHANGED req
  BY <1>1
<1>2. ASSUME NEW q \in Requests, Begin(q)
      PROVE  \/ req'[r] = req[r]
             \/ /\ Begin(r)
                /\ Snapshot(req'[r])
                /\ UNCHANGED <<status, history, warranty, assignments>>
  <2>1. PICK s : Snapshot(s) /\ Hold(q, s)
    BY <1>2, BeginHolds
  <2> QED BY <1>2, <2>1 DEF Hold, TypeInv, TypeOK
<1>3. ASSUME NEW q \in Requests, Done(q)
      PROVE  req'[r] = req[r] \/ req'[r] = Idle
  BY <1>3 DEF Done, TypeInv, TypeOK
<1> QED
  BY <1>1, <1>2, <1>3
  DEF Next, vars, Create, Commit, CommitReschedule, CommitStatus, CommitGps, CommitBackfill,
      CommitAssign, CommitReassign, CommitAccept, CommitRelease, Abandon

LEMMA AuditStep ==
  ASSUME AuditInv, [Next]_vars
  PROVE  /\ AuditInv'
         /\ \A b \in Bookings : NewIn(history[b]) \subseteq NewIn(history'[b])
<1>1. TypeInv /\ TypeInv' /\ RowsStay
  BY TypeStep DEF AuditInv
<1>2. ASSUME NEW b \in Bookings
      PROVE  /\ NewIn(history[b]) \subseteq NewIn(history'[b])
             /\ IF status'[b] = "NONE" THEN history'[b] = <<>> ELSE status'[b] \in NewIn(history'[b])
             /\ Grounded(history'[b])
             /\ EndsIn(history'[b], status'[b])
             /\ Reached(history'[b])
  <2>0. /\ history[b] \in Seq(HistoryRow)
        /\ status[b] \in BookingStatus \cup {"NONE"}
        /\ IF status[b] = "NONE" THEN history[b] = <<>> ELSE status[b] \in NewIn(history[b])
        /\ Grounded(history[b])
        /\ EndsIn(history[b], status[b])
        /\ Reached(history[b])
        /\ NewIn(<<>>) = {}
    BY <1>1 DEF AuditInv, TypeInv, TypeOK, NewIn
  <2>1. CASE Keeps(b)
    BY <2>0, <2>1 DEF Keeps
  <2>2. CASE Opens(b)
    <3> DEFINE row == [prev |-> "NONE", new |-> "PENDING"]
    <3>1. row \in HistoryRow /\ row.prev = "NONE" /\ row.new = "PENDING"
      BY DEF HistoryRow, BookingStatus
    <3>2. /\ history[b] = <<>> /\ NewIn(history[b]) = {}
          /\ history'[b] = Append(history[b], row)
          /\ status'[b] = "PENDING"
      BY <2>0, <2>2 DEF Opens
    <3> HIDE DEF row
    <3>3. /\ NewIn(history'[b]) = {"PENDING"}
          /\ Grounded(history'[b])
          /\ EndsIn(history'[b], "PENDING")
      <4>1. /\ NewIn(Append(history[b], row)) = NewIn(history[b]) \cup {row.new}
            /\ Grounded(Append(history[b], row))
            /\ EndsIn(Append(history[b], row), row.new)
        <5>1. row.prev # row.new
          BY <3>1
        <5> QED BY <2>0, <3>1, <3>2, <5>1, AppendRow
      <4> QED BY <3>1, <3>2, <4>1
    <3>4. Reached(history'[b])
      BY <3>3 DEF Reached
    <3> QED BY <3>2, <3>3, <3>4
  <2>3. ASSUME NEW r \in Requests, NEW q \in BookingStatus, NEW n \in BookingStatus,
               Reading(r, b, q), Moves(b, q, n)
        PROVE  /\ NewIn(history[b]) \subseteq NewIn(history'[b])
               /\ status'[b] \in NewIn(history'[b]) /\ status'[b] # "NONE"
               /\ Grounded(history'[b])
               /\ EndsIn(history'[b], status'[b])
               /\ Reached(history'[b])
    <3> DEFINE row == [prev |-> q, new |-> n]
    <3>1. row \in HistoryRow /\ row.prev = q /\ row.new = n /\ n # "NONE"
      BY DEF HistoryRow, BookingStatus
    <3>2. /\ q \in NewIn(history[b])
          /\ history'[b] = Append(history[b], row)
          /\ status'[b] = n /\ q # n /\ isTransitionAllowed(q, n)
      BY <2>3 DEF Moves, AuditInv, ReadIsVisited
    <3> HIDE DEF row
    <3>3. /\ NewIn(history'[b]) = NewIn(history[b]) \cup {n}
          /\ Grounded(history'[b])
          /\ EndsIn(history'[b], n)
      BY <2>0, <3>1, <3>2, AppendRow
    <3>4. Reached(history'[b])
      BY <2>0, <3>2, <3>3 DEF Reached
    <3> QED BY <3>1, <3>2, <3>3, <3>4
  <2>4. ASSUME NEW r \in Requests, NEW q \in BookingStatus,
               Reading(r, b, q), Notes(b, q)
        PROVE  /\ NewIn(history[b]) \subseteq NewIn(history'[b])
               /\ status'[b] \in NewIn(history'[b]) /\ status'[b] # "NONE"
               /\ Grounded(history'[b])
               /\ EndsIn(history'[b], status'[b])
               /\ Reached(history'[b])
    <3> DEFINE row == [prev |-> q, new |-> q]
    <3>1. row \in HistoryRow /\ row.prev = q /\ row.new = q
      BY DEF HistoryRow
    <3>2. /\ q \in NewIn(history[b])
          /\ history'[b] = Append(history[b], row)
          /\ status'[b] = status[b]
      BY <2>4 DEF Notes, AuditInv, ReadIsVisited
    <3> HIDE DEF row
    <3>3. NewIn(history'[b]) = NewIn(history[b]) /\ Grounded(history'[b])
      <4>1. /\ NewIn(history'[b]) = NewIn(history[b]) \cup {row.new}
            /\ Grounded(history'[b])
        BY <2>0, <3>1, <3>2, AppendRow
      <4>2. NewIn(history[b]) \cup {row.new} = NewIn(history[b])
        BY <3>1, <3>2
      <4> QED BY <4>1, <4>2
    <3>4. EndsIn(history'[b], status[b])
      <4>1. \A s : EndsIn(history[b], s) /\ row.prev = row.new => EndsIn(Append(history[b], row), s)
        BY <2>0, <3>1, AppendRow
      <4> QED BY <4>1, <2>0, <3>1, <3>2
    <3>5. Reached(history'[b])
      BY <2>0, <3>3 DEF Reached
    <3> QED BY <2>0, <3>2, <3>3, <3>4, <3>5
  <2> QED BY <1>1, <2>1, <2>2, <2>3, <2>4, HistoryStep DEF Event
<1>3. ASSUME NEW r \in Requests, NEW b \in Bookings, NEW p \in BookingStatus, Reading(r, b, p)'
      PROVE  p \in NewIn(history'[b])
  <2>1. CASE req'[r] = req[r]
    <3>1. Reading(r, b, p)
      BY <1>1, <1>3, <2>1 DEF Reading, RowsStay, TypeInv, TypeOK
    <3> QED BY <3>1, <1>2 DEF AuditInv, ReadIsVisited
  <2>2. CASE req'[r] = Idle
    BY <1>3, <2>2 DEF Reading, Idle
  <2>3. CASE Snapshot(req'[r]) /\ UNCHANGED <<status, history, warranty, assignments>>
    <3>1. p = status[b]
      BY <1>3, <2>3 DEF Reading, Snapshot
    <3>2. p # "NONE"
      BY DEF BookingStatus
    <3> QED BY <3>1, <3>2, <2>3 DEF AuditInv
  <2> QED BY <1>1, <2>1, <2>2, <2>3, RequestStep
<1> QED BY <1>1, <1>2, <1>3 DEF AuditInv, ReadIsVisited

LEMMA AuditInit ==
  ASSUME Init
  PROVE  AuditInv
<1>1. TypeInv
  BY DEF Init, TypeInv, TypeOK, Referenced, Request, Idle
<1>2. ReadIsVisited
  BY DEF Init, ReadIsVisited, Reading, Idle
<1>3. Grounded(<<>>) /\ EndsIn(<<>>, "NONE") /\ Reached(<<>>)
  BY DEF Grounded, EndsIn, Reached, NewIn
<1> QED BY <1>1, <1>2, <1>3 DEF Init, AuditInv

LEMMA AuditHolds == Spec => []AuditInv
<1>1. Init => AuditInv
  BY AuditInit
<1>2. AuditInv /\ [Next]_vars => AuditInv'
  BY AuditStep
<1> QED BY <1>1, <1>2, PTL DEF Spec

\* Every row of the audit trail starts from a status an earlier row brought about.
THEOREM HistoryGrounded == Spec => []HistoryIsGrounded
<1>1. AuditInv => HistoryIsGrounded
  BY DEF AuditInv, Grounded, HistoryIsGrounded
<1> QED BY <1>1, AuditHolds, PTL

\* The status column is what the last moving row of the audit trail says.
THEOREM StatusIsLastMove == Spec => []StatusMatchesHistory
<1>1. AuditInv => StatusMatchesHistory
  BY DEF AuditInv, EndsIn, StatusMatchesHistory
<1> QED BY <1>1, AuditHolds, PTL

\* Each stage of the work has a single predecessor in the graph.
LEMMA StagePredecessors ==
  /\ \A q : isTransitionAllowed(q, "COMPLETED") => q = "IN_PROGRESS"
  /\ \A q : isTransitionAllowed(q, "IN_PROGRESS") => q = "ARRIVED"
  /\ \A q : isTransitionAllowed(q, "ARRIVED") => q = "EN_ROUTE"
  /\ \A q : isTransitionAllowed(q, "EN_ROUTE") => q = "CONFIRMED"
  /\ \A q : isTransitionAllowed(q, "CONFIRMED") => q = "PENDING"
  /\ \A q : ~isTransitionAllowed(q, "PENDING")
BY DEF isTransitionAllowed, BOOKING_TRANSITIONS

\* A completed booking went through every stage, stale reads notwithstanding.
THEOREM StagesPassed == Spec => []CompletionPassedEveryStage
<1>1. ASSUME AuditInv, NEW b \in Bookings, "COMPLETED" \in Visited(b)
      PROVE  {"PENDING", "CONFIRMED", "EN_ROUTE", "ARRIVED", "IN_PROGRESS"} \subseteq Visited(b)
  <2>1. \A s \in Visited(b) :
          s = "PENDING" \/ \E q \in Visited(b) : isTransitionAllowed(q, s)
    BY <1>1 DEF AuditInv, Reached, NewIn, Visited
  <2>2. "IN_PROGRESS" \in Visited(b)
    BY <1>1, <2>1, StagePredecessors
  <2>3. "ARRIVED" \in Visited(b)
    BY <2>1, <2>2, StagePredecessors
  <2>4. "EN_ROUTE" \in Visited(b)
    BY <2>1, <2>3, StagePredecessors
  <2>5. "CONFIRMED" \in Visited(b)
    BY <2>1, <2>4, StagePredecessors
  <2>6. "PENDING" \in Visited(b)
    BY <2>1, <2>5, StagePredecessors
  <2> QED BY <1>1, <2>2, <2>3, <2>4, <2>5, <2>6
<1>2. AuditInv => CompletionPassedEveryStage
  BY <1>1 DEF CompletionPassedEveryStage
<1> QED BY <1>2, AuditHolds, PTL

\* The warranty a backfill is about to write is that of a completed booking.
WarrantyInv ==
  /\ AuditInv
  /\ \A b \in warranty : "COMPLETED" \in NewIn(history[b])
  /\ \A r \in Requests : req[r].op = "backfill" => "COMPLETED" \in NewIn(history[req[r].b])

\* A warranty implies that the visit took place, in whatever order the backfill
\* and the changes of status ran.
THEOREM WarrantyCorrect == Spec => []WarrantyFollowsCompletion
<1>1. Init => WarrantyInv
  BY AuditInit DEF Init, WarrantyInv, Idle
<1>2. WarrantyInv /\ [Next]_vars => WarrantyInv'
  <2> SUFFICES ASSUME WarrantyInv, [Next]_vars
               PROVE  WarrantyInv'
    OBVIOUS
  <2>1. /\ TypeInv /\ TypeInv' /\ AuditInv'
        /\ \A b \in Bookings : NewIn(history[b]) \subseteq NewIn(history'[b])
        /\ warranty \subseteq Bookings
    BY AuditStep, BookingsAssumption DEF WarrantyInv, AuditInv, TypeInv, TypeOK
  <2>2. ASSUME NEW r \in Requests, CommitStatus(r), NEW b \in warranty' \ warranty
        PROVE  "COMPLETED" \in NewIn(history'[b])
    <3>1. b \in Bookings /\ b = req[r].b /\ req[r].next = "COMPLETED"
      BY <2>2, BookingsAssumption DEF CommitStatus
    <3>2. status'[b] = "COMPLETED"
      BY <2>1, <2>2, <3>1 DEF CommitStatus, transition, TypeInv, TypeOK
    <3> QED BY <2>1, <3>1, <3>2 DEF AuditInv
  <2>3. ASSUME NEW r \in Requests, CommitBackfill(r), NEW b \in warranty' \ warranty
        PROVE  "COMPLETED" \in NewIn(history'[b])
    BY <2>3 DEF CommitBackfill, WarrantyInv
  <2>4. \/ warranty' = warranty
        \/ \E r \in Requests : CommitStatus(r) \/ CommitBackfill(r)
    BY <2>1, BeginReads
       DEF Next, vars, Create, Commit, CommitReschedule, CommitGps, CommitAssign, CommitReassign,
           CommitAccept, CommitRelease, Abandon
  <2>5. \A b \in warranty' : "COMPLETED" \in NewIn(history'[b])
    BY <2>1, <2>2, <2>3, <2>4 DEF WarrantyInv
  <2>6. ASSUME NEW r \in Requests, req'[r].op = "backfill"
        PROVE  "COMPLETED" \in NewIn(history'[req'[r].b])
    <3>0. req'[r].b \in Bookings
      BY <2>1, <2>6, SnapshotType DEF TypeInv, TypeOK
    <3>1. CASE req'[r] = req[r]
      BY <2>1, <2>6, <3>0, <3>1 DEF WarrantyInv
    <3>2. CASE req'[r] = Idle
      BY <2>6, <3>2 DEF Idle
    <3>3. CASE Snapshot(req'[r]) /\ UNCHANGED <<status, history, warranty, assignments>>
      <4>1. status'[req'[r].b] = "COMPLETED"
        BY <2>6, <3>3 DEF Snapshot
      <4> QED BY <2>1, <3>0, <4>1 DEF AuditInv
    <3> QED BY <2>1, <3>1, <3>2, <3>3, RequestStep
  <2> QED BY <2>1, <2>5, <2>6 DEF WarrantyInv
<1>3. WarrantyInv => WarrantyFollowsCompletion
  BY DEF WarrantyInv, WarrantyFollowsCompletion, NewIn, Visited
<1> QED BY <1>1, <1>2, <1>3, PTL DEF Spec

-----------------------------------------------------------------------------
(* Assignments.                                                            *)

\* What a step can do to row i of the table.
RowEvent(i) ==
  \/ i \in DOMAIN assignments /\ assignments'[i] = assignments[i]
  \/ assignments'[i].status \in {"ASSIGNED", "DECLINED", "CANCELLED"}
  \/ \E r \in Requests :
       i \in DOMAIN assignments /\ CommitAccept(r) /\ req[r].a = i /\ assignments'[i].status = "ACCEPTED"
  \/ /\ assignments'[i].status = "REASSIGNED"
     /\ \E j \in DOMAIN assignments' :
          j > i /\ assignments'[j].booking = assignments'[i].booking

LEMMA RowStep ==
  ASSUME TypeInv, [Next]_vars
  PROVE  \A i \in DOMAIN assignments' : RowEvent(i)
<1>0. TypeOK /\ assignments \in Seq(AssignmentRow)
  BY DEF TypeInv, TypeOK
<1>1. CASE UNCHANGED assignments
  BY <1>1 DEF RowEvent
<1>2. ASSUME NEW r \in Requests, CommitAssign(r)
      PROVE  \A i \in DOMAIN assignments' : RowEvent(i)
  <2>1. assignments' = Append(assignments, RowFor(req[r].b, req[r].tech))
    BY <1>2 DEF CommitAssign
  <2>2. RowFor(req[r].b, req[r].tech).status = "ASSIGNED"
    BY DEF RowFor
  <2> HIDE DEF RowFor
  <2>3. \A i \in DOMAIN assignments' :
          \/ i \in DOMAIN assignments /\ assignments'[i] = assignments[i]
          \/ assignments'[i] = RowFor(req[r].b, req[r].tech)
    BY <1>0, <2>1
  <2> QED BY <2>2, <2>3 DEF RowEvent
<1>3. ASSUME NEW r \in Requests, CommitReassign(r)
      PROVE  \A i \in DOMAIN assignments' : RowEvent(i)
  <2> DEFINE k == req[r].a
             rows == RowSetTo(k, "REASSIGNED")
             new == RowFor(assignments[k].booking, req[r].tech)
  <2>1. k \in DOMAIN assignments
    BY <1>3 DEF CommitReassign, TypeInv, TypeOK
  <2>2. /\ Len(rows) = Len(assignments)
        /\ DOMAIN rows = DOMAIN assignments
        /\ rows \in Seq(AssignmentRow)
        /\ \A j \in DOMAIN assignments : rows[j].booking = assignments[j].booking
        /\ rows[k].status = "REASSIGNED"
    BY <1>0, <2>1, RowSetType DEF AssignmentStatus
  <2>3. \A j \in DOMAIN assignments : j # k => rows[j] = assignments[j]
    BY <1>0 DEF RowSetTo
  <2>4. assignments' = Append(rows, new)
    BY <1>3 DEF CommitReassign
  <2>5. new.status = "ASSIGNED" /\ new.booking = assignments[k].booking
    BY DEF RowFor
  <2> HIDE DEF rows, new
  <2>6. /\ Len(assignments) + 1 \in DOMAIN assignments'
        /\ assignments'[Len(assignments) + 1] = new
        /\ \A i \in DOMAIN assignments : assignments'[i] = rows[i]
        /\ \A i \in DOMAIN assignments' : i \in DOMAIN assignments \/ assignments'[i] = new
        /\ Len(assignments) + 1 > k
    BY <1>0, <2>1, <2>2, <2>4
  <2>7. RowEvent(k)
    BY <2>1, <2>2, <2>5, <2>6 DEF RowEvent
  <2>8. \A i \in DOMAIN assignments : i # k => RowEvent(i)
    BY <2>3, <2>6 DEF RowEvent
  <2>9. \A i \in DOMAIN assignments' : assignments'[i] = new => RowEvent(i)
    BY <2>5 DEF RowEvent
  <2> QED BY <2>6, <2>7, <2>8, <2>9
<1>4. ASSUME NEW r \in Requests, CommitAccept(r)
      PROVE  \A i \in DOMAIN assignments' : RowEvent(i)
  <2>1. req[r].a \in DOMAIN assignments /\ assignments' = RowSetTo(req[r].a, "ACCEPTED")
    BY <1>4 DEF CommitAccept, TypeInv, TypeOK
  <2>2. /\ DOMAIN assignments' = DOMAIN assignments
        /\ assignments'[req[r].a].status = "ACCEPTED"
    BY <1>0, <2>1, RowSetType DEF AssignmentStatus
  <2>3. \A j \in DOMAIN assignments : j # req[r].a => assignments'[j] = assignments[j]
    BY <1>0, <2>1 DEF RowSetTo
  <2> QED BY <1>4, <2>1, <2>2, <2>3 DEF RowEvent
<1>5. ASSUME NEW r \in Requests, CommitRelease(r)
      PROVE  \A i \in DOMAIN assignments' : RowEvent(i)
  <2>1. PICK s \in {"DECLINED", "CANCELLED"} : assignments' = RowSetTo(req[r].a, s)
    BY <1>5 DEF CommitRelease
  <2>2. req[r].a \in DOMAIN assignments
    BY <1>5 DEF CommitRelease, TypeInv, TypeOK
  <2>3. /\ DOMAIN assignments' = DOMAIN assignments
        /\ assignments'[req[r].a].status = s
    BY <1>0, <2>1, <2>2, RowSetType DEF AssignmentStatus
  <2>4. \A j \in DOMAIN assignments : j # req[r].a => assignments'[j] = assignments[j]
    BY <1>0, <2>1 DEF RowSetTo
  <2> QED BY <2>3, <2>4 DEF RowEvent
<1> QED
  BY <1>1, <1>2, <1>3, <1>4, <1>5, BeginReads
  DEF Next, vars, Create, Commit, CommitReschedule, CommitStatus, CommitGps, CommitBackfill, Abandon

\* No handover loses its booking, whatever stale handler overwrites the rows.
THEOREM HandoverCorrect == Spec => []HandoverHasSuccessor
<1>1. Init => TypeInv /\ HandoverHasSuccessor
  BY AuditInit DEF AuditInv, Init, HandoverHasSuccessor
<1>2. TypeInv /\ HandoverHasSuccessor /\ [Next]_vars => (TypeInv /\ HandoverHasSuccessor)'
  <2> SUFFICES ASSUME TypeInv, HandoverHasSuccessor, [Next]_vars
               PROVE  TypeInv' /\ HandoverHasSuccessor'
    OBVIOUS
  <2>1. TypeInv' /\ RowsStay /\ \A i \in DOMAIN assignments' : RowEvent(i)
    BY TypeStep, RowStep
  <2>2. ASSUME NEW i \in DOMAIN assignments', assignments'[i].status = "REASSIGNED"
        PROVE  \E j \in DOMAIN assignments' :
                 j > i /\ assignments'[j].booking = assignments'[i].booking
    <3>1. CASE i \in DOMAIN assignments /\ assignments'[i] = assignments[i]
      <4>1. PICK j \in DOMAIN assignments : j > i /\ assignments[j].booking = assignments[i].booking
        BY <2>2, <3>1 DEF HandoverHasSuccessor
      <4> QED BY <2>1, <3>1, <4>1 DEF RowsStay
    <3> QED BY <2>1, <2>2, <3>1 DEF RowEvent
  <2> QED BY <2>1, <2>2 DEF HandoverHasSuccessor
<1> QED BY <1>1, <1>2, PTL DEF Spec

\* An accept in flight that will not confirm has seen the booking leave PENDING.
AcceptInv ==
  /\ AuditInv
  /\ AcceptedIsNotPending
  /\ \A r \in Requests :
       req[r].op = "accept" /\ req[r].seen # "PENDING" =>
         status[assignments[req[r].a].booking] # "PENDING"

\* PENDING is never entered again.
LEMMA PendingIsLeft ==
  ASSUME TypeInv, [Next]_vars, NEW b \in Bookings, status[b] \notin {"NONE", "PENDING"}
  PROVE  status'[b] # "PENDING"
BY HistoryStep, StagePredecessors DEF Event, Keeps, Opens, Moves, Notes

\* A technician who holds an accepted assignment never finds its booking pending.
THEOREM AcceptCorrect == Spec => []AcceptedIsNotPending
<1>1. Init => AcceptInv
  BY AuditInit DEF Init, AcceptInv, AcceptedIsNotPending, Idle
<1>2. AcceptInv /\ [Next]_vars => AcceptInv'
  <2> SUFFICES ASSUME AcceptInv, [Next]_vars
               PROVE  AcceptInv'
    OBVIOUS
  <2>1. /\ TypeInv /\ TypeInv' /\ AuditInv' /\ RowsStay
        /\ \A i \in DOMAIN assignments' : RowEvent(i)
    BY AuditStep, TypeStep, RowStep DEF AcceptInv, AuditInv
  <2>2. ASSUME NEW i \in DOMAIN assignments, status[assignments[i].booking] # "PENDING"
        PROVE  status'[assignments'[i].booking] # "PENDING"
    <3>1. assignments[i].booking \in Bookings /\ status[assignments[i].booking] # "NONE"
      BY <2>1, RowType DEF TypeInv, Referenced
    <3> QED BY <2>1, <2>2, <3>1, PendingIsLeft DEF RowsStay
  <2>3. ASSUME NEW i \in DOMAIN assignments', assignments'[i].status = "ACCEPTED"
        PROVE  status'[assignments'[i].booking] # "PENDING"
    <3>1. CASE i \in DOMAIN assignments /\ assignments'[i] = assignments[i]
      BY <2>2, <2>3, <3>1 DEF AcceptInv, AcceptedIsNotPending
    <3>2. ASSUME NEW r \in Requests, i \in DOMAIN assignments, CommitAccept(r), req[r].a = i
          PROVE  status'[assignments'[i].booking] # "PENDING"
      <4>1. CASE req[r].seen = "PENDING"
        <5>1. assignments[i].booking \in Bookings
          BY <2>1, <3>2, RowType DEF TypeInv
        <5>2. status' = [status EXCEPT ![assignments[i].booking] = "CONFIRMED"]
          BY <3>2, <4>1 DEF CommitAccept, transition
        <5> QED BY <2>1, <3>2, <5>1, <5>2 DEF RowsStay, TypeInv, TypeOK
      <4>2. CASE req[r].seen # "PENDING"
        BY <2>2, <3>2, <4>2 DEF CommitAccept, AcceptInv
      <4> QED BY <4>1, <4>2
    <3> QED BY <2>1, <2>3, <3>1, <3>2 DEF RowEvent
  <2>4. ASSUME NEW r \in Requests, req'[r].op = "accept", req'[r].seen # "PENDING"
        PROVE  status'[assignments'[req'[r].a].booking] # "PENDING"
    <3>1. CASE req'[r] = req[r]
      BY <2>1, <2>2, <2>4, <3>1 DEF AcceptInv, TypeInv, TypeOK
    <3>2. CASE req'[r] = Idle
      BY <2>4, <3>2 DEF Idle
    <3>3. CASE Snapshot(req'[r]) /\ UNCHANGED <<status, history, warranty, assignments>>
      BY <2>4, <3>3 DEF Snapshot
    <3> QED BY <2>1, <3>1, <3>2, <3>3, RequestStep
  <2> QED BY <2>1, <2>3, <2>4 DEF AcceptInv, AcceptedIsNotPending
<1>3. AcceptInv => AcceptedIsNotPending
  BY DEF AcceptInv
<1> QED BY <1>1, <1>2, <1>3, PTL DEF Spec

-----------------------------------------------------------------------------
(* What an overlap costs.                                                  *)

\* What a request that may move booking b has read of it is still so.
Timely(s, b) ==
  /\ s.op # "backfill" => s.seen = status[b]
  /\ s.op = "backfill" => status[b] = "COMPLETED"

\* What a request that may assign booking b has read of its rows is still so.
Free(s, b) ==
  /\ s.op = "assign" => ActiveRows(b) = {}
  /\ s.op # "assign" => s.a \in ActiveRows(b)

\* A history that is connected and ends in s.
Trail(h, s) ==
  /\ \A i \in DOMAIN h : i > 1 => h[i].prev = h[i - 1].new
  /\ s = IF h = <<>> THEN "NONE" ELSE h[Len(h)].new

\* No two requests in flight share a booking that is not marked.
NoneShared ==
  \A q, r \in Requests, b \in Bookings :
    q # r =>
      /\ MovesBooking(req[q], b) /\ MovesBooking(req[r], b) => b \in raced
      /\ AssignsBooking(req[q], b) /\ AssignsBooking(req[r], b) => b \in contested

\* On an unmarked booking every snapshot is fresh.
FreshInv ==
  \A r \in Requests, b \in Bookings :
    /\ MovesBooking(req[r], b) /\ b \notin raced => Timely(req[r], b)
    /\ AssignsBooking(req[r], b) /\ b \notin contested => Free(req[r], b)

OneActive(b) == \A i, j \in ActiveRows(b) : i = j

ApartInv ==
  /\ TypeInv
  /\ NoneShared
  /\ FreshInv
  /\ \A b \in Bookings \ raced : Trail(history[b], status[b])
  /\ OneActiveAssignment
  /\ WarrantyMeansCompleted

\* What a snapshot in flight is about.
LEMMA SnapshotBooking ==
  ASSUME TypeInv, NEW r \in Requests
  PROVE  /\ req[r] \in Request
         /\ \A b : ~MovesBooking(Idle, b) /\ ~AssignsBooking(Idle, b)
         /\ \A b : MovesBooking(req[r], b) \/ AssignsBooking(req[r], b) =>
                     b \in Bookings /\ status[b] \in BookingStatus
<1>1. req[r] \in Request /\ TypeOK
  BY DEF TypeInv, TypeOK
<1>2. req[r].op \in {"reassign", "accept", "reject", "unassign"} =>
        /\ assignments[req[r].a].booking \in Bookings
        /\ status[assignments[req[r].a].booking] # "NONE"
  BY <1>1, RowType DEF TypeInv, TypeOK, Referenced
<1>3. req[r].op \in {"status", "gps", "reschedule", "backfill", "assign"} =>
        req[r].b \in Bookings /\ status[req[r].b] # "NONE"
  BY <1>1, SnapshotType DEF TypeInv, Referenced
<1>4. \A b \in Bookings : status[b] # "NONE" => status[b] \in BookingStatus
  BY <1>1 DEF TypeOK
<1> QED
  BY <1>1, <1>2, <1>3, <1>4 DEF MovesBooking, AssignsBooking, Idle

\* A request that goes on is about what it was about.
LEMMA SubjectStays ==
  ASSUME TypeInv, [Next]_vars, NEW r \in Requests, NEW b
  PROVE  /\ MovesBooking(req[r], b)' <=> MovesBooking(req'[r], b)
         /\ AssignsBooking(req[r], b)' <=> AssignsBooking(req'[r], b)
<1>1. CASE req'[r] = req[r]
  <2>1. req[r].op \in {"reassign", "accept", "reject", "unassign"} =>
          assignments'[req[r].a].booking = assignments[req[r].a].booking
    BY TypeStep DEF RowsStay, TypeInv, TypeOK
  <2> QED
    BY <1>1, <2>1 DEF MovesBooking, AssignsBooking
<1>2. CASE req'[r] = Idle
  BY <1>2 DEF MovesBooking, AssignsBooking, Idle
<1>3. CASE UNCHANGED assignments
  BY <1>3 DEF MovesBooking, AssignsBooking
<1> QED
  BY <1>1, <1>2, <1>3, RequestStep

LEMMA SharedStep ==
  ASSUME TypeInv, NoneShared, [Next]_vars
  PROVE  /\ NoneShared'
         /\ raced \subseteq raced' /\ contested \subseteq contested'
<1>1. /\ req \in [Requests -> Request]
      /\ \A b : ~MovesBooking(Idle, b) /\ ~AssignsBooking(Idle, b)
  BY DEF TypeInv, TypeOK, MovesBooking, AssignsBooking, Idle
<1>2. ASSUME NEW q \in Requests, NEW r \in Requests, NEW b \in Bookings, q # r
      PROVE  /\ MovesBooking(req'[q], b) /\ MovesBooking(req'[r], b) => b \in raced'
             /\ AssignsBooking(req'[q], b) /\ AssignsBooking(req'[r], b) => b \in contested'
  <2>1. CASE UNCHANGED <<req, raced, contested>>
    BY <1>2, <2>1 DEF NoneShared
  <2>2. ASSUME NEW p \in Requests, Begin(p)
        PROVE  /\ MovesBooking(req'[q], b) /\ MovesBooking(req'[r], b) => b \in raced'
               /\ AssignsBooking(req'[q], b) /\ AssignsBooking(req'[r], b) => b \in contested'
    <3>1. PICK s : Hold(p, s)
      BY <2>2, BeginHolds
    <3>2. /\ req'[p] = s /\ \A x \in Requests \ {p} : req'[x] = req[x]
          /\ raced \subseteq raced' /\ contested \subseteq contested'
          /\ \A x \in Requests \ {p} : MovesBooking(s, b) /\ MovesBooking(req[x], b) => b \in raced'
          /\ \A x \in Requests \ {p} :
               AssignsBooking(s, b) /\ AssignsBooking(req[x], b) => b \in contested'
      BY <1>1, <3>1 DEF Hold
    <3>3. CASE p \notin {q, r}
      BY <1>2, <3>2, <3>3 DEF NoneShared
    <3>4. CASE p = q
      BY <1>2, <3>2, <3>4
    <3>5. CASE p = r
      BY <1>2, <3>2, <3>5
    <3> QED
      BY <3>3, <3>4, <3>5
  <2>3. ASSUME NEW p \in Requests, Done(p)
        PROVE  /\ MovesBooking(req'[q], b) /\ MovesBooking(req'[r], b) => b \in raced'
               /\ AssignsBooking(req'[q], b) /\ AssignsBooking(req'[r], b) => b \in contested'
    <3>1. /\ req'[p] = Idle /\ \A x \in Requests \ {p} : req'[x] = req[x]
          /\ UNCHANGED <<raced, contested>>
      BY <1>1, <2>3 DEF Done
    <3> QED
      BY <1>1, <1>2, <3>1 DEF NoneShared
  <2> QED
    BY <2>1, <2>2, <2>3
       DEF Next, vars, Create, Commit, CommitReschedule, CommitStatus, CommitGps, CommitBackfill,
           CommitAssign, CommitReassign, CommitAccept, CommitRelease, Abandon
<1>3. NoneShared'
  BY <1>2, SubjectStays DEF NoneShared
<1>4. raced \subseteq raced' /\ contested \subseteq contested'
  <2>1. ASSUME NEW p \in Requests, Begin(p)
        PROVE  raced \subseteq raced' /\ contested \subseteq contested'
    BY <2>1, BeginHolds DEF Hold
  <2> QED
    BY <2>1
       DEF Next, vars, Create, Commit, CommitReschedule, CommitStatus, CommitGps, CommitBackfill,
           CommitAssign, CommitReassign, CommitAccept, CommitRelease, Abandon, Done
<1> QED
  BY <1>3, <1>4

-----------------------------------------------------------------------------
(* Live rows.                                                              *)

LEMMA ActiveAfterSet ==
  ASSUME TypeOK, NEW i \in DOMAIN assignments, NEW s \in AssignmentStatus,
         NEW b \in Bookings, assignments[i].booking = b, assignments' = RowSetTo(i, s)
  PROVE  /\ \A c \in Bookings \ {b} : ActiveRows(c)' = ActiveRows(c) /\ HoldersOf(c)' = HoldersOf(c)
         /\ s \in ACTIVE_ASSIGNMENT_STATUSES => ActiveRows(b)' = ActiveRows(b) \cup {i}
         /\ s \notin ACTIVE_ASSIGNMENT_STATUSES => ActiveRows(b)' = ActiveRows(b) \ {i}
         /\ \A j \in DOMAIN assignments : assignments'[j].tech = assignments[j].tech
<1>1. /\ DOMAIN assignments' = DOMAIN assignments
      /\ \A j \in DOMAIN assignments :
           /\ assignments'[j].booking = assignments[j].booking
           /\ assignments'[j].tech = assignments[j].tech
           /\ assignments'[j].status = IF j = i THEN s ELSE assignments[j].status
  BY RowSetType
<1> QED
  BY <1>1 DEF ActiveRows, HoldersOf

\* A new row is appended to the rows, of which those of other bookings are as they were.
LEMMA ActiveAfterAppend ==
  ASSUME TypeOK, NEW rows \in Seq(AssignmentRow), NEW b \in Bookings, NEW t \in Technicians,
         Len(rows) = Len(assignments),
         \A j \in DOMAIN assignments :
           /\ rows[j].booking = assignments[j].booking
           /\ rows[j].booking # b => rows[j] = assignments[j],
         assignments' = Append(rows, RowFor(b, t))
  PROVE  /\ \A c \in Bookings \ {b} : ActiveRows(c)' = ActiveRows(c) /\ HoldersOf(c)' = HoldersOf(c)
         /\ (\A j \in DOMAIN assignments :
               rows[j].booking = b => rows[j].status \notin ACTIVE_ASSIGNMENT_STATUSES)
            => OneActive(b)' /\ HoldersOf(b)' = {t}
<1> DEFINE n == Len(assignments) + 1
<1>1. /\ RowFor(b, t).booking = b /\ RowFor(b, t).tech = t /\ RowFor(b, t).status = "ASSIGNED"
      /\ "ASSIGNED" \in ACTIVE_ASSIGNMENT_STATUSES
  BY DEF RowFor, ACTIVE_ASSIGNMENT_STATUSES
<1> HIDE DEF RowFor
<1>2. /\ n \in DOMAIN assignments' /\ assignments'[n] = RowFor(b, t)
      /\ n \notin DOMAIN assignments
      /\ DOMAIN assignments' = DOMAIN assignments \cup {n}
      /\ \A j \in DOMAIN assignments : assignments'[j] = rows[j]
  BY DEF TypeOK
<1> HIDE DEF n
<1>3. ASSUME \A j \in DOMAIN assignments :
               rows[j].booking = b => rows[j].status \notin ACTIVE_ASSIGNMENT_STATUSES
      PROVE  OneActive(b)' /\ HoldersOf(b)' = {t}
  <2>1. ActiveRows(b)' = {n}
    BY <1>1, <1>2, <1>3 DEF ActiveRows
  <2> QED
    BY <1>1, <1>2, <2>1 DEF HoldersOf, OneActive
<1>4. \A c \in Bookings \ {b} : ActiveRows(c)' = ActiveRows(c)
  BY <1>1, <1>2 DEF ActiveRows
<1>5. ASSUME NEW c \in Bookings \ {b}
      PROVE  HoldersOf(c)' = HoldersOf(c)
  BY <1>2, <1>4 DEF HoldersOf, ActiveRows
<1> QED
  BY <1>3, <1>4, <1>5

LEMMA SameRows ==
  ASSUME UNCHANGED assignments
  PROVE  \A c \in Bookings : ActiveRows(c)' = ActiveRows(c) /\ HoldersOf(c)' = HoldersOf(c)
BY DEF ActiveRows, HoldersOf

\* What a transaction about assignments does to the booking it is about, if what it has
\* read of its rows is still so.
Outcome(r, b) ==
  /\ Free(req[r], b) /\ OneActive(b) => OneActive(b)'
  /\ Free(req[r], b) /\ OneActive(b) =>
       \/ CommitAccept(r) /\ ActiveRows(b)' = ActiveRows(b) /\ HoldersOf(b)' = HoldersOf(b)
       \/ ~CommitAccept(r) /\ \E t \in Technicians : HoldersOf(b)' = {t}
       \/ ~CommitAccept(r) /\ HoldersOf(b) # {} /\ HoldersOf(b)' = {}

\* It is about one booking, and leaves the rows of the others alone.
AboutOne(r) ==
  \E b \in Bookings :
    /\ AssignsBooking(req[r], b) /\ status[b] \in BookingStatus
    /\ \A c \in Bookings \ {b} : ActiveRows(c)' = ActiveRows(c) /\ HoldersOf(c)' = HoldersOf(c)
    /\ Outcome(r, b)

AboutAssignments(r) ==
  CommitAssign(r) \/ CommitReassign(r) \/ CommitAccept(r) \/ CommitRelease(r)

LEMMA AssignmentStep ==
  ASSUME TypeInv, NEW r \in Requests, AboutAssignments(r)
  PROVE  AboutOne(r)
<1>1. /\ TypeOK /\ assignments \in Seq(AssignmentRow) /\ req[r] \in Request
      /\ \A b : AssignsBooking(req[r], b) => b \in Bookings /\ status[b] \in BookingStatus
  BY SnapshotBooking DEF TypeInv, TypeOK
<1>2. CASE CommitAssign(r)
  <2>0. req[r].tech \in Technicians /\ AssignsBooking(req[r], req[r].b) /\ req[r].op = "assign"
    BY <1>1, <1>2 DEF CommitAssign, Request, Idle, AssignsBooking
  <2>1. PICK b \in Bookings, t \in Technicians :
          b = req[r].b /\ t = req[r].tech /\ AssignsBooking(req[r], b) /\ status[b] \in BookingStatus
    BY <1>1, <2>0
  <2>2. assignments' = Append(assignments, RowFor(b, t)) /\ ~CommitAccept(r)
    BY <1>2, <2>1 DEF CommitAssign, CommitAccept
  <2>3. /\ \A c \in Bookings \ {b} : ActiveRows(c)' = ActiveRows(c) /\ HoldersOf(c)' = HoldersOf(c)
        /\ (\A j \in DOMAIN assignments :
              assignments[j].booking = b => assignments[j].status \notin ACTIVE_ASSIGNMENT_STATUSES)
           => OneActive(b)' /\ HoldersOf(b)' = {t}
    BY <1>1, <2>2, ActiveAfterAppend
  <2>4. Free(req[r], b) =>
          \A j \in DOMAIN assignments :
            assignments[j].booking = b => assignments[j].status \notin ACTIVE_ASSIGNMENT_STATUSES
    BY <2>0 DEF Free, ActiveRows
  <2>5. Outcome(r, b)
    BY <2>2, <2>3, <2>4 DEF Outcome
  <2> QED
    BY <2>1, <2>3, <2>5 DEF AboutOne
<1>3. CASE CommitReassign(r)
  <2> DEFINE k == req[r].a
             rows == RowSetTo(k, "REASSIGNED")
  <2>0. /\ k \in DOMAIN assignments /\ req[r].tech \in Technicians /\ req[r].op = "reassign"
        /\ AssignsBooking(req[r], assignments[k].booking)
    BY <1>1, <1>3 DEF CommitReassign, Request, Idle, AssignsBooking, TypeOK
  <2>1. PICK b \in Bookings, t \in Technicians :
          /\ b = assignments[k].booking /\ t = req[r].tech
          /\ AssignsBooking(req[r], b) /\ status[b] \in BookingStatus
    BY <1>1, <2>0
  <2>2. assignments' = Append(rows, RowFor(b, t)) /\ ~CommitAccept(r)
    BY <1>3, <2>1 DEF CommitReassign, CommitAccept
  <2>3. /\ rows \in Seq(AssignmentRow) /\ Len(rows) = Len(assignments)
        /\ \A j \in DOMAIN assignments :
             /\ rows[j].booking = assignments[j].booking
             /\ rows[j].status = IF j = k THEN "REASSIGNED" ELSE assignments[j].status
             /\ j # k => rows[j] = assignments[j]
    <3>1. \A j \in DOMAIN assignments : j # k => rows[j] = assignments[j]
      BY <1>1 DEF RowSetTo
    <3> QED
      BY <1>1, <2>0, <3>1, RowSetType DEF AssignmentStatus
  <2> HIDE DEF rows
  <2>4. \A j \in DOMAIN assignments : rows[j].booking # b => rows[j] = assignments[j]
    BY <2>1, <2>3
  <2>5. /\ \A c \in Bookings \ {b} : ActiveRows(c)' = ActiveRows(c) /\ HoldersOf(c)' = HoldersOf(c)
        /\ (\A j \in DOMAIN assignments :
              rows[j].booking = b => rows[j].status \notin ACTIVE_ASSIGNMENT_STATUSES)
           => OneActive(b)' /\ HoldersOf(b)' = {t}
    BY <1>1, <2>2, <2>3, <2>4, ActiveAfterAppend
  <2>6. ASSUME Free(req[r], b), OneActive(b), NEW j \in DOMAIN assignments, rows[j].booking = b
        PROVE  rows[j].status \notin ACTIVE_ASSIGNMENT_STATUSES
    <3>1. k \in ActiveRows(b) /\ \A i \in ActiveRows(b) : i = k
      BY <2>0, <2>6 DEF Free, OneActive
    <3>2. "REASSIGNED" \notin ACTIVE_ASSIGNMENT_STATUSES
      BY DEF ACTIVE_ASSIGNMENT_STATUSES
    <3> QED
      BY <2>3, <2>6, <3>1, <3>2 DEF ActiveRows
  <2>7. Outcome(r, b)
    BY <2>2, <2>5, <2>6 DEF Outcome
  <2> QED
    BY <2>1, <2>5, <2>7 DEF AboutOne
<1>4. CASE CommitAccept(r) \/ CommitRelease(r)
  <2> DEFINE k == req[r].a
  <2>0. /\ k \in DOMAIN assignments /\ req[r].op \in {"accept", "reject", "unassign"}
        /\ AssignsBooking(req[r], assignments[k].booking)
    BY <1>1, <1>4 DEF CommitAccept, CommitRelease, AssignsBooking, TypeOK
  <2>1. PICK b \in Bookings :
          /\ b = assignments[k].booking
          /\ AssignsBooking(req[r], b) /\ status[b] \in BookingStatus
    BY <1>1, <2>0
  <2>2. PICK s \in {"ACCEPTED", "DECLINED", "CANCELLED"} :
          assignments' = RowSetTo(k, s) /\ (s = "ACCEPTED" <=> CommitAccept(r))
    BY <1>4 DEF CommitAccept, CommitRelease
  <2>3. s \in AssignmentStatus /\ (s \in ACTIVE_ASSIGNMENT_STATUSES <=> s = "ACCEPTED")
    BY DEF AssignmentStatus, ACTIVE_ASSIGNMENT_STATUSES
  <2>4. Free(req[r], b) => k \in ActiveRows(b)
    BY <2>0 DEF Free
  <2>5. k \in DOMAIN assignments /\ assignments[k].booking = b
    BY <2>0, <2>1
  <2> HIDE DEF k
  <2>6. /\ \A c \in Bookings \ {b} : ActiveRows(c)' = ActiveRows(c) /\ HoldersOf(c)' = HoldersOf(c)
        /\ s \in ACTIVE_ASSIGNMENT_STATUSES => ActiveRows(b)' = ActiveRows(b) \cup {k}
        /\ s \notin ACTIVE_ASSIGNMENT_STATUSES => ActiveRows(b)' = ActiveRows(b) \ {k}
        /\ \A j \in DOMAIN assignments : assignments'[j].tech = assignments[j].tech
    BY <1>1, <2>2, <2>3, <2>5, ActiveAfterSet
  <2>7. CASE CommitAccept(r)
    <3>1. Free(req[r], b) => ActiveRows(b)' = ActiveRows(b)
      BY <2>2, <2>3, <2>4, <2>6, <2>7
    <3>2. ActiveRows(b)' = ActiveRows(b) => HoldersOf(b)' = HoldersOf(b)
      BY <2>6 DEF HoldersOf, ActiveRows
    <3>3. Outcome(r, b)
      BY <2>7, <3>1, <3>2 DEF Outcome, OneActive
    <3> QED
      BY <2>1, <2>6, <3>3 DEF AboutOne
  <2>8. CASE ~CommitAccept(r)
    <3>1. Free(req[r], b) /\ OneActive(b) => ActiveRows(b)' = {}
      BY <2>2, <2>3, <2>4, <2>6, <2>8 DEF OneActive
    <3>2. /\ ActiveRows(b)' = {} => HoldersOf(b)' = {}
          /\ k \in ActiveRows(b) => HoldersOf(b) # {}
      BY DEF HoldersOf
    <3>3. Outcome(r, b)
      BY <2>4, <2>8, <3>1, <3>2 DEF Outcome, OneActive
    <3> QED
      BY <2>1, <2>6, <3>3 DEF AboutOne
  <2> QED
    BY <2>7, <2>8
<1> QED
  BY <1>2, <1>3, <1>4 DEF AboutAssignments

\* The rows of a booking change only by a transaction of a request that was about them.
LEMMA RowsChange ==
  ASSUME TypeInv, [Next]_vars
  PROVE  \/ \A c \in Bookings : ActiveRows(c)' = ActiveRows(c) /\ HoldersOf(c)' = HoldersOf(c)
         \/ \E r \in Requests : AboutAssignments(r) /\ AboutOne(r) /\ req'[r] = Idle
<1>1. CASE UNCHANGED assignments
  BY <1>1, SameRows
<1>2. ASSUME NEW r \in Requests, AboutAssignments(r)
      PROVE  AboutOne(r) /\ req'[r] = Idle
  BY <1>2, AssignmentStep
     DEF AboutAssignments, CommitAssign, CommitReassign, CommitAccept, CommitRelease, Done,
         TypeInv, TypeOK
<1> QED
  BY <1>1, <1>2, BeginReads
     DEF Next, vars, Create, Commit, CommitReschedule, CommitStatus, CommitGps, CommitBackfill,
         Abandon, AboutAssignments

-----------------------------------------------------------------------------
(* Fresh snapshots.                                                        *)

\* When its reads are done a request has seen things as they are.
LEMMA BeginFresh ==
  ASSUME TypeInv, NEW r \in Requests, Begin(r), NEW b
  PROVE  /\ MovesBooking(req'[r], b) => Timely(req'[r], b)
         /\ AssignsBooking(req'[r], b) => Free(req'[r], b)
<1>1. PICK s : Snapshot(s) /\ Hold(r, s)
  BY BeginHolds
<1>2. req'[r] = s /\ req \in [Requests -> Request]
  BY <1>1 DEF Hold, TypeInv, TypeOK
<1>3. MovesBooking(s, b) => Timely(s, b)
  BY <1>1 DEF MovesBooking, Timely, Snapshot
<1>4. /\ s.op = "assign" => ActiveRows(s.b) = {}
      /\ s.op \in {"reassign", "reject", "unassign", "accept"} =>
           assignments[s.a].status \in ACTIVE_ASSIGNMENT_STATUSES
  <2>2. CASE \E c \in Bookings, t \in Technicians : BeginAssign(r, c, t)
    BY <1>2, <2>2 DEF BeginAssign, Hold
  <2>3. CASE \E i \in DOMAIN assignments, t \in Technicians : BeginReassign(r, i, t)
    BY <1>2, <2>3 DEF BeginReassign, Hold
  <2>4. CASE \E i \in DOMAIN assignments : BeginAccept(r, i)
    BY <1>2, <2>4
       DEF BeginAccept, Hold, isAssignmentTransitionAllowed, ASSIGNMENT_TRANSITIONS,
           ACTIVE_ASSIGNMENT_STATUSES
  <2>5. CASE \E i \in DOMAIN assignments : \/ BeginRelease(r, i, "reject", "DECLINED")
                                          \/ BeginRelease(r, i, "unassign", "CANCELLED")
    BY <1>2, <2>5
       DEF BeginRelease, Hold, isAssignmentTransitionAllowed, ASSIGNMENT_TRANSITIONS,
           ACTIVE_ASSIGNMENT_STATUSES
  <2>6. ASSUME NEW actor \in Actors, NEW c \in Recordable,
               \/ BeginReschedule(r, actor, c)
               \/ BeginCancel(r, actor, c)
               \/ \E next \in BookingStatus : BeginChangeStatus(r, actor, c, next)
        PROVE  s.op \in {"reschedule", "status"}
    <3>1. CASE BeginReschedule(r, actor, c)
      BY <1>2, <3>1 DEF BeginReschedule, Hold
    <3>2. CASE BeginCancel(r, actor, c)
      BY <1>2, <3>2 DEF BeginCancel, Hold
    <3>3. CASE \E next \in BookingStatus : BeginChangeStatus(r, actor, c, next)
      BY <1>2, <3>3 DEF BeginChangeStatus, Hold
    <3> QED
      BY <2>6, <3>1, <3>2, <3>3
  <2>7. CASE \E t \in Technicians, c \in Recordable, next \in {"ARRIVED", "COMPLETED"} :
               BeginGps(r, t, c, next)
    BY <1>2, <2>7 DEF BeginGps, Hold
  <2>8. CASE \E c \in Bookings : BeginBackfill(r, c)
    BY <1>2, <2>8 DEF BeginBackfill, Hold
  <2> QED
    BY <2>2, <2>3, <2>4, <2>5, <2>6, <2>7, <2>8 DEF Begin
<1>5. AssignsBooking(s, b) => Free(s, b)
  BY <1>1, <1>4 DEF AssignsBooking, Free, ActiveRows, Snapshot
<1> QED
  BY <1>2, <1>3, <1>5

\* While a request is on its way to move an unmarked booking, nobody else does.
LEMMA StatusStays ==
  ASSUME TypeInv, NoneShared, FreshInv, [Next]_vars,
         NEW r \in Requests, req'[r] = req[r],
         NEW b \in Bookings \ raced, MovesBooking(req[r], b)
  PROVE  status'[b] = status[b]
<1>1. Event(b)
  BY HistoryStep
<1>2. /\ status[b] # "NONE" /\ req[r] # Idle
      /\ \A q \in Requests : req'[q] = Idle => q # r
  BY SnapshotBooking DEF BookingStatus
<1>3. \A q \in Requests : \A p : Reading(q, b, p) => MovesBooking(req[q], b)
  BY DEF Reading, MovesBooking
<1> QED
  BY <1>1, <1>2, <1>3 DEF Event, Keeps, Opens, NoneShared

LEMMA FreshStep ==
  ASSUME TypeInv, NoneShared, FreshInv, [Next]_vars
  PROVE  FreshInv'
<1>1. /\ raced \subseteq raced' /\ contested \subseteq contested'
      /\ req \in [Requests -> Request]
      /\ \A b : ~MovesBooking(Idle, b) /\ ~AssignsBooking(Idle, b)
  BY SharedStep DEF TypeInv, TypeOK, MovesBooking, AssignsBooking, Idle
<1> SUFFICES ASSUME NEW r \in Requests, NEW b \in Bookings
             PROVE  /\ MovesBooking(req'[r], b) /\ b \notin raced' => Timely(req[r], b)'
                    /\ AssignsBooking(req'[r], b) /\ b \notin contested' => Free(req[r], b)'
  BY SubjectStays DEF FreshInv
<1>2. CASE req'[r] = req[r]
  <2>1. ASSUME MovesBooking(req[r], b), b \notin raced
        PROVE  Timely(req[r], b)'
    <3>1. Timely(req[r], b) /\ status'[b] = status[b]
      BY <1>2, <2>1, StatusStays DEF FreshInv
    <3> QED
      BY <1>2, <3>1 DEF Timely
  <2>2. ASSUME AssignsBooking(req[r], b), b \notin contested
        PROVE  Free(req[r], b)'
    <3>1. Free(req[r], b)
      BY <2>2 DEF FreshInv
    <3>2. ActiveRows(b)' = ActiveRows(b)
      <4>1. ASSUME NEW q \in Requests, AboutOne(q), req'[q] = Idle
            PROVE  ActiveRows(b)' = ActiveRows(b)
        <5>1. q # r /\ ~AssignsBooking(req[q], b)
          BY <1>1, <1>2, <2>2, <4>1 DEF NoneShared
        <5> QED
          BY <4>1, <5>1 DEF AboutOne
      <4> QED
        BY <4>1, RowsChange
    <3> QED
      BY <1>2, <3>1, <3>2 DEF Free
  <2> QED
    BY <1>1, <1>2, <2>1, <2>2
<1>3. CASE req'[r] = Idle
  BY <1>1, <1>3
<1>4. CASE Begin(r)
  <2>1. /\ MovesBooking(req'[r], b) => Timely(req'[r], b)
        /\ AssignsBooking(req'[r], b) => Free(req'[r], b)
        /\ UNCHANGED <<status, assignments>>
    BY <1>4, BeginFresh, BeginReads
  <2> QED
    BY <2>1 DEF Timely, Free, ActiveRows
<1> QED
  BY <1>2, <1>3, <1>4, RequestStep

-----------------------------------------------------------------------------
(* Histories, live rows and warranties of unmarked bookings.               *)

LEMMA TrailAppend ==
  ASSUME NEW h \in Seq(HistoryRow), NEW s, Trail(h, s), NEW row \in HistoryRow, row.prev = s
  PROVE  Trail(Append(h, row), row.new)
<1>1. /\ Append(h, row) # <<>> /\ Len(Append(h, row)) = Len(h) + 1
      /\ Append(h, row)[Len(h) + 1] = row
      /\ \A i \in DOMAIN h : Append(h, row)[i] = h[i]
      /\ \A i \in DOMAIN Append(h, row) : i \in DOMAIN h \/ i = Len(h) + 1
      /\ Len(h) \in Nat /\ DOMAIN h = 1..Len(h)
  OBVIOUS
<1>2. ASSUME NEW i \in DOMAIN Append(h, row), i > 1
      PROVE  Append(h, row)[i].prev = Append(h, row)[i - 1].new
  <2>1. CASE i \in DOMAIN h
    <3>1. i - 1 \in DOMAIN h
      BY <1>1, <1>2, <2>1
    <3> QED
      BY <1>1, <1>2, <2>1, <3>1 DEF Trail
  <2>2. CASE i = Len(h) + 1
    <3>1. Len(h) \in DOMAIN h /\ i - 1 = Len(h) /\ h # <<>>
      BY <1>1, <1>2, <2>2
    <3> QED
      BY <1>1, <2>2, <3>1 DEF Trail
  <2> QED
    BY <1>1, <2>1, <2>2
<1> QED
  BY <1>1, <1>2 DEF Trail

\* An unmarked booking and its history move together, from the status it has.
LEMMA TrailStep ==
  ASSUME ApartInv, [Next]_vars, NEW b \in Bookings \ raced
  PROVE  /\ Trail(history'[b], status'[b])
         /\ \/ status'[b] = status[b]
            \/ status[b] = "NONE" /\ status'[b] = "PENDING"
            \/ isTransitionAllowed(status[b], status'[b])
<1>1. /\ Event(b) /\ Trail(history[b], status[b]) /\ history[b] \in Seq(HistoryRow)
      /\ TypeInv /\ status[b] \in BookingStatus \cup {"NONE"}
  BY HistoryStep DEF ApartInv, TypeInv, TypeOK
<1>2. ASSUME NEW r \in Requests, NEW p, Reading(r, b, p)
      PROVE  p = status[b]
  <2>1. MovesBooking(req[r], b) /\ req[r].op # "backfill" /\ p = req[r].seen
    BY <1>2 DEF Reading, MovesBooking
  <2> QED
    BY <2>1 DEF ApartInv, FreshInv, Timely
<1>3. CASE Keeps(b)
  BY <1>1, <1>3 DEF Keeps
<1>4. CASE Opens(b)
  <2>1. [prev |-> "NONE", new |-> "PENDING"] \in HistoryRow
    BY DEF HistoryRow, BookingStatus
  <2> QED
    BY <1>1, <1>4, <2>1, TrailAppend DEF Opens
<1>5. ASSUME NEW r \in Requests, NEW p \in BookingStatus, NEW n \in BookingStatus,
             Reading(r, b, p), Moves(b, p, n)
      PROVE  /\ Trail(history'[b], status'[b])
             /\ isTransitionAllowed(status[b], status'[b])
  <2>1. [prev |-> p, new |-> n] \in HistoryRow /\ p = status[b]
    BY <1>2, <1>5 DEF HistoryRow
  <2> QED
    BY <1>1, <1>5, <2>1, TrailAppend DEF Moves
<1>6. ASSUME NEW r \in Requests, NEW p \in BookingStatus, Reading(r, b, p), Notes(b, p)
      PROVE  Trail(history'[b], status'[b])
  <2>1. [prev |-> p, new |-> p] \in HistoryRow /\ p = status[b]
    BY <1>2, <1>6 DEF HistoryRow
  <2> QED
    BY <1>1, <1>6, <2>1, TrailAppend DEF Notes
<1> QED
  BY <1>1, <1>3, <1>4, <1>5, <1>6 DEF Event, Notes

LEMMA OneActiveStep ==
  ASSUME ApartInv, [Next]_vars
  PROVE  OneActiveAssignment'
<1>1. TypeInv /\ contested \subseteq contested' /\ \A b \in Bookings \ contested : OneActive(b)
  BY SharedStep DEF ApartInv, OneActiveAssignment, OneActive
<1>2. ASSUME NEW b \in Bookings \ contested, NEW r \in Requests, AboutOne(r)
      PROVE  OneActive(b)'
  <2>1. CASE AssignsBooking(req[r], b)
    <3>1. Free(req[r], b) /\ OneActive(b)
      BY <1>1, <2>1 DEF ApartInv, FreshInv
    <3>2. CASE ActiveRows(b)' = ActiveRows(b)
      BY <3>1, <3>2 DEF OneActive
    <3>3. CASE Outcome(r, b)
      BY <3>1, <3>3 DEF Outcome
    <3> QED
      BY <1>2, <3>2, <3>3 DEF AboutOne
  <2>2. CASE ~AssignsBooking(req[r], b)
    BY <1>1, <1>2, <2>2 DEF AboutOne, OneActive
  <2> QED
    BY <2>1, <2>2
<1>3. \A b \in Bookings \ contested : OneActive(b)'
  BY <1>1, <1>2, RowsChange DEF OneActive
<1> QED
  BY <1>1, <1>3 DEF OneActiveAssignment, OneActive

\* A completed booking stays so, and only a completed one gets a warranty.
LEMMA WarrantyStep ==
  ASSUME ApartInv, [Next]_vars
  PROVE  WarrantyMeansCompleted'
<1>1. TypeInv /\ TypeOK /\ warranty \subseteq Bookings /\ raced \subseteq raced'
  BY BookingsAssumption, SharedStep DEF ApartInv, TypeInv, TypeOK
<1>2. ASSUME NEW b \in Bookings \ raced, status[b] = "COMPLETED"
      PROVE  status'[b] = "COMPLETED"
  BY <1>2, TrailStep DEF isTransitionAllowed, BOOKING_TRANSITIONS
<1>3. ASSUME NEW b \in warranty' \ raced, b \notin warranty
      PROVE  status'[b] = "COMPLETED"
  <2>1. PICK r \in Requests : CommitStatus(r) \/ CommitBackfill(r)
    BY <1>1, <1>3, BeginReads
       DEF Next, vars, Create, Commit, CommitReschedule, CommitGps, CommitAssign, CommitReassign,
           CommitAccept, CommitRelease, Abandon
  <2>2. CASE CommitStatus(r)
    <3>1. b = req[r].b /\ req[r].next = "COMPLETED" /\ b \in Bookings
      BY <1>3, <2>2, BookingsAssumption DEF CommitStatus
    <3> QED
      BY <1>1, <2>2, <3>1 DEF CommitStatus, transition, TypeOK
  <2>3. CASE CommitBackfill(r)
    <3>1. b = req[r].b /\ req[r].op = "backfill" /\ status' = status
      BY <1>3, <2>3 DEF CommitBackfill
    <3>2. MovesBooking(req[r], b) /\ b \in Bookings
      BY <1>1, <3>1, SnapshotBooking DEF MovesBooking
    <3> QED
      BY <1>3, <3>1, <3>2 DEF ApartInv, FreshInv, Timely
  <2> QED
    BY <2>1, <2>2, <2>3
<1> QED
  BY <1>1, <1>2, <1>3 DEF ApartInv, WarrantyMeansCompleted

LEMMA ApartStep ==
  ASSUME ApartInv, [Next]_vars
  PROVE  ApartInv'
<1>1. TypeInv' /\ NoneShared' /\ FreshInv' /\ raced \subseteq raced'
  BY TypeStep, SharedStep, FreshStep DEF ApartInv
<1>2. \A b \in Bookings \ raced' : Trail(history'[b], status'[b])
  BY <1>1, TrailStep
<1> QED
  BY <1>1, <1>2, OneActiveStep, WarrantyStep DEF ApartInv

LEMMA ApartInit == Init => ApartInv
<1> SUFFICES ASSUME Init
             PROVE  ApartInv
  OBVIOUS
<1>1. TypeInv
  BY DEF Init, TypeInv, TypeOK, Referenced, Request, Idle
<1>2. NoneShared /\ FreshInv
  BY DEF Init, NoneShared, FreshInv, MovesBooking, AssignsBooking, Idle
<1>3. /\ \A b \in Bookings : Trail(history[b], status[b])
      /\ OneActiveAssignment /\ WarrantyMeansCompleted
  BY DEF Init, Trail, OneActiveAssignment, ActiveRows, WarrantyMeansCompleted
<1> QED
  BY <1>1, <1>2, <1>3 DEF ApartInv

LEMMA ApartHolds == Spec => []ApartInv
<1>1. ApartInv /\ [Next]_vars => ApartInv'
  BY ApartStep
<1> QED
  BY <1>1, ApartInit, PTL DEF Spec

\* However many requests are in flight, a booking has a second live assignment only if two
\* requests about its assignments overlapped (technician-assignment.service.ts, assign and
\* reassign).
THEOREM OneAssignment == Spec => []OneActiveAssignment
<1>1. ApartInv => OneActiveAssignment
  BY DEF ApartInv
<1> QED
  BY <1>1, ApartHolds, PTL

\* The audit trail of a booking is connected until two requests that read its status
\* overlap (booking-status.service.ts, transition).
THEOREM TrailConnected == Spec => []HistoryIsChain
<1>1. ApartInv => HistoryIsChain
  BY DEF ApartInv, Trail, HistoryIsChain
<1> QED
  BY <1>1, ApartHolds, PTL

\* A booking with a warranty is completed, unless a backfill or a change of status
\* overlapped another on it (warranties.service.ts, createForBooking and
\* backfillMissingWarranties).
THEOREM WarrantyCompleted == Spec => []WarrantyMeansCompleted
<1>1. ApartInv => WarrantyMeansCompleted
  BY DEF ApartInv
<1> QED
  BY <1>1, ApartHolds, PTL

-----------------------------------------------------------------------------
(* What a step does to the promise.                                        *)

\* The status of a booking moves along its graph, or its holder changes.
OpenOrMove(b) ==
  /\ \A c \in Bookings \ {b} : status'[c] = status[c]
  /\ \/ status[b] = "NONE" /\ status'[b] = "PENDING"
     \/ isTransitionAllowed(status[b], status'[b])
  /\ \A c \in Bookings : HoldersOf(c)' = HoldersOf(c)

HoldersMove(b) ==
  /\ status' = status /\ status[b] # "NONE"
  /\ \A c \in Bookings \ {b} : HoldersOf(c)' = HoldersOf(c)
  /\ \/ HoldersOf(b) # {} /\ HoldersOf(b)' = {}
     \/ \E t \in Technicians : HoldersOf(b)' = {t}

\* A marked booking leaves that half of the promise for which it is marked.
Lapses(b) ==
  /\ b \in raced \cup contested
  /\ \A c \in Bookings \ {b} : status'[c] = status[c] /\ HoldersOf(c)' = HoldersOf(c)
  /\ status'[b] \in BookingStatus
  /\ status'[b] = status[b] \/ isTransitionAllowed(status[b], status'[b]) \/ b \in raced
  /\ HoldersOf(b)' = HoldersOf(b) \/ b \in contested

Unchanged == status' = status /\ \A c \in Bookings : HoldersOf(c)' = HoldersOf(c)

Unmarked == UNCHANGED <<raced, contested>>

Marks(b) ==
  /\ Unchanged
  /\ raced' \in {raced, raced \cup {b}} /\ contested' \in {contested, contested \cup {b}}

PromiseEvent ==
  \/ Unchanged /\ Unmarked
  \/ \E b \in Bookings :
       Marks(b) \/ (Unmarked /\ (OpenOrMove(b) \/ HoldersMove(b) \/ Lapses(b)))

LEMMA BeginMarks ==
  ASSUME TypeInv, NEW r \in Requests, Begin(r)
  PROVE  PromiseEvent
<1>1. PICK s : Snapshot(s) /\ Hold(r, s)
  BY BeginHolds
<1>2. Unchanged
  BY BeginReads, SameRows, <1>1 DEF Unchanged, Hold
<1>3. PICK R \in SUBSET Bookings, C \in SUBSET Bookings :
        /\ raced' = raced \cup R /\ contested' = contested \cup C
        /\ \A b \in R : MovesBooking(s, b)
        /\ \A b \in C : AssignsBooking(s, b)
  <2> DEFINE R == {b \in Bookings :
                     MovesBooking(s, b) /\ \E q \in Requests \ {r} : MovesBooking(req[q], b)}
             C == {b \in Bookings :
                     AssignsBooking(s, b) /\ \E q \in Requests \ {r} : AssignsBooking(req[q], b)}
  <2>1. raced' = raced \cup R /\ contested' = contested \cup C
    BY <1>1 DEF Hold
  <2>2. /\ R \in SUBSET Bookings /\ C \in SUBSET Bookings
        /\ \A b \in R : MovesBooking(s, b)
        /\ \A b \in C : AssignsBooking(s, b)
    OBVIOUS
  <2> HIDE DEF R, C
  <2> QED
    BY <2>1, <2>2
<1>4. \A b, c \in R \cup C : b = c
  BY <1>3 DEF MovesBooking, AssignsBooking
<1>5. CASE R \cup C = {}
  BY <1>2, <1>3, <1>5 DEF PromiseEvent, Unmarked
<1>6. ASSUME NEW b \in R \cup C
      PROVE  PromiseEvent
  <2>1. b \in Bookings /\ R \in {{}, {b}} /\ C \in {{}, {b}}
    BY <1>4, <1>6
  <2>2. raced' \in {raced, raced \cup {b}} /\ contested' \in {contested, contested \cup {b}}
    BY <1>3, <2>1
  <2>3. Marks(b)
    BY <1>2, <2>2 DEF Marks
  <2> QED
    BY <2>1, <2>3 DEF PromiseEvent
<1> QED
  BY <1>5, <1>6

\* What a transition of a booking does to it.
LEMMA MoveKeepsPromise ==
  ASSUME ApartInv, NEW r \in Requests, NEW b \in Bookings, MovesBooking(req[r], b),
         req[r].op # "backfill", NEW next \in BookingStatus, transition(b, req[r].seen, next)
  PROVE  /\ \A c \in Bookings \ {b} : status'[c] = status[c]
         /\ status'[b] \in BookingStatus
         /\ isTransitionAllowed(status[b], status'[b]) \/ b \in raced
<1>1. status' = [status EXCEPT ![b] = next] /\ isTransitionAllowed(req[r].seen, next)
  BY DEF transition
<1>2. status'[b] = next /\ \A c \in Bookings \ {b} : status'[c] = status[c]
  BY <1>1 DEF ApartInv, TypeInv, TypeOK
<1>3. b \notin raced => req[r].seen = status[b]
  BY DEF ApartInv, FreshInv, Timely
<1> QED
  BY <1>1, <1>2, <1>3

LEMMA PromiseStep ==
  ASSUME ApartInv, [Next]_vars
  PROVE  PromiseEvent
<1>1. /\ TypeInv /\ TypeOK
      /\ status \in [Bookings -> BookingStatus \cup {"NONE"}]
      /\ "NONE" \notin BookingStatus
  BY DEF ApartInv, TypeInv, TypeOK, BookingStatus
<1>2. ASSUME UNCHANGED assignments
      PROVE  \A c \in Bookings : HoldersOf(c)' = HoldersOf(c)
  BY <1>2, SameRows
<1>3. CASE UNCHANGED vars
  BY <1>2, <1>3 DEF vars, PromiseEvent, Unchanged, Unmarked
<1>4. ASSUME NEW b \in Bookings, Create(b)
      PROVE  PromiseEvent
  BY <1>1, <1>2, <1>4 DEF Create, PromiseEvent, OpenOrMove, Unmarked
<1>5. ASSUME NEW r \in Requests, CommitReschedule(r) \/ CommitBackfill(r) \/ Abandon(r)
      PROVE  PromiseEvent
  <2>1. UNCHANGED <<status, assignments, raced, contested>>
    BY <1>5 DEF CommitReschedule, CommitBackfill, Abandon, Done
  <2> QED
    BY <1>2, <2>1 DEF PromiseEvent, Unchanged, Unmarked
<1>6. ASSUME NEW r \in Requests, CommitStatus(r) \/ CommitGps(r)
      PROVE  PromiseEvent
  <2> SUFFICES ASSUME NEW b, b = req[r].b
               PROVE  PromiseEvent
    OBVIOUS
  <2>1. /\ UNCHANGED assignments /\ Unmarked /\ req[r].op \in {"status", "gps"}
        /\ transition(b, req[r].seen, req[r].next)
    BY <1>6 DEF CommitStatus, CommitGps, Done, Unmarked
  <2>2. b \in Bookings /\ req[r].next \in BookingStatus /\ MovesBooking(req[r], b)
    BY <1>1, <2>1, SnapshotType DEF TypeOK, MovesBooking
  <2>3. /\ \A c \in Bookings \ {b} : status'[c] = status[c]
        /\ status'[b] \in BookingStatus
        /\ isTransitionAllowed(status[b], status'[b]) \/ b \in raced
    BY <2>1, <2>2, MoveKeepsPromise
  <2>4. \A c \in Bookings : HoldersOf(c)' = HoldersOf(c)
    BY <1>2, <2>1
  <2>5. CASE isTransitionAllowed(status[b], status'[b])
    <3>1. OpenOrMove(b)
      BY <2>3, <2>4, <2>5 DEF OpenOrMove
    <3> QED
      BY <2>1, <2>2, <3>1 DEF PromiseEvent
  <2>6. CASE b \in raced
    <3>1. Lapses(b)
      BY <2>2, <2>3, <2>4, <2>6 DEF Lapses
    <3> QED
      BY <2>1, <2>2, <3>1 DEF PromiseEvent
  <2> QED
    BY <2>3, <2>5, <2>6
<1>7. ASSUME NEW r \in Requests, AboutAssignments(r)
      PROVE  PromiseEvent
  <2>1. PICK b \in Bookings :
          /\ AssignsBooking(req[r], b) /\ status[b] \in BookingStatus
          /\ \A c \in Bookings \ {b} : HoldersOf(c)' = HoldersOf(c)
          /\ Outcome(r, b)
    BY <1>1, <1>7, AssignmentStep DEF AboutOne
  <2>2. Unmarked
    BY <1>7 DEF AboutAssignments, CommitAssign, CommitReassign, CommitAccept, CommitRelease, Done,
                Unmarked
  <2>3. b \notin contested =>
          \/ CommitAccept(r) /\ HoldersOf(b)' = HoldersOf(b)
          \/ ~CommitAccept(r) /\ \E t \in Technicians : HoldersOf(b)' = {t}
          \/ ~CommitAccept(r) /\ HoldersOf(b) # {} /\ HoldersOf(b)' = {}
    <3>1. b \notin contested => Free(req[r], b) /\ OneActive(b)
      BY <2>1 DEF ApartInv, FreshInv, OneActiveAssignment, OneActive
    <3> QED
      BY <2>1, <3>1 DEF Outcome
  <2>4. CASE ~CommitAccept(r)
    <3>1. status' = status
      BY <1>7, <2>4 DEF AboutAssignments, CommitAssign, CommitReassign, CommitRelease
    <3>2. CASE b \in contested
      BY <2>1, <2>2, <3>1, <3>2 DEF PromiseEvent, Lapses
    <3>3. CASE b \notin contested
      BY <1>1, <2>1, <2>2, <2>3, <2>4, <3>1, <3>3 DEF PromiseEvent, HoldersMove
    <3> QED
      BY <3>2, <3>3
  <2>5. CASE CommitAccept(r)
    <3>1. /\ b = assignments[req[r].a].booking /\ req[r].op = "accept"
          /\ MovesBooking(req[r], b)
      BY <2>1, <2>5 DEF CommitAccept, AssignsBooking, MovesBooking
    <3>2. /\ \A c \in Bookings \ {b} : status'[c] = status[c]
          /\ status'[b] \in BookingStatus
          /\ status' = status \/ isTransitionAllowed(status[b], status'[b]) \/ b \in raced
      <4>1. CASE UNCHANGED <<status, history>>
        BY <2>1, <4>1
      <4>2. CASE req[r].seen = "PENDING" /\ transition(b, "PENDING", "CONFIRMED")
        BY <3>1, <4>2, MoveKeepsPromise DEF BookingStatus
      <4> QED
        BY <2>5, <3>1, <4>1, <4>2 DEF CommitAccept
    <3>3. CASE b \in contested
      BY <2>1, <2>2, <3>2, <3>3 DEF PromiseEvent, Lapses
    <3>4. CASE b \notin contested
      <4>1. \A c \in Bookings : HoldersOf(c)' = HoldersOf(c)
        BY <2>1, <2>3, <2>5, <3>4
      <4>2. Unchanged \/ OpenOrMove(b) \/ Lapses(b)
        BY <3>2, <4>1 DEF Unchanged, OpenOrMove, Lapses
      <4> QED
        BY <2>1, <2>2, <4>2 DEF PromiseEvent
    <3> QED
      BY <3>3, <3>4
  <2> QED
    BY <2>4, <2>5
<1> QED
  BY <1>1, <1>3, <1>4, <1>5, <1>6, <1>7, BeginMarks DEF Next, Commit, AboutAssignments

\* However many requests are in flight, the API implements BookingPromise: a booking moves
\* along the edges of the status graph and is in the hands of at most one technician, who
\* is replaced or released in one step, until two requests about its status, or its
\* assignments, overlap on it; it then loses that half of the promise, and no other booking
\* loses anything (bookings.service.ts, technician-assignment.service.ts).
THEOREM PromiseKept == Spec => KeepsPromise
<1> DEFINE h == [b \in Bookings |-> HoldersOf(b)]
           v == <<status, h, Promise!overlaps>>
<1>1. Init => Promise!Init
  BY DEF Init, Promise!Init, HoldersOf, ActiveRows
<1>2. ASSUME ApartInv, [Next]_vars
      PROVE  [Promise!Next]_v
  <2>1. PromiseEvent /\ status \in [Bookings -> BookingStatus \cup {"NONE"}]
        /\ status' \in [Bookings -> BookingStatus \cup {"NONE"}]
        /\ assignments' \in Seq(AssignmentRow)
    BY <1>2, PromiseStep, TypeStep DEF ApartInv, TypeInv, TypeOK
  <2>2. CASE Unchanged /\ Unmarked
    BY <2>2 DEF Unchanged, Unmarked, Promise!overlaps
  <2>3. ASSUME NEW b \in Bookings, Marks(b)
        PROVE  Promise!Next
    <3>1. status' = status /\ h' = h
      BY <2>3 DEF Marks, Unchanged
    <3> HIDE DEF h
    <3>2. Promise!Overlap(b)
      BY <2>3, <3>1 DEF Marks, Promise!Overlap, h
    <3> QED
      BY <3>2 DEF Promise!Next
  <2>4. ASSUME NEW b \in Bookings, OpenOrMove(b), Unmarked
        PROVE  Promise!Next
    <3>1. h' = h /\ status' = [status EXCEPT ![b] = status'[b]]
      BY <2>1, <2>4 DEF OpenOrMove
    <3>2. CASE status[b] = "NONE" /\ status'[b] = "PENDING"
      BY <2>4, <3>1, <3>2 DEF Promise!Next, Promise!Open, Promise!overlaps, Unmarked
    <3>3. CASE isTransitionAllowed(status[b], status'[b])
      <4>1. status'[b] \in Promise!BookingStatus
        BY <3>3 DEF isTransitionAllowed, BOOKING_TRANSITIONS, Promise!BookingStatus
      <4>2. Promise!isTransitionAllowed(status[b], status'[b])
        BY <3>3 DEF isTransitionAllowed, BOOKING_TRANSITIONS, Promise!isTransitionAllowed,
                    Promise!BOOKING_TRANSITIONS
      <4> QED
        BY <2>4, <3>1, <4>1, <4>2 DEF Promise!Next, Promise!Move, Promise!overlaps, Unmarked
    <3> QED
      BY <2>4, <3>2, <3>3 DEF OpenOrMove
  <2>5. ASSUME NEW b \in Bookings, HoldersMove(b), Unmarked
        PROVE  Promise!Next
    <3>1. status' = status /\ status[b] # "NONE" /\ UNCHANGED Promise!overlaps
      BY <2>5 DEF HoldersMove, Unmarked, Promise!overlaps
    <3>2. CASE HoldersOf(b) # {} /\ HoldersOf(b)' = {}
      <4>1. h' = [h EXCEPT ![b] = {}] /\ h[b] # {}
        BY <2>5, <3>2 DEF HoldersMove
      <4> QED
        BY <3>1, <4>1 DEF Promise!Next, Promise!Release
    <3>3. ASSUME NEW t \in Technicians, HoldersOf(b)' = {t}
          PROVE  Promise!Next
      <4>1. h' = [h EXCEPT ![b] = {t}]
        BY <2>5, <3>3 DEF HoldersMove
      <4> HIDE DEF h
      <4>2. CASE h[b] = {}
        BY <3>1, <4>1, <4>2 DEF Promise!Next, Promise!Give, h
      <4>3. CASE h[b] # {}
        BY <3>1, <4>1, <4>3 DEF Promise!Next, Promise!HandOver, h
      <4> QED
        BY <4>2, <4>3
    <3> QED
      BY <2>5, <3>2, <3>3 DEF HoldersMove
  <2>6. ASSUME NEW b \in Bookings, Lapses(b), Unmarked
        PROVE  Promise!Next
    <3>1. /\ status' = [status EXCEPT ![b] = status'[b]] /\ h' = [h EXCEPT ![b] = HoldersOf(b)']
          /\ h[b] = HoldersOf(b)
      BY <2>1, <2>6 DEF Lapses
    <3>2. HoldersOf(b)' \in SUBSET Technicians
      <4>1. \A i \in DOMAIN assignments' : assignments'[i].tech \in Technicians
        <5>1. TAKE i \in DOMAIN assignments'
        <5>2. assignments'[i] \in AssignmentRow
          BY <2>1, <5>1
        <5> QED
          BY <5>2 DEF AssignmentRow
      <4> QED
        BY <4>1 DEF HoldersOf, ActiveRows
    <3>3. /\ status'[b] \in Promise!BookingStatus
          /\ \A s, t : isTransitionAllowed(s, t) <=> Promise!isTransitionAllowed(s, t)
      BY <2>6 DEF Lapses, BookingStatus, Promise!BookingStatus, isTransitionAllowed,
                  BOOKING_TRANSITIONS, Promise!isTransitionAllowed, Promise!BOOKING_TRANSITIONS
    <3> HIDE DEF h
    <3>4. Promise!Lapse(b, status'[b], HoldersOf(b)')
      BY <2>6, <3>1, <3>3 DEF Lapses, Promise!Lapse, Promise!overlaps, Unmarked, h
    <3> QED
      BY <3>2, <3>3, <3>4 DEF Promise!Next
  <2> QED
    BY <2>1, <2>2, <2>3, <2>4, <2>5, <2>6 DEF PromiseEvent
<1>3. ApartInv /\ [Next]_vars => [Promise!Next]_v
  BY <1>2
<1> QED
  BY <1>1, <1>3, ApartHolds, PTL DEF Spec, KeepsPromise, Promise!Spec
=============================================================================
