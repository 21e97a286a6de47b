--------------------------- MODULE DispatchProofs ---------------------------
(***************************************************************************)
(* Proofs about Dispatch, for any number of bookings, technicians,         *)
(* assignment rows and concurrent requests.                                *)
(***************************************************************************)
EXTENDS Dispatch, FiniteSetTheorems, TLAPS

-----------------------------------------------------------------------------
(* What a request carries.                                                 *)

CreateReq == [op : {"create"}, b : Bookings, window : Window, needs : Nat \ {0},
              waived : BOOLEAN]
RescheduleReq == [op : {"reschedule"}, b : Bookings, window : Window]
StatusReq == [op : {"status"}, b : Bookings, next : Phase \ {"NONE"}]
AssignReq == [op : {"assign"}, b : Bookings, t : Technicians, checked : BOOLEAN]
ReassignReq == [op : {"reassign"}, i : Rows, b : Bookings, t : Technicians, checked : BOOLEAN]
AcceptReq == [op : {"accept"}, i : Rows, pending : BOOLEAN, b : Bookings, t : Technicians,
              checked : BOOLEAN]

Writing == CreateReq \cup RescheduleReq \cup StatusReq
Staffing == AssignReq \cup ReassignReq \cup AcceptReq
Snapshot == Writing \cup Staffing

\* A request that relies on what it saw of a technician's calendar.
Relies(s) == s.op \in {"assign", "reassign", "accept"} /\ s.checked

Typed ==
  /\ phase \in [Bookings -> Phase]
  /\ window \in [Bookings -> Window \cup {NoWindow}]
  /\ needs \in [Bookings -> Nat]
  /\ waived \subseteq Bookings
  /\ jobs \in [Rows -> Job \cup {Unused, Ended}]
  /\ available \in [Technicians -> BOOLEAN]
  /\ req \in [Requests -> Snapshot \cup {Idle}]
  /\ \A b \in Bookings : phase[b] # "NONE" => window[b] \in Window /\ needs[b] > 0
  /\ \A i \in Live : phase[jobs[i].b] # "NONE"
  /\ \A r \in Requests : req[r] # Idle => (req[r].op = "create" <=> phase[req[r].b] = "NONE")
  /\ \A q, r \in Requests :
       req[q].op = "create" /\ req[r].op = "create" /\ req[q].b = req[r].b => q = r

\* Every window, and every one about to be written, is long enough.
FitInv ==
  /\ \A b \in Bookings : phase[b] # "NONE" => window[b].end - window[b].start >= needs[b]
  /\ \A r \in Requests :
       LET s == req[r] IN
       /\ s.op = "create" => s.window.end - s.window.start >= s.needs
       /\ s.op = "reschedule" => s.window.end - s.window.start >= needs[s.b]

-----------------------------------------------------------------------------
(* Lemmas about rows and snapshots.                                        *)

LEMMA JobType ==
  /\ Unused # Ended
  /\ \A x \in Job : /\ x # Unused /\ x # Ended
                    /\ x.b \in Bookings /\ x.t \in Technicians /\ x.checked \in BOOLEAN
BY DEF Job, Unused, Ended

LEMMA WindowType ==
  \A w \in Window : /\ w.start \in Nat /\ w.end \in Nat /\ w.start < w.end
                    /\ w.end - w.start <= MaxLength
<1> SUFFICES ASSUME NEW w \in Window
             PROVE  /\ w.start \in Nat /\ w.end \in Nat /\ w.start < w.end
                    /\ w.end - w.start <= MaxLength
  OBVIOUS
<1>1. w.start \in Starts /\ w.end \in Nat /\ w.end - w.start \in 1..MaxLength
  BY DEF Window
<1>2. w.start \in Nat /\ MaxLength \in Nat
  BY <1>1, DispatchAssumption
<1> QED
  BY <1>1, <1>2

LEMMA SnapshotType ==
  /\ Idle.op = "idle"
  /\ \A s \in Snapshot : s # Idle /\ s.op # "idle" /\ s.b \in Bookings
  /\ \A s \in Snapshot : s.op = "create" => s \in CreateReq
  /\ \A s \in Snapshot : s.op = "reschedule" => s \in RescheduleReq
  /\ \A s \in Snapshot : s.op = "status" => s \in StatusReq
  /\ \A s \in Snapshot : s.op = "assign" => s \in AssignReq
  /\ \A s \in Snapshot : s.op = "reassign" => s \in ReassignReq
  /\ \A s \in Snapshot : s.op = "accept" => s \in AcceptReq
BY DEF Snapshot, Writing, Staffing, CreateReq, RescheduleReq, StatusReq, AssignReq,
       ReassignReq, AcceptReq, Idle

LEMMA StaffingType ==
  /\ \A s \in Staffing : /\ s.op \in {"assign", "reassign", "accept"}
                         /\ s.t \in Technicians /\ s.checked \in BOOLEAN /\ s.b \in Bookings
  /\ \A s \in Snapshot : s.op \in {"assign", "reassign", "accept"} => s \in Staffing
  /\ \A s \in Writing : s.op \in {"create", "reschedule", "status"}
BY DEF Snapshot, Writing, Staffing, CreateReq, RescheduleReq, StatusReq, AssignReq,
       ReassignReq, AcceptReq

\* Unchecking a request changes nothing else of it.
LEMMA UncheckType ==
  ASSUME NEW s \in Staffing
  PROVE  LET q == [s EXCEPT !.checked = FALSE] IN
         /\ q \in Staffing /\ q.op = s.op /\ q.b = s.b /\ q.t = s.t /\ ~q.checked
         /\ s.op \in {"reassign", "accept"} => q.i = s.i
         /\ s.op = "accept" => q.pending = s.pending
         /\ "checked" \in DOMAIN s /\ "t" \in DOMAIN s
<1>1. CASE s \in AssignReq
  BY <1>1 DEF Staffing, AssignReq
<1>2. CASE s \in ReassignReq
  BY <1>2 DEF Staffing, ReassignReq
<1>3. CASE s \in AcceptReq
  BY <1>3 DEF Staffing, AcceptReq
<1> QED
  BY <1>1, <1>2, <1>3 DEF Staffing

LEMMA WritingDomain ==
  \A s \in Writing \cup {Idle} : "checked" \notin DOMAIN s /\ "t" \notin DOMAIN s
BY DEF Writing, CreateReq, RescheduleReq, StatusReq, Idle

LEMMA JobDomain ==
  /\ \A x \in Job : "t" \in DOMAIN x
  /\ "t" \notin DOMAIN Unused /\ "t" \notin DOMAIN Ended
BY DEF Job, Unused, Ended

\* What unchecking leaves alone.
Keeps(q, s) ==
  /\ q \in Snapshot \cup {Idle} /\ q.op = s.op
  /\ s = Idle => q = Idle
  /\ s # Idle => q # Idle /\ q.b = s.b
  /\ s.op \in {"create", "reschedule", "status"} => q = s
  /\ s.op \in {"assign", "reassign", "accept"} => q.t = s.t
  /\ s.op \in {"reassign", "accept"} => q.i = s.i
  /\ s.op = "accept" => q.pending = s.pending
  /\ Relies(q) => Relies(s)

LEMMA KeepsItself == \A s \in Snapshot \cup {Idle} : Keeps(s, s)
BY SnapshotType DEF Keeps

LEMMA UncheckKeeps ==
  ASSUME NEW s \in Staffing
  PROVE  Keeps([s EXCEPT !.checked = FALSE], s) /\ ~Relies([s EXCEPT !.checked = FALSE])
<1> DEFINE q == [s EXCEPT !.checked = FALSE]
<1>1. /\ q \in Staffing /\ q.op = s.op /\ q.b = s.b /\ q.t = s.t /\ ~q.checked
      /\ s.op \in {"reassign", "accept"} => q.i = s.i
      /\ s.op = "accept" => q.pending = s.pending
  BY UncheckType
<1>2. q \in Snapshot /\ s \in Snapshot
  BY <1>1 DEF Snapshot
<1> HIDE DEF q
<1>3. Keeps(q, s)
  BY <1>1, <1>2, SnapshotType, StaffingType DEF Keeps, Relies
<1> QED
  BY <1>1, <1>3 DEF q, Relies

LEMMA RacedType ==
  ASSUME NEW s \in Snapshot \cup {Idle}
  PROVE  Keeps(Raced(s), s) /\ ~Relies(Raced(s))
<1>1. CASE s \in Staffing
  BY <1>1, UncheckType, UncheckKeeps DEF Raced
<1>2. CASE s \in Writing \cup {Idle}
  BY <1>2, WritingDomain, KeepsItself, StaffingType, SnapshotType DEF Raced, Relies
<1> QED
  BY <1>1, <1>2 DEF Snapshot

LEMMA OutdatedType ==
  ASSUME NEW s \in Snapshot \cup {Idle}, NEW b \in Bookings
  PROVE  Keeps(Outdated(s, b), s)
<1>1. CASE s \in Staffing
  BY <1>1, UncheckKeeps, KeepsItself DEF Outdated
<1>2. CASE s \in Writing \cup {Idle}
  BY <1>2, WritingDomain, KeepsItself DEF Outdated
<1> QED
  BY <1>1, <1>2 DEF Snapshot

LEMMA OutdatedJob ==
  ASSUME NEW x \in Job \cup {Unused, Ended}, NEW b \in Bookings
  PROVE  /\ Outdated(x, b) \in Job \cup {Unused, Ended}
         /\ Outdated(x, b) \in {Unused, Ended} => Outdated(x, b) = x
         /\ x \in {Unused, Ended} => Outdated(x, b) = x
         /\ x \in Job => /\ Outdated(x, b).b = x.b /\ Outdated(x, b).t = x.t
                         /\ Outdated(x, b).checked => x.checked /\ x.b # b
<1>1. CASE x \in Job
  <2>1. [x EXCEPT !.checked = FALSE] \in Job
    BY <1>1 DEF Job
  <2> QED
    BY <1>1, <2>1, JobType, JobDomain DEF Outdated, Job
<1>2. CASE x \in {Unused, Ended}
  BY <1>2, JobType, JobDomain DEF Outdated
<1> QED
  BY <1>1, <1>2

\* A request begins: those that were under way no longer rely on what they saw.
LEMMA HoldType ==
  ASSUME Typed, NEW r \in Requests, NEW s \in Snapshot, Hold(r, s)
  PROVE  /\ req' \in [Requests -> Snapshot \cup {Idle}]
         /\ Keeps(req'[r], s)
         /\ req[r] = Idle
         /\ \A q \in Requests \ {r} : Keeps(req'[q], req[q]) /\ ~Relies(req'[q])
         /\ InFlight = {} => req'[r] = s
         /\ InFlight # {} => ~Relies(req'[r])
<1>1. /\ req \in [Requests -> Snapshot \cup {Idle}] /\ req[r] = Idle
      /\ req' = [q \in Requests |-> IF q = r /\ InFlight = {} THEN s
                                    ELSE Raced(IF q = r THEN s ELSE req[q])]
  BY DEF Typed, Hold
<1>2. Keeps(s, s) /\ Keeps(Raced(s), s) /\ ~Relies(Raced(s))
  BY KeepsItself, RacedType
<1>3. \A q \in Requests : Keeps(Raced(req[q]), req[q]) /\ ~Relies(Raced(req[q]))
  BY <1>1, RacedType
<1>4. \A q \in Requests : req'[q] \in Snapshot \cup {Idle}
  BY <1>1, <1>2, <1>3 DEF Keeps
<1> QED
  BY <1>1, <1>2, <1>3, <1>4

LEMMA DoneType ==
  ASSUME Typed, NEW r \in Requests, Done(r)
  PROVE  /\ req' \in [Requests -> Snapshot \cup {Idle}]
         /\ req'[r] = Idle
         /\ \A q \in Requests \ {r} : req'[q] = req[q]
BY DEF Typed, Done

-----------------------------------------------------------------------------
(* Types, and windows that fit.                                            *)

Base == Typed /\ FitInv

\* What a request has seen when it begins.
Sees(s) ==
  /\ s.op = "create" <=> phase[s.b] = "NONE"
  /\ s.op = "create" =>
       /\ \A q \in Requests : req[q].op = "create" => req[q].b # s.b
       /\ s.window.end - s.window.start >= s.needs
       /\ s.waived \/ slotIsFree(s.window, {})
  /\ s.op = "reschedule" =>
       /\ s.window.end - s.window.start >= needs[s.b]
       /\ slotIsFree(s.window, {s.b})
  /\ s.op = "status" => phase[s.b] = "ACTIVE"
  /\ s.op \in {"assign", "reassign"} /\ s.checked => hasRoom(s.t, window[s.b])
  /\ s.op = "accept" =>
       /\ s.i \in Live /\ jobs[s.i].b = s.b /\ jobs[s.i].t = s.t
       /\ jobs[s.i].checked = s.checked
       /\ s.pending => phase[s.b] = "ACTIVE"

LEMMA BeginHolds ==
  ASSUME Base, NEW r \in Requests, Begin(r)
  PROVE  \E s \in Snapshot : Hold(r, s) /\ Sees(s)
<1> USE DEF Base
<1>1. /\ phase \in [Bookings -> Phase] /\ window \in [Bookings -> Window \cup {NoWindow}]
      /\ needs \in [Bookings -> Nat]
      /\ \A b \in Bookings : phase[b] # "NONE" => window[b] \in Window
      /\ \A i \in Live : jobs[i] \in Job /\ phase[jobs[i].b] # "NONE"
  BY DEF Typed, Live
<1>2. ASSUME NEW b \in Bookings, NEW start \in Starts, NEW minutes \in Durations,
             NEW admin \in BOOLEAN, BeginCreate(r, b, start, minutes, admin)
      PROVE  \E s \in Snapshot : Hold(r, s) /\ Sees(s)
  <2> DEFINE w == resolveWindow(start, minutes)
             s == [op |-> "create", b |-> b, window |-> w, needs |-> minutes + SLOT_BUFFER,
                   waived |-> admin]
  <2>1. /\ start \in Nat /\ minutes \in Nat \ {0} /\ SLOT_BUFFER \in Nat /\ MaxLength \in Nat
        /\ minutes + SLOT_BUFFER <= MaxLength
    BY DispatchAssumption
  <2>2. minutes + SLOT_BUFFER \in Nat \ {0} /\ start + minutes + SLOT_BUFFER \in Nat
        /\ (start + minutes + SLOT_BUFFER) - start = minutes + SLOT_BUFFER
        /\ minutes + SLOT_BUFFER \in 1..MaxLength
    BY <2>1
  <2>3. w \in Window /\ w.end - w.start = minutes + SLOT_BUFFER
    BY <2>2 DEF resolveWindow, Window
  <2>4. /\ s \in CreateReq /\ s.op = "create" /\ s.b = b /\ s.needs = minutes + SLOT_BUFFER
        /\ s.window = w /\ s.waived = admin
    BY <2>2, <2>3 DEF CreateReq
  <2>5. /\ Hold(r, s) /\ phase[b] = "NONE" /\ (admin \/ slotIsFree(w, {}))
        /\ \A q \in Requests : req[q].op = "create" => req[q].b # b
    BY <1>2 DEF BeginCreate
  <2>6. s.window.end - s.window.start >= s.needs
    BY <2>2, <2>3, <2>4
  <2> HIDE DEF s, w
  <2> QED
    BY <2>4, <2>5, <2>6 DEF Sees, Snapshot, Writing
<1>3. ASSUME NEW b \in Bookings, NEW start \in Starts, BeginReschedule(r, b, start)
      PROVE  \E s \in Snapshot : Hold(r, s) /\ Sees(s)
  <2> DEFINE n == window[b].end - window[b].start
             w == resolveWindow(start, n)
             s == [op |-> "reschedule", b |-> b, window |-> w]
  <2>1. /\ phase[b] # "NONE" /\ Hold(r, s) /\ w.end - w.start <= MaxLength
        /\ w.start = start /\ w.end = start + n + SLOT_BUFFER /\ slotIsFree(w, {b})
    BY <1>3 DEF BeginReschedule, resolveWindow
  <2>2. /\ start \in Nat /\ SLOT_BUFFER \in Nat /\ MaxLength \in Nat
        /\ n \in Nat \ {0} /\ n >= needs[b] /\ needs[b] \in Nat
    BY <1>1, <2>1, WindowType, DispatchAssumption DEF FitInv
  <2> HIDE DEF n
  <2>3. w.end \in Nat /\ w.end - w.start \in 1..MaxLength /\ w.end - w.start >= needs[b]
    BY <2>1, <2>2
  <2>4. w \in Window
    BY <2>3 DEF resolveWindow, Window
  <2>5. s \in RescheduleReq /\ s.op = "reschedule" /\ s.b = b /\ s.window = w
    BY <2>4 DEF RescheduleReq
  <2> HIDE DEF s, w
  <2> QED
    BY <2>1, <2>3, <2>5 DEF Sees, Snapshot, Writing
<1>4. ASSUME NEW b \in Bookings, NEW next \in Phase, BeginStatus(r, b, next)
      PROVE  \E s \in Snapshot : Hold(r, s) /\ Sees(s)
  <2> DEFINE s == [op |-> "status", b |-> b, next |-> next]
  <2>1. s \in StatusReq /\ s.op = "status" /\ s.b = b /\ Hold(r, s) /\ phase[b] = "ACTIVE"
    BY <1>4 DEF BeginStatus, StatusReq
  <2> HIDE DEF s
  <2> QED
    BY <2>1 DEF Sees, Snapshot, Writing
<1>5. ASSUME NEW i \in Rows, NEW pending \in BOOLEAN, BeginAccept(r, i, pending)
      PROVE  \E s \in Snapshot : Hold(r, s) /\ Sees(s)
  <2> DEFINE s == [op |-> "accept", i |-> i, pending |-> pending, b |-> jobs[i].b,
                   t |-> jobs[i].t, checked |-> jobs[i].checked]
  <2>1. i \in Live /\ Hold(r, s) /\ (pending => phase[jobs[i].b] = "ACTIVE")
    BY <1>5 DEF BeginAccept
  <2>2. /\ s \in AcceptReq /\ s.op = "accept" /\ s.i = i /\ s.pending = pending
        /\ s.b = jobs[i].b /\ s.t = jobs[i].t /\ s.checked = jobs[i].checked
    BY <1>1, <2>1, JobType DEF AcceptReq
  <2> HIDE DEF s
  <2> QED
    BY <1>1, <2>1, <2>2 DEF Sees, Snapshot, Staffing
<1>6. ASSUME NEW t \in Technicians, NEW auto \in BOOLEAN, NEW override \in BOOLEAN,
             NEW b \in Bookings, BeginAssign(r, b, t, auto, override)
      PROVE  \E s \in Snapshot : Hold(r, s) /\ Sees(s)
  <2> DEFINE s == [op |-> "assign", b |-> b, t |-> t, checked |-> auto \/ ~override]
  <2>1. /\ s \in AssignReq /\ s.op = "assign" /\ s.b = b /\ s.t = t
        /\ s.checked = (auto \/ ~override) /\ Hold(r, s) /\ phase[b] # "NONE"
    BY <1>6 DEF BeginAssign, AssignReq
  <2>2. auto \/ ~override => hasRoom(t, window[b])
    BY <1>6 DEF BeginAssign, mayTake
  <2> HIDE DEF s
  <2> QED
    BY <2>1, <2>2 DEF Sees, Snapshot, Staffing
<1>7. ASSUME NEW t \in Technicians, NEW auto \in BOOLEAN, NEW override \in BOOLEAN,
             NEW i \in Rows, BeginReassign(r, i, t, auto, override)
      PROVE  \E s \in Snapshot : Hold(r, s) /\ Sees(s)
  <2> DEFINE s == [op |-> "reassign", i |-> i, b |-> jobs[i].b, t |-> t,
                   checked |-> auto \/ ~override]
  <2>1. i \in Live /\ Hold(r, s)
    BY <1>7 DEF BeginReassign
  <2>2. /\ s \in ReassignReq /\ s.op = "reassign" /\ s.b = jobs[i].b /\ s.t = t
        /\ s.checked = (auto \/ ~override)
    BY <1>1, <2>1, JobType DEF ReassignReq
  <2>3. auto \/ ~override => hasRoom(t, window[jobs[i].b])
    BY <1>7 DEF BeginReassign, mayTake
  <2> HIDE DEF s
  <2> QED
    BY <1>1, <2>1, <2>2, <2>3 DEF Sees, Snapshot, Staffing
<1> QED
  BY <1>2, <1>3, <1>4, <1>5, <1>6, <1>7 DEF Begin

\* The request is about a booking in the right phase.
LEMMA HoldBase ==
  ASSUME Base, NEW r \in Requests, NEW s \in Snapshot, Hold(r, s), Sees(s)
  PROVE  Base'
<1> USE DEF Base, Sees
<1>1. UNCHANGED <<phase, window, needs, waived, jobs, available>>
  BY DEF Hold, calendar
<1>2. /\ req' \in [Requests -> Snapshot \cup {Idle}]
      /\ Keeps(req'[r], s)
      /\ \A q \in Requests \ {r} : Keeps(req'[q], req[q])
  BY HoldType
<1>3. s # Idle /\ \A q \in Requests : req[q] \in Snapshot \cup {Idle}
  BY SnapshotType DEF Typed
<1>4. Typed'
  <2>1. Live' = Live
    BY <1>1 DEF Live
  <2>2. \A q \in Requests :
          req'[q] # Idle => (req'[q].op = "create" <=> phase[req'[q].b] = "NONE")
    BY <1>2, <1>3 DEF Keeps, Typed
  <2>3. ASSUME NEW p \in Requests, NEW q \in Requests,
               req'[p].op = "create", req'[q].op = "create", req'[p].b = req'[q].b
        PROVE  p = q
    BY <1>2, <1>3, <2>3, SnapshotType DEF Keeps, Typed
  <2> QED
    BY <1>1, <1>2, <2>1, <2>2, <2>3 DEF Typed
<1>5. FitInv'
  <2>1. ASSUME NEW q \in Requests
        PROVE  /\ req'[q].op = "create" => req'[q].window.end - req'[q].window.start >= req'[q].needs
               /\ req'[q].op = "reschedule" =>
                    req'[q].window.end - req'[q].window.start >= needs[req'[q].b]
    BY <1>2, <1>3 DEF Keeps, FitInv
  <2> QED
    BY <1>1, <2>1 DEF FitInv
<1> QED
  BY <1>4, <1>5

\* A request ends and what it writes is in order.
LEMMA EndBase ==
  ASSUME Base, NEW r \in Requests,
         phase' \in [Bookings -> Phase],
         window' \in [Bookings -> Window \cup {NoWindow}],
         needs' \in [Bookings -> Nat],
         waived' \subseteq Bookings,
         jobs' \in [Rows -> Job \cup {Unused, Ended}],
         available' \in [Technicians -> BOOLEAN],
         req' \in [Requests -> Snapshot \cup {Idle}],
         req'[r] = Idle,
         \A q \in Requests \ {r} : Keeps(req'[q], req[q]),
         \A b \in Bookings : phase'[b] = "NONE" => phase[b] = "NONE",
         \A b \in Bookings : phase[b] = "NONE" =>
           phase'[b] = "NONE" \/ (req[r].op = "create" /\ req[r].b = b),
         \A b \in Bookings : phase'[b] # "NONE" =>
           /\ window'[b] \in Window /\ needs'[b] > 0
           /\ window'[b].end - window'[b].start >= needs'[b],
         \A b \in Bookings : phase[b] # "NONE" => needs'[b] = needs[b],
         \A i \in Live' : phase'[jobs'[i].b] # "NONE"
  PROVE  Base'
<1> USE DEF Base
<1>1. \A q \in Requests : req[q] \in Snapshot \cup {Idle}
  BY DEF Typed
<1>2. Typed'
  <2>1. ASSUME NEW q \in Requests, req'[q] # Idle
        PROVE  req'[q].op = "create" <=> phase'[req'[q].b] = "NONE"
    <3>1. /\ q # r /\ req[q] # Idle /\ req'[q].op = req[q].op /\ req'[q].b = req[q].b
          /\ req[q].b \in Bookings
      BY <1>1, <2>1, SnapshotType DEF Keeps
    <3>2. req[q].op = "create" <=> phase[req[q].b] = "NONE"
      BY <3>1 DEF Typed
    <3>3. ~(req[q].op = "create" /\ req[r].op = "create" /\ req[r].b = req[q].b)
      BY <3>1 DEF Typed
    <3> QED
      BY <3>1, <3>2, <3>3
  <2>2. ASSUME NEW p \in Requests, NEW q \in Requests,
               req'[p].op = "create", req'[q].op = "create", req'[p].b = req'[q].b
        PROVE  p = q
    BY <1>1, <2>2, SnapshotType DEF Keeps, Typed
  <2> QED
    BY <2>1, <2>2 DEF Typed
<1>3. FitInv'
  <2>1. ASSUME NEW q \in Requests, q # r
        PROVE  /\ req'[q].op = "create" =>
                    req'[q].window.end - req'[q].window.start >= req'[q].needs
               /\ req'[q].op = "reschedule" =>
                    req'[q].window.end - req'[q].window.start >= needs'[req'[q].b]
    <3>1. req'[q].op = req[q].op /\ (req[q].op \in {"create", "reschedule"} => req'[q] = req[q])
      BY <2>1 DEF Keeps
    <3>2. CASE req[q].op = "create"
      BY <3>1, <3>2 DEF FitInv
    <3>3. CASE req[q].op = "reschedule"
      <4>1. phase[req[q].b] # "NONE" /\ req[q].b \in Bookings
        BY <1>1, <3>3, SnapshotType DEF Typed
      <4> QED
        BY <3>1, <3>3, <4>1 DEF FitInv
    <3> QED
      BY <3>1, <3>2, <3>3
  <2> QED
    BY <2>1, SnapshotType DEF FitInv
<1> QED
  BY <1>2, <1>3

LEMMA CommitCalendarBase ==
  ASSUME Base, NEW r \in Requests,
         CommitCreate(r) \/ CommitReschedule(r) \/ CommitStatus(r) \/ Abandon(r)
  PROVE  Base'
<1> USE DEF Base
<1> DEFINE s == req[r]
<1>1. /\ req \in [Requests -> Snapshot \cup {Idle}]
      /\ phase \in [Bookings -> Phase] /\ window \in [Bookings -> Window \cup {NoWindow}]
      /\ needs \in [Bookings -> Nat] /\ jobs \in [Rows -> Job \cup {Unused, Ended}]
      /\ available \in [Technicians -> BOOLEAN] /\ waived \subseteq Bookings
      /\ \A b \in Bookings : phase[b] # "NONE" => window[b] \in Window /\ needs[b] > 0
      /\ \A i \in Live : jobs[i] \in Job /\ phase[jobs[i].b] # "NONE"
      /\ \A q \in Requests : Keeps(req[q], req[q])
  BY KeepsItself DEF Typed, Live
<1>2. CASE CommitCreate(r)
  <2>1. /\ s \in CreateReq /\ s.op = "create" /\ s.b \in Bookings /\ phase[s.b] = "NONE"
        /\ s.window \in Window /\ s.needs \in Nat \ {0}
        /\ s.window.end - s.window.start >= s.needs
    BY <1>1, <1>2, SnapshotType DEF CommitCreate, Typed, FitInv, CreateReq
  <2>2. /\ phase' = [phase EXCEPT ![s.b] = "ACTIVE"]
        /\ window' = [window EXCEPT ![s.b] = s.window]
        /\ needs' = [needs EXCEPT ![s.b] = s.needs]
        /\ waived' \subseteq Bookings
        /\ Done(r) /\ UNCHANGED <<jobs, available>>
    BY <1>1, <1>2, <2>1 DEF CommitCreate
  <2>3. /\ phase' \in [Bookings -> Phase] /\ window' \in [Bookings -> Window \cup {NoWindow}]
        /\ needs' \in [Bookings -> Nat]
    BY <1>1, <2>1, <2>2 DEF Phase
  <2>4. /\ req' \in [Requests -> Snapshot \cup {Idle}] /\ req'[r] = Idle
        /\ \A q \in Requests \ {r} : Keeps(req'[q], req[q])
    BY <1>1, <2>2, DoneType
  <2>5. \A b \in Bookings :
          /\ phase'[b] = "NONE" => phase[b] = "NONE"
          /\ phase[b] = "NONE" => phase'[b] = "NONE" \/ (s.op = "create" /\ s.b = b)
    BY <1>1, <2>1, <2>2
  <2>6. \A b \in Bookings : phase'[b] # "NONE" =>
           /\ window'[b] \in Window /\ needs'[b] > 0
           /\ window'[b].end - window'[b].start >= needs'[b]
    BY <1>1, <2>1, <2>2 DEF FitInv
  <2>7. \A i \in Live' : phase'[jobs'[i].b] # "NONE"
    BY <1>1, <2>2 DEF Live
  <2>8. \A b \in Bookings : phase[b] # "NONE" => needs'[b] = needs[b]
    BY <1>1, <2>1, <2>2
  <2> HIDE DEF s
  <2> QED
    BY <1>1, <2>2, <2>3, <2>4, <2>5, <2>6, <2>7, <2>8, EndBase DEF s
<1>3. CASE CommitReschedule(r)
  <2>1. /\ s \in RescheduleReq /\ s.op = "reschedule" /\ s.b \in Bookings
        /\ phase[s.b] # "NONE" /\ s.window \in Window
        /\ s.window.end - s.window.start >= needs[s.b]
    BY <1>1, <1>3, SnapshotType DEF CommitReschedule, Typed, FitInv, RescheduleReq
  <2>2. /\ window' = [window EXCEPT ![s.b] = s.window]
        /\ waived' \subseteq Bookings
        /\ jobs' = [i \in Rows |-> Outdated(jobs[i], s.b)]
        /\ req' = [q \in Requests |-> IF q = r THEN Idle ELSE Outdated(req[q], s.b)]
        /\ UNCHANGED <<phase, needs, available>>
    BY <1>1, <1>3 DEF CommitReschedule
  <2>3. window' \in [Bookings -> Window \cup {NoWindow}]
    BY <1>1, <2>1, <2>2
  <2>4. /\ jobs' \in [Rows -> Job \cup {Unused, Ended}]
        /\ \A i \in Live' : i \in Live /\ jobs'[i].b = jobs[i].b
    <3>1. \A i \in Rows : /\ jobs'[i] \in Job \cup {Unused, Ended}
                          /\ jobs[i] \in {Unused, Ended} => jobs'[i] = jobs[i]
                          /\ jobs[i] \in Job => jobs'[i].b = jobs[i].b
      BY <1>1, <2>1, <2>2, OutdatedJob
    <3>2. jobs' \in [Rows -> Job \cup {Unused, Ended}]
      BY <2>2, <3>1
    <3> QED
      BY <1>1, <3>1, <3>2, JobType DEF Live
  <2>5. \A q \in Requests : Keeps(Outdated(req[q], s.b), req[q])
    BY <1>1, <2>1, OutdatedType
  <2>6. /\ req' \in [Requests -> Snapshot \cup {Idle}] /\ req'[r] = Idle
        /\ \A q \in Requests \ {r} : Keeps(req'[q], req[q])
    BY <2>2, <2>5 DEF Keeps
  <2>7. \A b \in Bookings : phase'[b] # "NONE" =>
           /\ window'[b] \in Window /\ needs'[b] > 0
           /\ window'[b].end - window'[b].start >= needs'[b]
    BY <1>1, <2>1, <2>2 DEF FitInv
  <2>8. \A i \in Live' : phase'[jobs'[i].b] # "NONE"
    BY <1>1, <2>2, <2>4
  <2>9. s.op # "create"
    BY <2>1
  <2> HIDE DEF s
  <2> QED
    BY <1>1, <2>2, <2>3, <2>4, <2>6, <2>7, <2>8, <2>9, EndBase DEF s
<1>4. CASE CommitStatus(r)
  <2>1. /\ s \in StatusReq /\ s.op = "status" /\ s.b \in Bookings
        /\ phase[s.b] # "NONE" /\ s.next \in Phase \ {"NONE"}
    BY <1>1, <1>4, SnapshotType DEF CommitStatus, Typed, StatusReq
  <2>2. /\ phase' = [phase EXCEPT ![s.b] = s.next] /\ Done(r)
        /\ UNCHANGED <<window, needs, waived, jobs, available>>
    BY <1>4 DEF CommitStatus
  <2>3. /\ phase' \in [Bookings -> Phase]
        /\ \A b \in Bookings : phase'[b] = "NONE" <=> phase[b] = "NONE"
    BY <1>1, <2>1, <2>2
  <2>4. /\ req' \in [Requests -> Snapshot \cup {Idle}] /\ req'[r] = Idle
        /\ \A q \in Requests \ {r} : Keeps(req'[q], req[q])
    BY <1>1, <2>2, DoneType
  <2>5. \A b \in Bookings : phase'[b] # "NONE" =>
           /\ window'[b] \in Window /\ needs'[b] > 0
           /\ window'[b].end - window'[b].start >= needs'[b]
    BY <1>1, <2>2, <2>3 DEF FitInv
  <2>6. \A i \in Live' : phase'[jobs'[i].b] # "NONE"
    BY <1>1, <2>2, <2>3, JobType DEF Live
  <2>7. s.op # "create"
    BY <2>1
  <2> HIDE DEF s
  <2> QED
    BY <1>1, <2>2, <2>3, <2>4, <2>5, <2>6, <2>7, EndBase DEF s
<1>5. CASE Abandon(r)
  <2>1. Done(r) /\ UNCHANGED <<phase, window, needs, waived, jobs, available>>
    BY <1>5 DEF Abandon, calendar
  <2>2. /\ req' \in [Requests -> Snapshot \cup {Idle}] /\ req'[r] = Idle
        /\ \A q \in Requests \ {r} : Keeps(req'[q], req[q])
    BY <1>1, <2>1, DoneType
  <2>3. \A b \in Bookings : phase'[b] # "NONE" =>
           /\ window'[b] \in Window /\ needs'[b] > 0
           /\ window'[b].end - window'[b].start >= needs'[b]
    BY <1>1, <2>1 DEF FitInv
  <2>4. \A i \in Live' : phase'[jobs'[i].b] # "NONE"
    BY <1>1, <2>1 DEF Live
  <2> HIDE DEF s
  <2> QED
    BY <1>1, <1>5, <2>1, <2>2, <2>3, <2>4, EndBase DEF s
<1> QED
  BY <1>2, <1>3, <1>4, <1>5

LEMMA CommitJobsBase ==
  ASSUME Base, NEW r \in Requests, CommitAssign(r) \/ CommitReassign(r) \/ CommitAccept(r)
  PROVE  Base'
<1> USE DEF Base
<1> DEFINE s == req[r]
<1>1. /\ req \in [Requests -> Snapshot \cup {Idle}]
      /\ phase \in [Bookings -> Phase] /\ window \in [Bookings -> Window \cup {NoWindow}]
      /\ needs \in [Bookings -> Nat] /\ jobs \in [Rows -> Job \cup {Unused, Ended}]
      /\ available \in [Technicians -> BOOLEAN] /\ waived \subseteq Bookings
      /\ \A b \in Bookings : phase[b] # "NONE" => window[b] \in Window /\ needs[b] > 0
      /\ \A i \in Live : jobs[i] \in Job /\ phase[jobs[i].b] # "NONE"
      /\ \A q \in Requests : Keeps(req[q], req[q])
      /\ \A b \in Bookings : phase[b] # "NONE" => window[b].end - window[b].start >= needs[b]
  BY KeepsItself DEF Typed, Live, FitInv
<1>2. /\ s \in Staffing /\ s.op # "create" /\ s.b \in Bookings /\ phase[s.b] # "NONE"
      /\ s.op \in {"reassign", "accept"} => s.i \in Rows
  BY <1>1, SnapshotType, StaffingType
     DEF CommitAssign, CommitReassign, CommitAccept, Typed, ReassignReq, AcceptReq
<1>3. NewJob(s) \in Job /\ NewJob(s).b = s.b
  BY <1>2, StaffingType DEF NewJob, Job
<1>4. Done(r) /\ UNCHANGED <<window, needs, waived, available>>
  BY DEF CommitAssign, CommitReassign, CommitAccept, calendar
<1>5. /\ req' \in [Requests -> Snapshot \cup {Idle}] /\ req'[r] = Idle
      /\ \A q \in Requests \ {r} : Keeps(req'[q], req[q])
  BY <1>1, <1>4, DoneType
<1>6. /\ phase' \in [Bookings -> Phase]
      /\ \A b \in Bookings : phase'[b] = "NONE" <=> phase[b] = "NONE"
  BY <1>1, <1>2 DEF CommitAssign, CommitReassign, CommitAccept, calendar, Phase
<1>7. /\ jobs' \in [Rows -> Job \cup {Unused, Ended}]
      /\ \A i \in Rows : jobs'[i] \in {jobs[i], Ended, NewJob(s)}
  <2>1. CASE CommitAssign(r)
    BY <1>1, <1>3, <2>1 DEF CommitAssign
  <2>2. CASE CommitReassign(r)
    BY <1>1, <1>2, <1>3, <2>2 DEF CommitReassign
  <2>3. CASE CommitAccept(r)
    BY <1>1, <1>2, <1>3, <2>3 DEF CommitAccept
  <2> QED
    BY <2>1, <2>2, <2>3
<1>8. \A i \in Live' : phase'[jobs'[i].b] # "NONE"
  <2> SUFFICES ASSUME NEW i \in Live'
               PROVE  phase'[jobs'[i].b] # "NONE"
    OBVIOUS
  <2>1. i \in Rows /\ jobs'[i] \notin {Unused, Ended}
    BY DEF Live
  <2>2. CASE jobs'[i] = NewJob(s)
    BY <1>2, <1>3, <1>6, <2>2
  <2>3. CASE jobs'[i] = jobs[i]
    <3>1. i \in Live /\ jobs[i].b \in Bookings
      BY <1>1, <2>1, <2>3, JobType DEF Live
    <3> QED
      BY <1>1, <1>6, <2>3, <3>1
  <2> QED
    BY <1>7, <2>1, <2>2, <2>3
<1>9. \A b \in Bookings : phase'[b] # "NONE" =>
        /\ window'[b] \in Window /\ needs'[b] > 0
        /\ window'[b].end - window'[b].start >= needs'[b]
  BY <1>1, <1>4, <1>6
<1> HIDE DEF s
<1> QED
  BY <1>1, <1>4, <1>5, <1>6, <1>7, <1>8, <1>9, EndBase DEF s

LEMMA DirectBase ==
  ASSUME Base,
         \/ \E b \in Bookings, start \in Starts : GenerateVisit(b, start)
         \/ \E t \in Technicians, is \in BOOLEAN : SetAvailability(t, is)
         \/ \E i \in Rows : Release(i)
  PROVE  Base'
<1> USE DEF Base
<1>1. /\ req \in [Requests -> Snapshot \cup {Idle}]
      /\ phase \in [Bookings -> Phase] /\ window \in [Bookings -> Window \cup {NoWindow}]
      /\ needs \in [Bookings -> Nat] /\ jobs \in [Rows -> Job \cup {Unused, Ended}]
      /\ \A i \in Live : jobs[i] \in Job /\ phase[jobs[i].b] # "NONE"
      /\ \A q \in Requests : req[q] # Idle => req[q].b \in Bookings
  BY SnapshotType DEF Typed, Live
<1>2. ASSUME NEW b \in Bookings, NEW start \in Starts, GenerateVisit(b, start)
      PROVE  Base'
  <2> DEFINE w == [start |-> start, end |-> start + VISIT_DURATION]
  <2>1. w \in Window /\ w.end - w.start >= VISIT_DURATION /\ VISIT_DURATION \in Nat \ {0}
    <3>1. /\ start \in Nat /\ VISIT_DURATION \in Nat \ {0} /\ MaxLength \in Nat
          /\ VISIT_DURATION <= MaxLength
      BY DispatchAssumption
    <3>2. (start + VISIT_DURATION) - start \in 1..MaxLength /\ start + VISIT_DURATION \in Nat
          /\ (start + VISIT_DURATION) - start >= VISIT_DURATION
      BY <3>1
    <3> QED
      BY <3>1, <3>2 DEF Window
  <2>2. /\ phase[b] = "NONE" /\ \A q \in Requests : req[q].op = "create" => req[q].b # b
        /\ phase' = [phase EXCEPT ![b] = "ACTIVE"] /\ window' = [window EXCEPT ![b] = w]
        /\ needs' = [needs EXCEPT ![b] = VISIT_DURATION] /\ waived' = waived \cup {b}
        /\ UNCHANGED <<jobs, available, req>>
    BY <1>2 DEF GenerateVisit
  <2> HIDE DEF w
  <2>3. /\ phase' \in [Bookings -> Phase] /\ window' \in [Bookings -> Window \cup {NoWindow}]
        /\ needs' \in [Bookings -> Nat] /\ Live' = Live
    BY <1>1, <2>1, <2>2 DEF Phase, Live
  <2>4. Typed'
    <3>1. \A q \in Requests : req'[q] # Idle => (req'[q].op = "create" <=> phase'[req'[q].b] = "NONE")
      BY <1>1, <2>2 DEF Typed
    <3>2. \A c \in Bookings : phase'[c] # "NONE" => window'[c] \in Window /\ needs'[c] > 0
      BY <1>1, <2>1, <2>2 DEF Typed
    <3>3. \A i \in Live' : phase'[jobs'[i].b] # "NONE"
      BY <1>1, <2>2, <2>3
    <3> QED
      BY <2>2, <2>3, <3>1, <3>2, <3>3 DEF Typed
  <2>5. FitInv'
    <3>1. \A c \in Bookings : phase'[c] # "NONE" => window'[c].end - window'[c].start >= needs'[c]
      BY <1>1, <2>1, <2>2 DEF FitInv
    <3>2. \A q \in Requests : req[q].op = "reschedule" => req[q].b # b
      BY <2>2, SnapshotType DEF Typed
    <3> QED
      BY <1>1, <2>2, <3>1, <3>2, SnapshotType DEF FitInv
  <2> QED
    BY <2>4, <2>5
<1>3. ASSUME NEW t \in Technicians, NEW is \in BOOLEAN, SetAvailability(t, is)
      PROVE  Base'
  BY <1>3 DEF SetAvailability, calendar, Typed, FitInv, Live
<1>4. ASSUME NEW i \in Rows, Release(i)
      PROVE  Base'
  <2>1. jobs' = [jobs EXCEPT ![i] = Ended] /\ UNCHANGED <<phase, window, needs, waived, available, req>>
    BY <1>4 DEF Release, calendar
  <2>2. /\ jobs' \in [Rows -> Job \cup {Unused, Ended}]
        /\ \A j \in Live' : j \in Live /\ jobs'[j] = jobs[j]
    BY <1>1, <2>1 DEF Live
  <2> QED
    BY <1>1, <2>1, <2>2 DEF Typed, FitInv
<1> QED
  BY <1>2, <1>3, <1>4

LEMMA InitBase == Init => Base
<1> SUFFICES ASSUME Init
             PROVE  Base
  OBVIOUS
<1>1. /\ phase \in [Bookings -> {"NONE"}] /\ window \in [Bookings -> {NoWindow}]
      /\ needs \in [Bookings -> {0}] /\ waived = {} /\ jobs \in [Rows -> {Unused}]
      /\ available \in [Technicians -> {TRUE}] /\ req \in [Requests -> {Idle}]
  BY DEF Init
<1>2. Live = {} /\ \A r \in Requests : req[r] = Idle
  BY <1>1 DEF Live
<1>3. /\ \A b \in Bookings : phase[b] = "NONE"
      /\ \A r \in Requests : req[r].op = "idle"
  BY <1>1, <1>2, SnapshotType
<1>4. /\ phase \in [Bookings -> Phase] /\ window \in [Bookings -> Window \cup {NoWindow}]
      /\ needs \in [Bookings -> Nat] /\ jobs \in [Rows -> Job \cup {Unused, Ended}]
      /\ available \in [Technicians -> BOOLEAN] /\ req \in [Requests -> Snapshot \cup {Idle}]
  <2>1. "NONE" \in Phase /\ 0 \in Nat
    BY DEF Phase
  <2>2. phase \in [Bookings -> Phase] /\ needs \in [Bookings -> Nat]
    BY <1>1, <2>1
  <2>3. window \in [Bookings -> Window \cup {NoWindow}]
    BY <1>1
  <2>4. jobs \in [Rows -> Job \cup {Unused, Ended}] /\ available \in [Technicians -> BOOLEAN]
    BY <1>1
  <2>5. req \in [Requests -> Snapshot \cup {Idle}]
    BY <1>1
  <2> QED
    BY <2>2, <2>3, <2>4, <2>5
<1>5. Typed
  BY <1>1, <1>2, <1>3, <1>4 DEF Typed
<1>6. FitInv
  BY <1>3 DEF FitInv
<1> QED
  BY <1>5, <1>6 DEF Base

LEMMA NextBase == Base /\ [Next]_vars => Base'
<1> SUFFICES ASSUME Base, [Next]_vars
             PROVE  Base'
  OBVIOUS
<1>1. CASE Next
  BY <1>1, DirectBase, BeginHolds, HoldBase, CommitCalendarBase, CommitJobsBase DEF Next, Commit
<1>2. CASE UNCHANGED vars
  BY <1>2 DEF vars, Base, Typed, FitInv, Live
<1> QED
  BY <1>1, <1>2

\* The rows keep their types, every booking that exists has a window of a bounded
\* length, and every live assignment row its booking (schema.prisma, Booking and
\* TechnicianAssignment).
THEOREM TypeCorrect == Spec => []TypeOK
<1>1. Base => TypeOK
  BY DEF Base, Typed, TypeOK
<1> QED
  BY <1>1, InitBase, NextBase, PTL DEF Spec

\* However often a booking is rescheduled, from whatever window a request has read, its
\* window holds the service and its buffer (bookings.service.ts, reschedule).
THEOREM WindowsFit == Spec => []WindowFitsService
<1>1. Base => WindowFitsService
  BY DEF Base, FitInv, WindowFitsService
<1> QED
  BY <1>1, InitBase, NextBase, PTL DEF Spec

-----------------------------------------------------------------------------
(* The calendar of a technician.                                           *)

Revives(s) == s.op = "status" \/ (s.op = "accept" /\ s.pending)

\* A booking that is not over, or that a request in flight may bring back.
Alive(b) ==
  phase[b] # "DONE" \/ \E r \in Requests : req[r] # Idle /\ req[r].b = b /\ Revives(req[r])

\* The checked jobs of t that fill its calendar or may do so again.
Held(t) == {i \in Live : jobs[i].t = t /\ jobs[i].checked /\ Alive(jobs[i].b)}

day(w) == w.start \div DAY

HeldOn(t, d) == {i \in Held(t) : day(window[jobs[i].b]) = d}

\* The jobs a request will find beside the one it writes.
Beside(s) == {i \in Held(s.t) : s.op = "accept" => i # s.i}

Fits(s) ==
  /\ \A i \in Held(s.t) : overlap(window[jobs[i].b], window[s.b]) => jobs[i].b = s.b
  /\ Cardinality({i \in Beside(s) : day(window[jobs[i].b]) = day(window[s.b])})
       < MAX_DAILY_JOBS

\* Who relies on a calendar is alone, and what it saw still holds.
AloneInv == \A q, r \in Requests : Relies(req[r]) /\ req[q] # Idle => q = r
RelyInv == \A r \in Requests : Relies(req[r]) /\ Alive(req[r].b) => Fits(req[r])
ApartInv ==
  \A t \in Technicians : \A i, j \in Held(t) :
    overlap(window[jobs[i].b], window[jobs[j].b]) => jobs[i].b = jobs[j].b
LoadInv == \A t \in Technicians : \A d : Cardinality(HeldOn(t, d)) <= MAX_DAILY_JOBS

CalendarInv == AloneInv /\ RelyInv /\ ApartInv /\ LoadInv

LEMMA HeldFinite ==
  ASSUME Typed, NEW t \in Technicians
  PROVE  /\ IsFiniteSet(Held(t)) /\ Held(t) \subseteq Live
         /\ \A i \in Held(t) : /\ i \in Rows /\ jobs[i] \in Job /\ jobs[i].b \in Bookings
                               /\ window[jobs[i].b] \in Window
<1>1. Held(t) \subseteq Rows /\ IsFiniteSet(Rows)
  BY DispatchAssumption DEF Held, Live
<1>2. IsFiniteSet(Held(t))
  BY <1>1, FS_Subset
<1> QED
  BY <1>2, JobType DEF Held, Live, Typed

\* A step that puts no job into anybody's calendar.
LEMMA QuietHeld ==
  ASSUME Typed, CalendarInv,
         \A t \in Technicians : \A i \in Held(t)' :
           /\ i \in Held(t) /\ jobs'[i].b = jobs[i].b
           /\ window'[jobs[i].b] = window[jobs[i].b]
  PROVE  ApartInv' /\ LoadInv'
<1>1. ASSUME NEW t \in Technicians, NEW d
      PROVE  HeldOn(t, d)' \subseteq HeldOn(t, d) /\ IsFiniteSet(HeldOn(t, d))
    <2>1. IsFiniteSet(Held(t)) /\ HeldOn(t, d) \subseteq Held(t)
      BY HeldFinite DEF HeldOn
    <2> QED
      BY <2>1, FS_Subset DEF HeldOn, day
<1>2. ApartInv'
  BY DEF ApartInv, CalendarInv
<1>3. LoadInv'
  <2> SUFFICES ASSUME NEW t \in Technicians, NEW d
               PROVE  Cardinality(HeldOn(t, d)') <= MAX_DAILY_JOBS
    BY DEF LoadInv
  <2>1. /\ Cardinality(HeldOn(t, d)') <= Cardinality(HeldOn(t, d))
        /\ Cardinality(HeldOn(t, d)') \in Nat /\ Cardinality(HeldOn(t, d)) \in Nat
    BY <1>1, FS_Subset, FS_CardinalityType
  <2>2. Cardinality(HeldOn(t, d)) <= MAX_DAILY_JOBS /\ MAX_DAILY_JOBS \in Nat
    BY DispatchAssumption DEF LoadInv, CalendarInv
  <2> QED
    BY <2>1, <2>2
<1> QED
  BY <1>2, <1>3

\* Nor does any request come to rely on more than before.
LEMMA QuietCalendar ==
  ASSUME Typed, CalendarInv,
         \A t \in Technicians : \A i \in Held(t)' :
           /\ i \in Held(t) /\ jobs'[i].b = jobs[i].b
           /\ window'[jobs[i].b] = window[jobs[i].b],
         \A r \in Requests : Relies(req'[r]) =>
           /\ Relies(req[r]) /\ req[r] \in Staffing
           /\ req'[r].op = req[r].op /\ req'[r].t = req[r].t /\ req'[r].b = req[r].b
           /\ req[r].op = "accept" => req'[r].i = req[r].i
           /\ window'[req[r].b] = window[req[r].b]
           /\ Alive(req[r].b)' => Alive(req[r].b)
           /\ \A q \in Requests : req'[q] # Idle => req[q] # Idle
  PROVE  CalendarInv'
<1> USE DEF CalendarInv
<1>2. AloneInv'
  BY DEF AloneInv
<1>3. ApartInv' /\ LoadInv'
  BY QuietHeld
<1>1. RelyInv'
  <2> SUFFICES ASSUME NEW r \in Requests, Relies(req'[r]), Alive(req[r].b)'
               PROVE  Fits(req[r])'
    BY DEF RelyInv, Relies
  <2> DEFINE s == req[r]
             S == {i \in Beside(s) : day(window[jobs[i].b]) = day(window[s.b])}
  <2>1. /\ s \in Staffing /\ s.t \in Technicians /\ Fits(s)
        /\ req'[r].op = s.op /\ req'[r].t = s.t /\ req'[r].b = s.b
        /\ s.op = "accept" => req'[r].i = s.i
        /\ window'[s.b] = window[s.b]
    BY StaffingType DEF RelyInv
  <2>2. \A i \in Live' : jobs'[i].t = s.t /\ jobs'[i].checked /\ Alive(jobs[i].b)' =>
          /\ i \in Held(s.t) /\ jobs'[i].b = jobs[i].b
          /\ window'[jobs'[i].b] = window[jobs[i].b]
    BY <2>1 DEF Held
  <2>3. \A i \in Live' : jobs'[i].t = s.t /\ jobs'[i].checked /\ Alive(jobs[i].b)' =>
          (overlap(window'[jobs'[i].b], window'[req'[r].b]) => jobs'[i].b = req'[r].b)
    BY <2>1, <2>2 DEF Fits
  <2>4. S' \subseteq S
    BY <2>1, <2>2 DEF Beside, Held, day
  <2>5. Cardinality(S') < MAX_DAILY_JOBS
    <3>1. IsFiniteSet(S)
      BY <2>1, HeldFinite, FS_Subset DEF Beside
    <3>2. /\ Cardinality(S') <= Cardinality(S)
          /\ Cardinality(S') \in Nat /\ Cardinality(S) \in Nat
      BY <2>4, <3>1, FS_Subset, FS_CardinalityType
    <3>3. Cardinality(S) < MAX_DAILY_JOBS /\ MAX_DAILY_JOBS \in Nat
      BY <2>1, DispatchAssumption DEF Fits
    <3> QED
      BY <3>2, <3>3
  <2> QED
    BY <2>1, <2>3, <2>5 DEF Fits, Held
<1> QED
  BY <1>1, <1>2, <1>3

\* What was looked at alone fits.
LEMMA RoomFits ==
  ASSUME Typed, InFlight = {}, NEW s \in Staffing, s.op # "accept", hasRoom(s.t, window[s.b])
  PROVE  Fits(s)
<1> DEFINE w == window[s.b]
           S == {i \in Beside(s) : day(window[jobs[i].b]) = day(w)}
           T == {i \in OpenJobs(s.t) : window[jobs[i].b].start \div DAY = w.start \div DAY}
<1>1. /\ ~hasConflict(s.t, w) /\ Cardinality(T) < MAX_DAILY_JOBS /\ s.t \in Technicians
  BY StaffingType DEF hasRoom, hasDailyCapacity
<1>2. \A b \in Bookings : Alive(b) => phase[b] # "DONE"
  BY DEF Alive, InFlight
<1>3. Held(s.t) \subseteq OpenJobs(s.t) /\ OpenJobs(s.t) \subseteq Rows
  BY <1>2, JobType DEF Held, OpenJobs, Live, Typed
<1>4. IsFiniteSet(T) /\ S \subseteq T
  <2>1. T \subseteq Rows /\ IsFiniteSet(Rows)
    BY <1>3, DispatchAssumption
  <2>2. IsFiniteSet(T)
    BY <2>1, FS_Subset
  <2> QED
    BY <1>3, <2>2 DEF Beside, day
<1>5. Cardinality(S) < MAX_DAILY_JOBS
  <2>1. /\ Cardinality(S) <= Cardinality(T)
        /\ Cardinality(S) \in Nat /\ Cardinality(T) \in Nat /\ MAX_DAILY_JOBS \in Nat
    BY <1>4, FS_Subset, FS_CardinalityType, DispatchAssumption
  <2> QED
    BY <1>1, <2>1
<1>6. \A i \in Held(s.t) : ~overlap(window[jobs[i].b], w)
  BY <1>1, <1>3 DEF hasConflict
<1> QED
  BY <1>5, <1>6 DEF Fits

\* A row that is accepted is in the calendar already.
LEMMA AcceptFits ==
  ASSUME Typed, CalendarInv, NEW s \in AcceptReq, s.checked, s.i \in Live,
         jobs[s.i].b = s.b, jobs[s.i].t = s.t, jobs[s.i].checked, phase[s.b] # "DONE"
  PROVE  Fits(s)
<1> DEFINE d == day(window[s.b])
           S == {i \in Beside(s) : day(window[jobs[i].b]) = d}
<1>1. s.op = "accept" /\ s.t \in Technicians
  BY DEF AcceptReq
<1>2. s.i \in Held(s.t) /\ s.i \in HeldOn(s.t, d)
  BY DEF Held, HeldOn, Alive
<1>3. S = HeldOn(s.t, d) \ {s.i}
  BY <1>1 DEF Beside, HeldOn
<1>4. Cardinality(S) < MAX_DAILY_JOBS
  <2>1. IsFiniteSet(HeldOn(s.t, d))
    BY <1>1, HeldFinite, FS_Subset DEF HeldOn
  <2>2. /\ Cardinality(S) = Cardinality(HeldOn(s.t, d)) - 1
        /\ Cardinality(HeldOn(s.t, d)) \in Nat
    BY <1>2, <1>3, <2>1, FS_RemoveElement, FS_CardinalityType
  <2>3. Cardinality(HeldOn(s.t, d)) <= MAX_DAILY_JOBS /\ MAX_DAILY_JOBS \in Nat
    BY <1>1, DispatchAssumption DEF CalendarInv, LoadInv
  <2> QED
    BY <2>2, <2>3
<1>5. \A i \in Held(s.t) : overlap(window[jobs[i].b], window[s.b]) => jobs[i].b = s.b
  BY <1>1, <1>2 DEF CalendarInv, ApartInv
<1> QED
  BY <1>4, <1>5 DEF Fits
\* A request begins; where it relies on a calendar, it fits into it.
LEMMA HoldCalendar ==
  ASSUME Typed, CalendarInv, NEW r \in Requests, NEW s \in Snapshot, Hold(r, s), Sees(s)
  PROVE  CalendarInv'
<1>1. UNCHANGED <<phase, window, jobs>> /\ req[r] = Idle
  BY DEF Hold, calendar
<1>2. /\ req' \in [Requests -> Snapshot \cup {Idle}]
      /\ Keeps(req'[r], s)
      /\ \A q \in Requests \ {r} : Keeps(req'[q], req[q]) /\ ~Relies(req'[q])
      /\ InFlight = {} => req'[r] = s
      /\ InFlight # {} => ~Relies(req'[r])
      /\ \A q \in Requests : req[q] \in Snapshot \cup {Idle}
  BY HoldType DEF Typed
<1>3. \A b \in Bookings : Alive(b)' => Alive(b)
  <2>1. ASSUME NEW q \in Requests, req'[q] # Idle, Revives(req'[q])
        PROVE  Alive(req'[q].b)
    <3>1. CASE q = r
      BY <1>2, <2>1, <3>1, SnapshotType DEF Keeps, Revives, Alive, Sees
    <3>2. CASE q # r
      BY <1>2, <2>1, <3>2, SnapshotType DEF Keeps, Revives, Alive
    <3> QED
      BY <3>1, <3>2
  <2> QED
    BY <1>1, <2>1 DEF Alive
<1>4. \A t \in Technicians : \A i \in Held(t)' :
        /\ i \in Held(t) /\ jobs'[i].b = jobs[i].b
        /\ window'[jobs[i].b] = window[jobs[i].b]
  BY <1>1, <1>3, JobType DEF Held, Live, Typed
<1>5. CASE ~(InFlight = {} /\ Relies(s))
  <2>1. \A q \in Requests : ~Relies(req'[q])
    BY <1>2, <1>5
  <2> QED
    BY <1>4, <2>1, QuietCalendar
<1>6. CASE InFlight = {} /\ Relies(s)
  <2>1. req'[r] = s /\ \A q \in Requests \ {r} : req'[q] = Idle
    BY <1>2, <1>6 DEF InFlight, Keeps
  <2>2. AloneInv'
    BY <2>1, SnapshotType DEF AloneInv, Relies
  <2>3. ApartInv' /\ LoadInv'
    BY <1>4, QuietHeld
  <2>4. RelyInv'
    <3> SUFFICES ASSUME Alive(req[r].b)'
                 PROVE  Fits(req[r])'
      BY <1>2 DEF RelyInv
    <3> DEFINE S == {i \in Beside(s) : day(window[jobs[i].b]) = day(window[s.b])}
    <3>1. s \in Staffing /\ s.t \in Technicians /\ s.b \in Bookings
      BY <1>6, StaffingType DEF Relies
    <3>2. phase[s.b] # "DONE"
      BY <1>1, <2>1 DEF Alive, Revives, Sees
    <3>3. Fits(s)
      <4>1. CASE s.op = "accept"
        BY <1>6, <3>2, <4>1, SnapshotType, AcceptFits DEF Sees, Relies
      <4>2. CASE s.op \in {"assign", "reassign"}
        BY <1>6, <3>1, <4>2, RoomFits DEF Sees, Relies
      <4> QED
        BY <1>6, <4>1, <4>2 DEF Relies
    <3>4. Held(s.t)' \subseteq Held(s.t)
      BY <1>4, <3>1
    <3>5. S' \subseteq S
      BY <1>1, <3>4 DEF Beside, day
    <3>6. Cardinality(S') < MAX_DAILY_JOBS
      <4>1. IsFiniteSet(S)
        BY <3>1, HeldFinite, FS_Subset DEF Beside
      <4>2. /\ Cardinality(S') <= Cardinality(S)
            /\ Cardinality(S') \in Nat /\ Cardinality(S) \in Nat
        BY <3>5, <4>1, FS_Subset, FS_CardinalityType
      <4>3. Cardinality(S) < MAX_DAILY_JOBS /\ MAX_DAILY_JOBS \in Nat
        BY <3>3, DispatchAssumption DEF Fits
      <4> QED
        BY <4>2, <4>3
    <3>7. Fits(s)'
      BY <1>1, <3>3, <3>4, <3>6 DEF Fits
    <3> QED
      BY <2>1, <3>7 DEF Fits, Beside, Held
  <2> QED
    BY <2>2, <2>3, <2>4 DEF CalendarInv
<1> QED
  BY <1>5, <1>6

\* A row is written for a request: it fits, if the request relies on that, and is
\* in nobody's calendar otherwise.
LEMMA JobCalendar ==
  ASSUME Base, Typed', CalendarInv, NEW r \in Requests, req[r] \in Staffing, Done(r),
         NEW k \in Rows, UNCHANGED window, jobs'[k] = NewJob(req[r]),
         \A j \in Rows \ {k} : jobs'[j] \in {jobs[j], Ended},
         req[r].op = "accept" => k = req[r].i,
         req[r].op # "accept" => jobs[k] = Unused,
         \A b \in Bookings : phase'[b] # "DONE" =>
           phase[b] # "DONE" \/ (b = req[r].b /\ Revives(req[r]))
  PROVE  CalendarInv'
<1> USE DEF Base
<1> DEFINE s == req[r]
<1>1. /\ req[r] # Idle /\ s.t \in Technicians /\ s.b \in Bookings /\ s.checked \in BOOLEAN
      /\ s.op \in {"assign", "reassign", "accept"}
      /\ NewJob(s).b = s.b /\ NewJob(s).t = s.t /\ NewJob(s).checked = s.checked
      /\ jobs'[k] \in Job
  BY StaffingType, SnapshotType DEF Snapshot, NewJob, Job
<1>2. /\ req'[r] = Idle
      /\ \A q \in Requests \ {r} : req'[q] = req[q]
  BY DoneType
<1>3. \A q \in Requests : ~Relies(req'[q])
  BY <1>1, <1>2, SnapshotType DEF CalendarInv, AloneInv, Relies
<1>4. \A b \in Bookings : Alive(b)' => Alive(b)
  BY <1>1, <1>2 DEF Alive
<1>5. \A j \in Live' \ {k} : j \in Live /\ jobs'[j] = jobs[j] /\ jobs[j] \in Job
                             /\ jobs[j].b \in Bookings
  BY JobType DEF Live, Typed
<1>6. \A t \in Technicians : \A j \in Held(t)' : j # k =>
        j \in Held(t) /\ jobs'[j] = jobs[j] /\ j \in Live
  BY <1>4, <1>5 DEF Held
<1>7. CASE ~s.checked
  <2>1. \A t \in Technicians : k \notin Held(t)'
    BY <1>1, <1>7 DEF Held
  <2>2. \A t \in Technicians : \A i \in Held(t)' :
          /\ i \in Held(t) /\ jobs'[i].b = jobs[i].b
          /\ window'[jobs[i].b] = window[jobs[i].b]
    BY <1>6, <2>1
  <2> QED
    BY <1>3, <2>2, QuietCalendar
<1>8. CASE s.checked
  <2>1. \A t \in Technicians : k \in Held(t)' => t = s.t /\ Alive(s.b)
    BY <1>1, <1>4 DEF Held
  <2>2. Alive(s.b) => Fits(s)
    BY <1>1, <1>8 DEF CalendarInv, RelyInv, Relies
  <2>3. k \in Held(s.t) => s.op = "accept" /\ k = s.i
    BY <1>1 DEF Held, Live
  <2>4. ApartInv'
    <3> SUFFICES ASSUME NEW t \in Technicians, NEW i \in Held(t)', NEW j \in Held(t)',
                        overlap(window[jobs'[i].b], window[jobs'[j].b])
                 PROVE  jobs'[i].b = jobs'[j].b
      BY DEF ApartInv
    <3>1. CASE i # k /\ j # k
      BY <1>6, <3>1 DEF CalendarInv, ApartInv
    <3>2. CASE i = k /\ j = k
      BY <3>2
    <3>3. \A h \in Held(t)' : h # k /\ k \in Held(t)' =>
            (overlap(window[jobs'[h].b], window[s.b]) => jobs'[h].b = s.b)
      BY <1>6, <2>1, <2>2 DEF Fits
    <3>4. CASE i = k /\ j # k
      <4>1. window[jobs'[i].b] \in Window /\ window[jobs'[j].b] \in Window
        BY <1>1, <1>5, <1>6, <3>4 DEF Typed, Held, Live
      <4>2. overlap(window[jobs'[j].b], window[s.b])
        BY <1>1, <3>4, <4>1, WindowType DEF overlap
      <4> QED
        BY <1>1, <3>3, <3>4, <4>2
    <3>5. CASE i # k /\ j = k
      BY <1>1, <3>3, <3>5
    <3> QED
      BY <3>1, <3>2, <3>4, <3>5
  <2>5. LoadInv'
    <3> SUFFICES ASSUME NEW t \in Technicians, NEW d
                 PROVE  Cardinality(HeldOn(t, d)') <= MAX_DAILY_JOBS
      BY DEF LoadInv
    <3>1. IsFiniteSet(HeldOn(t, d)) /\ Cardinality(HeldOn(t, d)) <= MAX_DAILY_JOBS
      BY HeldFinite, FS_Subset DEF HeldOn, CalendarInv, LoadInv
    <3>2. \A h \in HeldOn(t, d)' : h # k => h \in HeldOn(t, d)
      BY <1>6 DEF HeldOn, day
    <3>3. CASE k \notin HeldOn(t, d)'
      <4>1. HeldOn(t, d)' \subseteq HeldOn(t, d)
        BY <3>2, <3>3
      <4>2. /\ Cardinality(HeldOn(t, d)') <= Cardinality(HeldOn(t, d))
            /\ Cardinality(HeldOn(t, d)') \in Nat /\ Cardinality(HeldOn(t, d)) \in Nat
            /\ MAX_DAILY_JOBS \in Nat
        BY <3>1, <4>1, FS_Subset, FS_CardinalityType, DispatchAssumption
      <4> QED
        BY <3>1, <4>2
    <3>4. CASE k \in HeldOn(t, d)'
      <4> DEFINE S == {h \in Beside(s) : day(window[jobs[h].b]) = day(window[s.b])}
      <4>1. k \in Held(t)' /\ t = s.t /\ Fits(s) /\ d = day(window[s.b])
        BY <1>1, <2>1, <2>2, <3>4 DEF HeldOn, day
      <4>2. HeldOn(t, d)' \subseteq S \cup {k}
        BY <1>6, <4>1 DEF HeldOn, Beside, day
      <4>3. IsFiniteSet(S) /\ k \notin S /\ Cardinality(S) < MAX_DAILY_JOBS
        <5>1. IsFiniteSet(Held(s.t)) /\ S \subseteq Held(s.t)
          BY <1>1, HeldFinite DEF Beside
        <5> QED
          BY <2>3, <4>1, <5>1, FS_Subset DEF Beside, Fits
      <4>4. /\ IsFiniteSet(S \cup {k}) /\ Cardinality(S \cup {k}) = Cardinality(S) + 1
        BY <4>3, FS_AddElement
      <4>5. /\ Cardinality(HeldOn(t, d)') <= Cardinality(S \cup {k})
            /\ Cardinality(HeldOn(t, d)') \in Nat /\ Cardinality(S) \in Nat
            /\ MAX_DAILY_JOBS \in Nat
        BY <4>2, <4>3, <4>4, FS_Subset, FS_CardinalityType, DispatchAssumption
      <4> QED
        BY <4>3, <4>4, <4>5
    <3> QED
      BY <3>3, <3>4
  <2>6. AloneInv' /\ RelyInv'
    BY <1>3 DEF AloneInv, RelyInv, Relies
  <2> QED
    BY <2>4, <2>5, <2>6 DEF CalendarInv
<1> QED
  BY <1>1, <1>7, <1>8

LEMMA CommitJobsCalendar ==
  ASSUME Base, Typed', CalendarInv, NEW r \in Requests,
         CommitAssign(r) \/ CommitReassign(r) \/ CommitAccept(r)
  PROVE  CalendarInv'
<1> DEFINE s == req[r]
<1>1. /\ req \in [Requests -> Snapshot \cup {Idle}] /\ phase \in [Bookings -> Phase]
      /\ jobs \in [Rows -> Job \cup {Unused, Ended}]
  BY DEF Base, Typed
<1>2. /\ s \in Staffing /\ s.b \in Bookings /\ Done(r) /\ UNCHANGED window
      /\ s.op \in {"reassign", "accept"} => s.i \in Rows
  BY <1>1, SnapshotType, StaffingType
     DEF CommitAssign, CommitReassign, CommitAccept, ReassignReq, AcceptReq, calendar
<1>3. CASE CommitAssign(r)
  <2>1. s.op = "assign" /\ UNCHANGED phase
    BY <1>3 DEF CommitAssign, calendar
  <2>2. PICK k \in Rows : jobs[k] = Unused /\ jobs' = [jobs EXCEPT ![k] = NewJob(s)]
    BY <1>3 DEF CommitAssign
  <2>3. jobs'[k] = NewJob(s) /\ \A j \in Rows \ {k} : jobs'[j] = jobs[j]
    BY <1>1, <2>2
  <2> QED
    BY <1>2, <2>1, <2>2, <2>3, JobCalendar
<1>4. CASE CommitReassign(r)
  <2>1. s.op = "reassign" /\ UNCHANGED phase
    BY <1>4 DEF CommitReassign, calendar
  <2>2. PICK k \in Rows :
          jobs[k] = Unused /\ jobs' = [jobs EXCEPT ![s.i] = Ended, ![k] = NewJob(s)]
    BY <1>4 DEF CommitReassign
  <2>3. jobs'[k] = NewJob(s) /\ \A j \in Rows \ {k} : jobs'[j] \in {jobs[j], Ended}
    BY <1>1, <1>2, <2>1, <2>2
  <2> QED
    BY <1>2, <2>1, <2>2, <2>3, JobCalendar
<1>5. CASE CommitAccept(r)
  <2>1. /\ s.op = "accept" /\ s.i \in Rows /\ jobs' = [jobs EXCEPT ![s.i] = NewJob(s)]
        /\ phase' = IF s.pending THEN [phase EXCEPT ![s.b] = "ACTIVE"] ELSE phase
    BY <1>2, <1>5 DEF CommitAccept
  <2>2. jobs'[s.i] = NewJob(s) /\ \A j \in Rows \ {s.i} : jobs'[j] = jobs[j]
    BY <1>1, <2>1
  <2>3. \A b \in Bookings : phase'[b] # "DONE" =>
          phase[b] # "DONE" \/ (b = s.b /\ Revives(s))
    BY <1>1, <1>2, <2>1 DEF Revives
  <2> QED
    BY <1>2, <2>1, <2>2, <2>3, JobCalendar
<1> QED
  BY <1>3, <1>4, <1>5

LEMMA CommitCalendar ==
  ASSUME Base, Typed', CalendarInv, NEW r \in Requests,
         CommitCreate(r) \/ CommitReschedule(r) \/ CommitStatus(r) \/ Abandon(r)
  PROVE  CalendarInv'
<1> DEFINE s == req[r]
<1>1. /\ req \in [Requests -> Snapshot \cup {Idle}] /\ phase \in [Bookings -> Phase]
      /\ jobs \in [Rows -> Job \cup {Unused, Ended}]
      /\ window \in [Bookings -> Window \cup {NoWindow}]
      /\ \A i \in Live : jobs[i] \in Job /\ jobs[i].b \in Bookings /\ phase[jobs[i].b] # "NONE"
  BY JobType DEF Base, Typed, Live
<1>2. s \in Snapshot /\ s # Idle /\ s.b \in Bookings
  BY <1>1, SnapshotType DEF CommitCreate, CommitReschedule, CommitStatus, Abandon
<1>3. /\ \A q \in Requests : req'[q] \in Snapshot \cup {Idle}
      /\ req'[r] = Idle
      /\ \A q \in Requests \ {r} : Keeps(req'[q], req[q])
  <2>1. CASE Done(r)
    BY <1>1, <2>1, DoneType, KeepsItself DEF Base
  <2>2. CASE CommitReschedule(r)
    <3>1. req' = [q \in Requests |-> IF q = r THEN Idle ELSE Outdated(req[q], s.b)]
      BY <2>2 DEF CommitReschedule
    <3>2. \A q \in Requests : Keeps(Outdated(req[q], s.b), req[q])
      BY <1>1, <1>2, OutdatedType
    <3> QED
      BY <3>1, <3>2 DEF Keeps
  <2> QED
    BY <2>1, <2>2 DEF CommitCreate, CommitStatus, Abandon
<1>4. \A q \in Requests : ~Relies(req'[q])
  BY <1>1, <1>2, <1>3, SnapshotType DEF CalendarInv, AloneInv, Relies, Keeps
<1>5. ASSUME NEW b \in Bookings, phase'[b] # "DONE" => phase[b] # "DONE" \/ (b = s.b /\ Revives(s))
      PROVE  Alive(b)' => Alive(b)
  <2>1. \A q \in Requests : req'[q] # Idle /\ Revives(req'[q]) =>
          req[q] # Idle /\ Revives(req[q]) /\ req'[q].b = req[q].b
    BY <1>1, <1>3, SnapshotType DEF Keeps, Revives
  <2> QED
    BY <1>2, <1>5, <2>1 DEF Alive
<1>6. CASE CommitReschedule(r)
  <2>1. /\ s.op = "reschedule" /\ UNCHANGED phase
        /\ window' = [window EXCEPT ![s.b] = s.window]
        /\ jobs' = [i \in Rows |-> Outdated(jobs[i], s.b)]
    BY <1>6 DEF CommitReschedule
  <2>2. ASSUME NEW t \in Technicians, NEW i \in Held(t)'
        PROVE  /\ i \in Held(t) /\ jobs'[i].b = jobs[i].b
               /\ window'[jobs[i].b] = window[jobs[i].b]
    <3>1. i \in Rows /\ jobs'[i] = Outdated(jobs[i], s.b) /\ jobs'[i] \notin {Unused, Ended}
          /\ jobs'[i].t = t /\ jobs'[i].checked /\ Alive(jobs[i].b)'
      BY <2>1 DEF Held, Live
    <3>2. /\ jobs[i] \in Job /\ jobs[i].t = t /\ jobs[i].checked /\ jobs[i].b # s.b
          /\ jobs'[i].b = jobs[i].b /\ i \in Live /\ jobs[i].b \in Bookings
      <4>1. jobs[i] \in Job \cup {Unused, Ended} /\ s.b \in Bookings
        BY <1>1, <1>2, <3>1
      <4> HIDE DEF s
      <4>2. jobs[i] \in Job
        BY <3>1, <4>1, OutdatedJob
      <4>3. jobs'[i].b = jobs[i].b /\ jobs'[i].t = jobs[i].t /\ jobs[i].checked
            /\ jobs[i].b # s.b
        BY <3>1, <4>1, <4>2, OutdatedJob
      <4> QED
        BY <3>1, <4>2, <4>3, JobType DEF Live
    <3>3. Alive(jobs'[i].b)
      BY <1>5, <2>1, <2>2, <3>2 DEF Held
    <3> QED
      BY <1>1, <2>1, <3>2, <3>3 DEF Held
  <2> QED
    BY <1>4, <2>2, QuietCalendar DEF Base
<1>7. ASSUME UNCHANGED jobs,
             \A b \in Bookings : phase[b] # "NONE" => window'[b] = window[b],
             \A b \in Bookings : phase'[b] # "DONE" /\ phase[b] # "NONE" =>
               phase[b] # "DONE" \/ (b = s.b /\ Revives(s))
      PROVE  CalendarInv'
  <2>1. Live' = Live
    BY <1>7 DEF Live
  <2>2. \A i \in Live : Alive(jobs[i].b)' => Alive(jobs'[i].b)
    BY <1>1, <1>5, <1>7
  <2>3. \A t \in Technicians : \A i \in Held(t)' :
          /\ i \in Held(t) /\ jobs'[i].b = jobs[i].b
          /\ window'[jobs[i].b] = window[jobs[i].b]
    BY <1>1, <1>7, <2>1, <2>2 DEF Held
  <2> QED
    BY <1>4, <2>3, QuietCalendar DEF Base
<1>8. CASE CommitCreate(r)
  <2>1. phase[s.b] = "NONE"
    BY <1>1, <1>2, <1>8 DEF CommitCreate, Base, Typed
  <2> QED
    BY <1>1, <1>2, <1>7, <1>8, <2>1 DEF CommitCreate
<1>9. CASE CommitStatus(r)
  BY <1>1, <1>2, <1>7, <1>9 DEF CommitStatus, Revives
<1>10. CASE Abandon(r)
  BY <1>7, <1>10 DEF Abandon, calendar
<1> QED
  BY <1>6, <1>8, <1>9, <1>10

LEMMA DirectCalendar ==
  ASSUME Base, CalendarInv,
         \/ \E b \in Bookings, start \in Starts : GenerateVisit(b, start)
         \/ \E t \in Technicians, is \in BOOLEAN : SetAvailability(t, is)
         \/ \E i \in Rows : Release(i)
  PROVE  CalendarInv'
<1>1. /\ \A i \in Live : jobs[i] \in Job /\ jobs[i].b \in Bookings /\ phase[jobs[i].b] # "NONE"
      /\ jobs \in [Rows -> Job \cup {Unused, Ended}]
      /\ phase \in [Bookings -> Phase] /\ window \in [Bookings -> Window \cup {NoWindow}]
  BY JobType DEF Base, Typed, Live
<1>2. /\ req' = req
      /\ \A b \in Bookings : phase[b] # "NONE" => phase'[b] = phase[b] /\ window'[b] = window[b]
      /\ \A i \in Live' : i \in Live /\ jobs'[i] = jobs[i]
  BY <1>1 DEF GenerateVisit, SetAvailability, Release, calendar, Live
<1>3. \A t \in Technicians : \A i \in Held(t)' :
        /\ i \in Held(t) /\ jobs'[i].b = jobs[i].b
        /\ window'[jobs[i].b] = window[jobs[i].b]
  BY <1>1, <1>2 DEF Held, Alive
<1>4. ASSUME NEW r \in Requests, Relies(req[r])
      PROVE  /\ req[r] \in Staffing /\ window'[req[r].b] = window[req[r].b]
             /\ Alive(req[r].b)' => Alive(req[r].b)
  <2>1. req[r] \in Staffing /\ req[r].b \in Bookings /\ phase[req[r].b] # "NONE"
    BY <1>4, SnapshotType, StaffingType DEF Base, Typed, Relies
  <2> QED
    BY <1>2, <2>1 DEF Alive
<1> QED
  BY <1>2, <1>3, <1>4, QuietCalendar DEF Base

LEMMA InitCalendar == Init => CalendarInv
<1> SUFFICES ASSUME Init
             PROVE  CalendarInv
  OBVIOUS
<1>1. Live = {} /\ \A r \in Requests : req[r] = Idle
  BY DEF Init, Live
<1>2. \A t \in Technicians : Held(t) = {} /\ \A d : HeldOn(t, d) = {}
  BY <1>1 DEF Held, HeldOn
<1>3. LoadInv
  BY <1>2, FS_EmptySet, DispatchAssumption DEF LoadInv
<1> QED
  BY <1>1, <1>2, <1>3, SnapshotType DEF CalendarInv, AloneInv, RelyInv, ApartInv, Relies

LEMMA NextCalendar == Base /\ Base' /\ CalendarInv /\ [Next]_vars => CalendarInv'
<1> SUFFICES ASSUME Base, Base', CalendarInv, [Next]_vars
             PROVE  CalendarInv'
  OBVIOUS
<1>1. CASE Next
  BY <1>1, DirectCalendar, BeginHolds, HoldCalendar, CommitCalendar, CommitJobsCalendar
     DEF Next, Commit, Base
<1>2. CASE UNCHANGED vars
  <2>1. UNCHANGED <<window, jobs, req>> /\ \A b : Alive(b)' <=> Alive(b)
    BY <1>2 DEF vars, calendar, Alive
  <2>2. \A t \in Technicians : Held(t)' = Held(t)
    BY <2>1 DEF Held, Live
  <2>3. \A r \in Requests : Relies(req[r]) => req[r] \in Staffing
    BY SnapshotType, StaffingType DEF Base, Typed, Relies
  <2> QED
    BY <2>1, <2>2, <2>3, QuietCalendar DEF Base
<1> QED
  BY <1>1, <1>2

LEMMA CalendarHolds == Spec => [](Base /\ CalendarInv)
<1>1. Init => Base /\ CalendarInv
  BY InitBase, InitCalendar
<1>2. Base /\ CalendarInv /\ [Next]_vars => Base' /\ CalendarInv'
  BY NextBase, NextCalendar
<1> QED
  BY <1>1, <1>2, PTL DEF Spec

LEMMA CheckedIsHeld ==
  ASSUME Typed, NEW t \in Technicians
  PROVE  Checked(t) \subseteq Held(t)
BY DEF Checked, OpenJobs, Held, Alive

\* A technician is never in two places at once by assignments that were checked while
\* nothing else was under way (technician-assignment.service.ts, assertAvailable).
THEOREM CheckedJobsApart == Spec => []DoubleBookingNeedsARace
<1>1. Base /\ CalendarInv => DoubleBookingNeedsARace
  BY CheckedIsHeld DEF Base, CalendarInv, ApartInv, DoubleBookingNeedsARace
<1> QED
  BY <1>1, CalendarHolds, PTL

\* Nor does a technician get more of them on a day than the daily limit
\* (workload.service.ts, hasDailyCapacity).
THEOREM CheckedLoadKept == Spec => []OverloadNeedsARace
<1>1. Base /\ CalendarInv => OverloadNeedsARace
  <2> SUFFICES ASSUME Base, CalendarInv, NEW t \in Technicians, NEW d
               PROVE  Cardinality({i \in Checked(t) : window[jobs[i].b].start \div DAY = d})
                        <= MAX_DAILY_JOBS
    BY DEF OverloadNeedsARace
  <2> DEFINE S == {i \in Checked(t) : window[jobs[i].b].start \div DAY = d}
  <2>1. S \subseteq HeldOn(t, d) /\ IsFiniteSet(HeldOn(t, d))
    <3>1. IsFiniteSet(Held(t)) /\ HeldOn(t, d) \subseteq Held(t)
      BY HeldFinite DEF Base, HeldOn
    <3> QED
      BY <3>1, CheckedIsHeld, FS_Subset DEF Base, HeldOn, day
  <2>2. /\ Cardinality(S) <= Cardinality(HeldOn(t, d))
        /\ Cardinality(S) \in Nat /\ Cardinality(HeldOn(t, d)) \in Nat /\ MAX_DAILY_JOBS \in Nat
    BY <2>1, FS_Subset, FS_CardinalityType, DispatchAssumption
  <2>3. Cardinality(HeldOn(t, d)) <= MAX_DAILY_JOBS
    BY DEF CalendarInv, LoadInv
  <2> QED
    BY <2>2, <2>3
<1> QED
  BY <1>1, CalendarHolds, PTL

-----------------------------------------------------------------------------
(* The capacity of a slot.                                                 *)

\* A booking that is active, or that a request in flight may make active again.
Rising(b) ==
  phase[b] = "ACTIVE" \/ \E r \in Requests : req[r] # Idle /\ req[r].b = b /\ Revives(req[r])

\* A request that passed the slot check for hour h.
Claims(s, h) ==
  /\ (s.op = "create" /\ ~s.waived) \/ (s.op = "reschedule" /\ Rising(s.b))
  /\ during(h, s.window)

\* The checked bookings that are at h, or will be when the requests in flight are done.
InPlay(h) ==
  {b \in Bookings : \/ Rising(b) /\ b \notin waived /\ during(h, window[b])
                    \/ \E r \in Requests : req[r].b = b /\ Claims(req[r], h)}

SlotInv ==
  \A h \in Int : /\ IsFiniteSet(InPlay(h))
                 /\ Cardinality(InPlay(h)) <= MAX_CONCURRENT_PER_SLOT + Overlapping

LEMMA InPlayFinite == \A h : IsFiniteSet(InPlay(h)) /\ Cardinality(InPlay(h)) \in Nat
BY FS_Subset, FS_CardinalityType, DispatchAssumption DEF InPlay

LEMMA OverlappingType == Cardinality(Requests) \in Nat /\ Overlapping \in Int
BY FS_CardinalityType, DispatchAssumption DEF Overlapping

\* A step that brings no booking into play.
LEMMA QuietSlots ==
  ASSUME SlotInv, \A h \in Int : InPlay(h)' \subseteq InPlay(h)
  PROVE  SlotInv'
<1> SUFFICES ASSUME NEW h \in Int
             PROVE  /\ IsFiniteSet(InPlay(h)')
                    /\ Cardinality(InPlay(h)') <= MAX_CONCURRENT_PER_SLOT + Overlapping
  BY DEF SlotInv, Overlapping
<1>1. /\ IsFiniteSet(InPlay(h)')
      /\ Cardinality(InPlay(h)') <= Cardinality(InPlay(h))
      /\ Cardinality(InPlay(h)') \in Nat /\ Cardinality(InPlay(h)) \in Nat
  BY FS_Subset, FS_CardinalityType, InPlayFinite
<1>2. /\ Cardinality(InPlay(h)) <= MAX_CONCURRENT_PER_SLOT + Overlapping
      /\ MAX_CONCURRENT_PER_SLOT \in Nat /\ Overlapping \in Int
  BY OverlappingType, DispatchAssumption DEF SlotInv
<1> QED
  BY <1>1, <1>2

\* A check that passed leaves room for one booking of every request.
LEMMA CheckedSlot ==
  ASSUME Typed, NEW r \in Requests, NEW b \in Bookings, NEW exclude, NEW w,
         slotIsFree(w, exclude), NEW S,
         \A c \in S : \/ c \in Bookings \ exclude /\ phase[c] = "ACTIVE" /\ overlap(window[c], w)
                      \/ c = b \/ \E q \in Requests \ {r} : c = req[q].b
  PROVE  IsFiniteSet(S) /\ Cardinality(S) <= MAX_CONCURRENT_PER_SLOT + Overlapping
<1> DEFINE A == {c \in Bookings \ exclude : phase[c] = "ACTIVE" /\ overlap(window[c], w)}
           Q == Requests \ {r}
           T == {req[q].b : q \in Q}
           f == [q \in Q |-> req[q].b]
<1>1. IsFiniteSet(A) /\ Cardinality(A) \in Nat /\ Cardinality(A) < MAX_CONCURRENT_PER_SLOT
      /\ MAX_CONCURRENT_PER_SLOT \in Nat
  <2>1. IsFiniteSet(A)
    BY FS_Subset, DispatchAssumption
  <2> QED
    BY <2>1, FS_CardinalityType, DispatchAssumption DEF slotIsFree
<1>2. IsFiniteSet(Q) /\ Cardinality(Q) = Overlapping /\ Overlapping \in Nat
  <2>1. IsFiniteSet(Q) /\ Cardinality(Q) = Cardinality(Requests) - 1
    BY FS_RemoveElement, DispatchAssumption
  <2> QED
    BY <2>1, FS_CardinalityType DEF Overlapping
<1>3. IsFiniteSet(T) /\ Cardinality(T) <= Overlapping /\ Cardinality(T) \in Nat
  <2>1. f \in Surjection(Q, T)
    BY DEF Surjection
  <2> QED
    BY <1>2, <2>1, FS_Surjection, FS_CardinalityType
<1>4. /\ IsFiniteSet(A \cup T)
      /\ Cardinality(A \cup T) <= Cardinality(A) + Cardinality(T)
      /\ Cardinality(A \cup T) \in Nat
  <2>1. /\ IsFiniteSet(A \cup T)
        /\ Cardinality(A \cup T) = Cardinality(A) + Cardinality(T) - Cardinality(A \cap T)
    BY <1>1, <1>3, FS_Union
  <2>2. Cardinality(A \cap T) \in Nat
    BY <1>1, FS_Subset, FS_CardinalityType
  <2> QED
    BY <1>1, <1>3, <2>1, <2>2, FS_CardinalityType
<1>5. /\ IsFiniteSet((A \cup T) \cup {b})
      /\ Cardinality((A \cup T) \cup {b}) <= Cardinality(A \cup T) + 1
      /\ Cardinality((A \cup T) \cup {b}) \in Nat
  <2>1. /\ IsFiniteSet((A \cup T) \cup {b})
        /\ Cardinality((A \cup T) \cup {b}) =
             IF b \in A \cup T THEN Cardinality(A \cup T) ELSE Cardinality(A \cup T) + 1
    BY <1>4, FS_AddElement
  <2> HIDE DEF A, T
  <2> QED
    BY <1>4, <2>1, FS_CardinalityType
<1>6. S \subseteq (A \cup T) \cup {b}
  OBVIOUS
<1>7. /\ IsFiniteSet(S) /\ Cardinality(S) <= Cardinality((A \cup T) \cup {b})
      /\ Cardinality(S) \in Nat
  BY <1>5, <1>6, FS_Subset, FS_CardinalityType
<1> HIDE DEF A, T, Q
<1> QED
  BY <1>1, <1>2, <1>3, <1>4, <1>5, <1>7

LEMMA HoldSlots ==
  ASSUME Base, SlotInv, NEW r \in Requests, NEW s \in Snapshot, Hold(r, s), Sees(s)
  PROVE  SlotInv'
<1>1. UNCHANGED <<phase, window, waived>> /\ req[r] = Idle /\ s.b \in Bookings
  BY SnapshotType DEF Hold, calendar
<1>2. /\ \A q \in Requests : req'[q] \in Snapshot \cup {Idle} /\ req[q] \in Snapshot \cup {Idle}
      /\ Keeps(req'[r], s)
      /\ \A q \in Requests \ {r} : Keeps(req'[q], req[q])
  BY HoldType DEF Typed, Base
<1>3. \A b \in Bookings : Rising(b)' => Rising(b)
  <2>1. ASSUME NEW q \in Requests, req'[q] # Idle, Revives(req'[q])
        PROVE  Rising(req'[q].b)
    <3>1. CASE q = r
      BY <1>2, <2>1, <3>1, SnapshotType DEF Keeps, Revives, Rising, Sees
    <3>2. CASE q # r
      BY <1>2, <2>1, <3>2, SnapshotType DEF Keeps, Revives, Rising
    <3> QED
      BY <3>1, <3>2
  <2> QED
    BY <1>1, <2>1 DEF Rising
<1>4. ASSUME NEW h \in Int, NEW b \in InPlay(h)'
      PROVE  \/ b \in InPlay(h)
             \/ /\ b = s.b /\ during(h, s.window)
                /\ (s.op = "create" /\ ~s.waived) \/ s.op = "reschedule"
  <2>1. b \in Bookings
    BY <1>4 DEF InPlay
  <2>2. CASE Rising(b)' /\ b \notin waived /\ during(h, window[b])
    BY <1>3, <2>1, <2>2 DEF InPlay
  <2>3. ASSUME NEW q \in Requests, req'[q].b = b, Claims(req[q], h)'
        PROVE  \/ b \in InPlay(h)
               \/ /\ b = s.b /\ during(h, s.window)
                  /\ (s.op = "create" /\ ~s.waived) \/ s.op = "reschedule"
    <3>1. /\ \/ req'[q].op = "create" /\ ~req'[q].waived
             \/ req'[q].op = "reschedule" /\ Rising(b)'
          /\ during(h, req'[q].window)
      BY <2>3 DEF Claims, Rising, during
    <3>2. CASE q = r
      BY <1>2, <2>3, <3>1, <3>2, SnapshotType DEF Keeps
    <3>3. CASE q # r
      <4>1. req'[q] = req[q]
        BY <1>2, <3>1, <3>3 DEF Keeps
      <4>2. Claims(req[q], h)
        BY <1>3, <2>1, <2>3, <3>1, <4>1 DEF Claims
      <4> QED
        BY <2>1, <2>3, <4>1, <4>2 DEF InPlay
    <3> QED
      BY <3>2, <3>3
  <2>4. \/ Rising(b)' /\ b \notin waived /\ during(h, window[b])
        \/ \E q \in Requests : req'[q].b = b /\ Claims(req[q], h)'
    BY <1>1, <1>4 DEF InPlay, during
  <2> QED
    BY <2>2, <2>3, <2>4
<1>5. \A c \in Bookings : phase[c] = "ACTIVE" => window[c] \in Window
  BY DEF Base, Typed
<1>6. ASSUME NEW h \in Int
      PROVE  /\ IsFiniteSet(InPlay(h)')
             /\ Cardinality(InPlay(h)') <= MAX_CONCURRENT_PER_SLOT + Overlapping
  <2>1. CASE InPlay(h)' \subseteq InPlay(h)
    <3>1. /\ IsFiniteSet(InPlay(h)')
          /\ Cardinality(InPlay(h)') <= Cardinality(InPlay(h))
          /\ Cardinality(InPlay(h)') \in Nat /\ Cardinality(InPlay(h)) \in Nat
      BY <2>1, FS_Subset, FS_CardinalityType, InPlayFinite
    <3>2. /\ Cardinality(InPlay(h)) <= MAX_CONCURRENT_PER_SLOT + Overlapping
          /\ MAX_CONCURRENT_PER_SLOT \in Nat /\ Overlapping \in Int
      BY OverlappingType, DispatchAssumption DEF SlotInv
    <3> QED
      BY <3>1, <3>2
  <2>2. ASSUME during(h, s.window), (s.op = "create" /\ ~s.waived) \/ s.op = "reschedule",
               NEW c \in InPlay(h)'
        PROVE  \/ c \in Bookings /\ phase[c] = "ACTIVE" /\ overlap(window[c], s.window)
               \/ c = s.b \/ \E q \in Requests \ {r} : c = req[q].b
    <3>1. CASE c \in InPlay(h) /\ phase[c] = "ACTIVE" /\ during(h, window[c])
      <4>1. c \in Bookings /\ window[c] \in Window /\ s.window \in Window
        BY <1>5, <2>2, <3>1, SnapshotType DEF InPlay, CreateReq, RescheduleReq
      <4>2. /\ window[c].start \in Nat /\ window[c].end \in Nat
            /\ s.window.start \in Nat /\ s.window.end \in Nat
        BY <4>1, WindowType
      <4> QED
        BY <2>2, <3>1, <4>1, <4>2 DEF overlap, during
    <3>2. CASE c \in InPlay(h) /\ ~(phase[c] = "ACTIVE" /\ during(h, window[c]))
      BY <1>1, <3>2, SnapshotType DEF InPlay, Rising, Claims
    <3> QED
      BY <1>4, <2>2, <3>1, <3>2
  <2>3. CASE during(h, s.window) /\ s.op = "create" /\ ~s.waived
    <3>1. slotIsFree(s.window, {})
      BY <2>3 DEF Sees
    <3> QED
      BY <1>1, <2>2, <2>3, <3>1, CheckedSlot DEF Base
  <2>4. CASE during(h, s.window) /\ s.op = "reschedule"
    <3>1. slotIsFree(s.window, {s.b})
      BY <2>4 DEF Sees
    <3>2. \A c \in InPlay(h)' :
            \/ c \in Bookings \ {s.b} /\ phase[c] = "ACTIVE" /\ overlap(window[c], s.window)
            \/ c = s.b \/ \E q \in Requests \ {r} : c = req[q].b
      BY <2>2, <2>4
    <3> QED
      BY <1>1, <3>1, <3>2, CheckedSlot DEF Base
  <2> QED
    BY <1>4, <2>1, <2>3, <2>4
<1> QED
  BY <1>6 DEF SlotInv, Overlapping

\* Every other step.
LEMMA CommitSlots ==
  ASSUME Base, SlotInv, NEW r \in Requests, Commit(r) \/ Abandon(r)
  PROVE  SlotInv'
<1> DEFINE s == req[r]
<1>1. /\ req \in [Requests -> Snapshot \cup {Idle}]
      /\ phase \in [Bookings -> Phase] /\ window \in [Bookings -> Window \cup {NoWindow}]
      /\ \A q \in Requests : Keeps(req[q], req[q])
      /\ \A q \in Requests : req[q] # Idle => req[q].b \in Bookings
      /\ s # Idle => /\ s \in Snapshot /\ s.b \in Bookings
                     /\ (s.op = "create" <=> phase[s.b] = "NONE")
  BY KeepsItself, SnapshotType DEF Base, Typed
<1>2. /\ s # Idle /\ req'[r] = Idle /\ \A q \in Requests \ {r} : Keeps(req'[q], req[q])
  <2>1. CASE CommitReschedule(r)
    <3>1. s # Idle /\ s.b \in Bookings
      BY <1>1, <2>1, SnapshotType DEF CommitReschedule
    <3> HIDE DEF s
    <3>2. req' = [q \in Requests |-> IF q = r THEN Idle ELSE Outdated(req[q], s.b)]
      BY <2>1 DEF CommitReschedule, s
    <3> QED
      BY <1>1, <3>1, <3>2, OutdatedType
  <2>2. CASE Done(r) /\ s # Idle
    BY <1>1, <2>2, DoneType DEF Base
  <2> QED
    BY <1>1, <2>1, <2>2, SnapshotType
       DEF Commit, CommitCreate, CommitStatus, CommitAssign, CommitReassign, CommitAccept, Abandon
<1>3. \A b \in Bookings : phase'[b] = "ACTIVE" =>
        \/ phase[b] = "ACTIVE" \/ (b = s.b /\ Revives(s)) \/ (b = s.b /\ CommitCreate(r))
  BY <1>1
     DEF Commit, CommitCreate, CommitStatus, CommitReschedule, CommitAssign, CommitReassign,
         CommitAccept, Abandon, Revives, calendar
<1>4. ASSUME NEW b \in Bookings, Rising(b)'
      PROVE  Rising(b) \/ (b = s.b /\ CommitCreate(r))
  <2>1. ASSUME NEW q \in Requests, req'[q] # Idle, req'[q].b = b, Revives(req'[q])
        PROVE  Rising(b)
    <3>1. q # r /\ Keeps(req'[q], req[q])
      BY <1>2, <2>1
    <3> QED
      BY <2>1, <3>1 DEF Keeps, Revives, Rising
  <2>2. phase'[b] = "ACTIVE" \/ \E q \in Requests : req'[q] # Idle /\ req'[q].b = b /\ Revives(req'[q])
    BY <1>4 DEF Rising, Revives
  <2> QED
    BY <1>2, <1>3, <2>1, <2>2 DEF Rising
<1>5. \A b \in Bookings :
        \/ (b \notin waived' => b \notin waived) /\ window'[b] = window[b]
        \/ b = s.b /\ CommitCreate(r)
        \/ b = s.b /\ s.op = "reschedule" /\ window'[b] = s.window
  BY <1>1
     DEF Commit, CommitCreate, CommitStatus, CommitReschedule, CommitAssign, CommitReassign,
         CommitAccept, Abandon, calendar
<1>6. CommitCreate(r) =>
        /\ s.op = "create"
        /\ s.waived => s.b \in waived'
        /\ window'[s.b] = s.window
        /\ \A q \in Requests \ {r} : req[q] # Idle => req[q].b # s.b
  <2>1. CASE CommitCreate(r)
    <3>1. \A q \in Requests : req[q] # Idle /\ req[q].b = s.b => req[q].op = "create"
      BY <1>1, <1>2, <2>1 DEF CommitCreate, Base, Typed
    <3>2. \A q \in Requests : req[q].op = "create" /\ req[q].b = s.b => q = r
      BY <2>1 DEF CommitCreate, Base, Typed
    <3>3. s.b \in Bookings /\ s.op = "create"
      BY <1>1, <1>2, <2>1 DEF CommitCreate
    <3> QED
      BY <1>1, <2>1, <3>1, <3>2, <3>3 DEF CommitCreate
  <2> QED
    BY <2>1
<1>7. ASSUME NEW h \in Int, NEW b \in InPlay(h)'
      PROVE  b \in InPlay(h)
  <2>1. b \in Bookings
    BY <1>7 DEF InPlay
  <2>2. ASSUME Rising(b)', b \notin waived', during(h, window'[b])
        PROVE  b \in InPlay(h)
    <3>1. CASE b = s.b /\ CommitCreate(r)
      BY <1>6, <2>1, <2>2, <3>1 DEF InPlay, Claims
    <3>2. CASE b = s.b /\ s.op = "reschedule" /\ window'[b] = s.window
      BY <1>4, <1>6, <2>1, <2>2, <3>2 DEF InPlay, Claims
    <3>3. CASE Rising(b) /\ b \notin waived /\ window'[b] = window[b]
      BY <2>1, <2>2, <3>3 DEF InPlay
    <3> QED
      BY <1>4, <1>5, <2>1, <2>2, <3>1, <3>2, <3>3
  <2>3. ASSUME NEW q \in Requests, req'[q].b = b, Claims(req[q], h)'
        PROVE  b \in InPlay(h)
    <3>1. /\ \/ req'[q].op = "create" /\ ~req'[q].waived
             \/ req'[q].op = "reschedule" /\ Rising(b)'
          /\ during(h, req'[q].window)
      BY <2>3 DEF Claims, Rising, during
    <3>2. q # r /\ req'[q] = req[q] /\ req[q] # Idle
      BY <1>2, <3>1, SnapshotType DEF Keeps
    <3>3. Claims(req[q], h)
      BY <1>4, <1>6, <2>1, <2>3, <3>1, <3>2 DEF Claims
    <3> QED
      BY <2>1, <2>3, <3>2, <3>3 DEF InPlay
  <2>4. \/ Rising(b)' /\ b \notin waived' /\ during(h, window'[b])
        \/ \E q \in Requests : req'[q].b = b /\ Claims(req[q], h)'
    BY <1>7 DEF InPlay, during
  <2> QED
    BY <2>2, <2>3, <2>4
<1> QED
  BY <1>7, QuietSlots

LEMMA DirectSlots ==
  ASSUME Base, SlotInv,
         \/ \E b \in Bookings, start \in Starts : GenerateVisit(b, start)
         \/ \E t \in Technicians, is \in BOOLEAN : SetAvailability(t, is)
         \/ \E i \in Rows : Release(i)
  PROVE  SlotInv'
<1>1. /\ req' = req /\ phase \in [Bookings -> Phase]
      /\ window \in [Bookings -> Window \cup {NoWindow}]
      /\ \A q \in Requests : req[q] # Idle => req[q].b \in Bookings
  BY SnapshotType DEF Base, Typed, GenerateVisit, SetAvailability, Release, calendar
<1>2. \A b \in Bookings :
        \/ phase'[b] = phase[b] /\ window'[b] = window[b] /\ (b \in waived' <=> b \in waived)
        \/ phase[b] = "NONE" /\ b \in waived'
           /\ \A q \in Requests : req[q].op = "create" => req[q].b # b
  BY <1>1 DEF GenerateVisit, SetAvailability, Release, calendar
<1>3. \A q \in Requests : req[q].op = "reschedule" => phase[req[q].b] # "NONE"
  BY SnapshotType DEF Base, Typed
<1>4. \A b \in Bookings : Rising(b)' => Rising(b) \/ (phase[b] = "NONE" /\ b \in waived')
  BY <1>1, <1>2 DEF Rising, Revives
<1>5. ASSUME NEW h \in Int, NEW b \in InPlay(h)'
      PROVE  b \in InPlay(h)
  <2>1. b \in Bookings
    BY <1>5 DEF InPlay
  <2>2. ASSUME Rising(b)', b \notin waived', during(h, window'[b])
        PROVE  b \in InPlay(h)
    BY <1>2, <1>4, <2>1, <2>2 DEF InPlay
  <2>3. ASSUME NEW q \in Requests, req[q].b = b, Claims(req[q], h)'
        PROVE  b \in InPlay(h)
    <3>1. /\ \/ req[q].op = "create" /\ ~req[q].waived
             \/ req[q].op = "reschedule" /\ Rising(b)'
          /\ during(h, req[q].window)
      BY <1>1, <2>3 DEF Claims, Rising, during
    <3>2. Claims(req[q], h)
      BY <1>3, <1>4, <2>1, <2>3, <3>1 DEF Claims
    <3> QED
      BY <2>1, <2>3, <3>2 DEF InPlay
  <2>4. \/ Rising(b)' /\ b \notin waived' /\ during(h, window'[b])
        \/ \E q \in Requests : req[q].b = b /\ Claims(req[q], h)'
    BY <1>1, <1>5 DEF InPlay, during
  <2> QED
    BY <2>2, <2>3, <2>4
<1> QED
  BY <1>5, QuietSlots

LEMMA InitSlots == Init => SlotInv
<1> SUFFICES ASSUME Init, NEW h \in Int
             PROVE  /\ IsFiniteSet(InPlay(h))
                    /\ Cardinality(InPlay(h)) <= MAX_CONCURRENT_PER_SLOT + Overlapping
  BY DEF SlotInv
<1>1. InPlay(h) = {}
  BY SnapshotType DEF Init, InPlay, Rising, Claims
<1>2. Cardinality(InPlay(h)) = 0 /\ IsFiniteSet(InPlay(h))
  BY <1>1, FS_EmptySet
<1>3. MAX_CONCURRENT_PER_SLOT + Overlapping >= 0
  BY OverlappingType, DispatchAssumption DEF Overlapping
<1> QED
  BY <1>2, <1>3

LEMMA NextSlots == Base /\ SlotInv /\ [Next]_vars => SlotInv'
<1> SUFFICES ASSUME Base, SlotInv, [Next]_vars
             PROVE  SlotInv'
  OBVIOUS
<1>1. CASE Next
  BY <1>1, DirectSlots, BeginHolds, HoldSlots, CommitSlots DEF Next
<1>2. CASE UNCHANGED vars
  <2>1. \A h \in Int : InPlay(h)' \subseteq InPlay(h)
    BY <1>2 DEF vars, calendar, InPlay, Rising, Claims, Revives, during
  <2> QED
    BY <2>1, QuietSlots
<1> QED
  BY <1>1, <1>2

\* However the slot checks and the writes of concurrent requests interleave, an hour
\* holds at most one booking too many for every other request
\* (bookings/availability.service.ts, assertSlotAvailable).
THEOREM OverbookedByRequestsAtMost == Spec => []OverbookingIsBounded
<1>1. Base /\ SlotInv => OverbookingIsBounded
  <2> SUFFICES ASSUME Base, SlotInv, NEW h \in Hours
               PROVE  Cardinality({b \in Bookings \ waived :
                                     phase[b] = "ACTIVE" /\ during(h, window[b])})
                        <= MAX_CONCURRENT_PER_SLOT + Overlapping
    BY DEF OverbookingIsBounded
  <2> DEFINE S == {b \in Bookings \ waived : phase[b] = "ACTIVE" /\ during(h, window[b])}
  <2>1. h \in Int
    <3>1. PICK start \in Starts : h \in start..(start + MaxLength - 1)
      BY DEF Hours
    <3> QED
      BY <3>1, DispatchAssumption
  <2>2. S \subseteq InPlay(h)
    BY DEF InPlay, Rising
  <2>3. /\ Cardinality(S) <= Cardinality(InPlay(h))
        /\ Cardinality(S) \in Nat /\ Cardinality(InPlay(h)) \in Nat
    BY <2>2, FS_Subset, FS_CardinalityType, InPlayFinite
  <2>4. /\ Cardinality(InPlay(h)) <= MAX_CONCURRENT_PER_SLOT + Overlapping
        /\ MAX_CONCURRENT_PER_SLOT \in Nat /\ Overlapping \in Int
    BY <2>1, OverlappingType, DispatchAssumption DEF SlotInv
  <2> QED
    BY <2>3, <2>4
<1> QED
  BY <1>1, InitBase, NextBase, InitSlots, NextSlots, PTL DEF Spec
=============================================================================
