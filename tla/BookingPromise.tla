--------------------------- MODULE BookingPromise ---------------------------
(***************************************************************************)
(* What the booking API promises its callers: a booking is opened pending, *)
(* moves along the edges of the status graph and nowhere else, and is in   *)
(* the hands of at most one technician at a time.  A booking that two      *)
(* callers move, or assign, at once loses that half of the promise, and no *)
(* other booking loses anything.  There are no requests, no snapshots and  *)
(* no rows here.                                                           *)
(***************************************************************************)
EXTENDS BookingGraph

CONSTANTS Bookings, Technicians

VARIABLES
  status,    \* the status of each booking
  holders,   \* the technicians whose job it is: none, or one
  raced,     \* the bookings that two callers have moved at once
  contested  \* the bookings that two callers have assigned at once

overlaps == <<raced, contested>>

Init ==
  /\ status = [b \in Bookings |-> "NONE"]
  /\ holders = [b \in Bookings |-> {}]
  /\ raced = {}
  /\ contested = {}

Overlap(b) ==
  /\ raced' \in {raced, raced \cup {b}}
  /\ contested' \in {contested, contested \cup {b}}
  /\ UNCHANGED <<status, holders>>

Open(b) ==
  /\ status[b] = "NONE"
  /\ status' = [status EXCEPT ![b] = "PENDING"]
  /\ UNCHANGED <<holders, overlaps>>

Move(b, next) ==
  /\ isTransitionAllowed(status[b], next)
  /\ status' = [status EXCEPT ![b] = next]
  /\ UNCHANGED <<holders, overlaps>>

Give(b, t) ==
  /\ status[b] # "NONE"
  /\ holders[b] = {}
  /\ holders' = [holders EXCEPT ![b] = {t}]
  /\ UNCHANGED <<status, overlaps>>

HandOver(b, t) ==
  /\ holders[b] # {}
  /\ holders' = [holders EXCEPT ![b] = {t}]
  /\ UNCHANGED <<status, overlaps>>

Release(b) ==
  /\ holders[b] # {}
  /\ holders' = [holders EXCEPT ![b] = {}]
  /\ UNCHANGED <<status, overlaps>>

\* A raced booking may go to any status, a contested one into any hands.
Lapse(b, next, technicians) ==
  /\ b \in raced \cup contested
  /\ status' = [status EXCEPT ![b] = next]
  /\ next = status[b] \/ isTransitionAllowed(status[b], next) \/ b \in raced
  /\ holders' = [holders EXCEPT ![b] = technicians]
  /\ technicians = holders[b] \/ b \in contested
  /\ UNCHANGED overlaps

Next ==
  \E b \in Bookings :
    \/ Open(b) \/ Release(b) \/ Overlap(b)
    \/ \E next \in BookingStatus : Move(b, next)
    \/ \E t \in Technicians : Give(b, t) \/ HandOver(b, t)
    \/ \E next \in BookingStatus, technicians \in SUBSET Technicians :
         Lapse(b, next, technicians)

Spec == Init /\ [][Next]_<<status, holders, overlaps>>
=============================================================================
