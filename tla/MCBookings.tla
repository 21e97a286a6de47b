----------------------------- MODULE MCBookings -----------------------------
(* Instances of Bookings for TLC. *)
EXTENDS Bookings, TLC, FiniteSets, FiniteSetsExt

\* Requests and technicians are interchangeable: no action or property names one.
Symmetric == Permutations(Requests) \cup Permutations(Technicians)

\* Bookings too, where all of them are warranted.
AllSymmetric == Symmetric \cup Permutations(Bookings)

\* The state without the history of overlaps, which decides nothing.
Rows == <<status, history, warranty, assignments, req>>

Recorded(b) == Len(history[b])
Rescheduled(b) == Cardinality({i \in DOMAIN history[b] : history[b][i].prev = history[b][i].new})

\* A second row that moves nothing shows nothing new.
RescheduledOnce == MapThenSumSet(Rescheduled, Bookings) <= 1

\* One booking's whole course beside the other's beginning; overlaps early, of one kind.
ShortTrails ==
  /\ MapThenSumSet(Recorded, Bookings) <= MaxHistory
  /\ raced \cup contested # {} => MapThenSumSet(Recorded, Bookings) <= 3
  /\ raced = {} \/ contested = {}

\* A handover comes before the work is done.
EarlyHandovers ==
  Len(assignments) = 2 => MapThenSumSet(Recorded, Bookings) <= 5
=============================================================================
