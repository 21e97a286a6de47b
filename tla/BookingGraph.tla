---------------------------- MODULE BookingGraph ----------------------------
(***************************************************************************)
(* The status graphs of bookings and of technician assignments, as         *)
(* bookings/enums and technician-assignment/enums declare them.  Constant  *)
(* level: the modules that keep rows EXTEND it.                            *)
(***************************************************************************)

BookingStatus == {"PENDING", "CONFIRMED", "EN_ROUTE", "ARRIVED",
                  "IN_PROGRESS", "COMPLETED", "CANCELLED", "NO_SHOW"}

TransitionsSkippingWork ==
  {<<"PENDING", "CONFIRMED">>, <<"CONFIRMED", "EN_ROUTE">>, <<"EN_ROUTE", "ARRIVED">>,
   <<"ARRIVED", "IN_PROGRESS">>, <<"ARRIVED", "COMPLETED">>,
   <<"IN_PROGRESS", "COMPLETED">>}

\* The allowed moves, as the set of edges of the graph.
BOOKING_TRANSITIONS ==
  {<<"PENDING", "CONFIRMED">>,
   <<"CONFIRMED", "EN_ROUTE">>, <<"CONFIRMED", "NO_SHOW">>,
   <<"EN_ROUTE", "ARRIVED">>,
   <<"ARRIVED", "IN_PROGRESS">>, <<"ARRIVED", "NO_SHOW">>,
   <<"IN_PROGRESS", "COMPLETED">>}
  \cup ({"PENDING", "CONFIRMED", "EN_ROUTE", "ARRIVED", "IN_PROGRESS"}
          \X {"CANCELLED"})

isTransitionAllowed(from, to) == <<from, to>> \in BOOKING_TRANSITIONS

\* What a technician may set on a booking they are assigned to.
TECHNICIAN_SETTABLE == BookingStatus \ {"PENDING", "CANCELLED"}

\* The statuses that occupy a slot.
ACTIVE_STATUSES == {"PENDING", "CONFIRMED", "EN_ROUTE", "ARRIVED", "IN_PROGRESS"}

\* The statuses from which a customer or a technician may cancel or reschedule.
CANCELLABLE_BY_CUSTOMER == {"PENDING", "CONFIRMED"}

-----------------------------------------------------------------------------
AssignmentStatus == {"ASSIGNED", "ACCEPTED", "DECLINED", "REASSIGNED",
                     "CANCELLED", "COMPLETED"}

ASSIGNMENT_TRANSITIONS ==
  ({"ASSIGNED"} \X {"ACCEPTED", "DECLINED", "REASSIGNED", "CANCELLED"})
  \cup ({"ACCEPTED"} \X {"COMPLETED", "REASSIGNED", "CANCELLED"})

isAssignmentTransitionAllowed(from, to) == <<from, to>> \in ASSIGNMENT_TRANSITIONS

\* The statuses under which an assignment occupies its technician.
ACTIVE_ASSIGNMENT_STATUSES == {"ASSIGNED", "ACCEPTED"}
=============================================================================
