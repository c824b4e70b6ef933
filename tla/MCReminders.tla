---------------------------- MODULE MCReminders ----------------------------
(***************************************************************************)
(* Reminders on a small instance: two records of two services, on and      *)
(* around a month end of a leap year; and the pages.  A page changes no    *)
(* row and its input is its own, so all are opened before the first row.   *)
(***************************************************************************)
EXTENDS Reminders, Pages

(* January 31, March 2 and 4, 2024: "February 31" is March 2. *)
MCDays == {395, 426, 428}

MCRecordDays == {395, 425}

MCMileages == {{}, {600}}

(* A month or 500 miles, or more miles than an int64 can hold. *)
MCIntervals == {[months |-> {1}, miles |-> {500}], [months |-> {}, miles |-> {MaxInt}]}

MCSnoozes == {[preset |-> "2w", on |-> {}, miles |-> {}],
              [preset |-> "custom", on |-> {426}, miles |-> {1100}],
              [preset |-> "clear", on |-> {}, miles |-> {}]}

SeqsUpTo(S, n) == UNION {[1 .. k -> S] : k \in 0 .. n}

(* A year before, a fortnight apart, and ahead of the days of reading. *)
MCHistories == SeqsUpTo([on : {28, 29, 381, 394, 411, 412, 425, 430}, miles : {100, 600}], 3)

MCReadAt == {394, 395, 425}

MCReadings == {{}, {0}, {600}, {1900}}

MCCustomFields == [on : {{}, {394}, {396}, {425}}, miles : {{}, {0}, {600}, {700}}]

(* $12.00, $12.01, $20.00, and $20.01, which does not fit into an int64 and *)
(* is refused.                                                              *)
MCCosts == {ParseCents(dollars, digits) : dollars \in {12, 20}, digits \in {<<>>, <<0, 1>>}}

(* Before the year, on its first day, and ahead of the day of reading.      *)
MCLedgers == SeqsUpTo([type : {1, 2}, on : {364, 365, 395}, cost : MCCosts], 3)

MCWarranties == [on : {{}, {394}, {424}}, miles : {{}, {0}, {600}, {700}}]

MCInit == Init /\ PageInit

MCNext ==
  \/ Next /\ page = Closed /\ UNCHANGED page
  \/ Init /\ reading = {} /\ PageNext /\ UNCHANGED vars

MCSpec == MCInit /\ [][MCNext]_<<vars, page>>

=============================================================================
