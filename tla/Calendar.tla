------------------------------ MODULE Calendar ------------------------------
(***************************************************************************)
(* The calendar arithmetic of Go's time package, as internal/reminder and  *)
(* internal/model use it: dates without a time of day, AddDate and Date    *)
(* with their normalisation.                                               *)
(*                                                                         *)
(* A date is the number of days since January 1, 2023.  Months are counted *)
(* from January 2023 too.  Earlier ones are negative; the leap years are    *)
(* right from 1901 to 2099.                                                *)
(***************************************************************************)
EXTENDS Integers

Year(month) == month \div 12

(* Leap days in the years before a year; 2024 is year 1. *)
LeapDaysBefore(year) == (year + 2) \div 4

DaysBefore == <<0, 31, 59, 90, 120, 151, 181, 212, 243, 273, 304, 334>>

(* The first day of a month. *)
FirstOf(month) ==
  LET inYear == month % 12
      leapDay == IF Year(month) % 4 = 1 /\ inYear > 1 THEN 1 ELSE 0
  IN  365 * Year(month) + LeapDaysBefore(Year(month)) + DaysBefore[inYear + 1] + leapDay

MonthLength(month) == FirstOf(month + 1) - FirstOf(month)

(* A month has 487/16 days on average, and no date is far from that. *)
MonthOf(day) ==
  LET about == (16 * day) \div 487
  IN  CHOOSE month \in (about - 1) .. (about + 1) : FirstOf(month) <= day /\ day < FirstOf(month + 1)

(* Days into the month, from 0. *)
DayOf(day) == day - FirstOf(MonthOf(day))

YearStart(day) == FirstOf(12 * Year(MonthOf(day)))

(* AddDate(0, months, 0): a day past the end of the month runs into the     *)
(* next one.                                                                *)
AddMonths(day, months) == FirstOf(MonthOf(day) + months) + DayOf(day)

=============================================================================
