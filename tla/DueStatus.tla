----------------------------- MODULE DueStatus -----------------------------
(***************************************************************************)
(* When a reminder is due: internal/reminder/reminder.go (Evaluate, the    *)
(* projection from the mileage history and its hint) and snooze.go         *)
(* (ResolveSnooze, activeSnooze).                                          *)
(*                                                                         *)
(* A pointer that may be nil is a set of at most one value.  Mileages are  *)
(* int64: a sum past MaxInt wraps.  The driving rate, a float64 there, is  *)
(* an exact fraction here.  Details and phrases are left out, except which *)
(* of the hints is shown.                                                  *)
(***************************************************************************)
EXTENDS Calendar, FiniteSets, SequencesExt

CONSTANTS
  MaxInt                \* the largest int64

ASSUME DueConstants == MaxInt \in Nat

SoonDays == 30
SoonMiles == 500
EstimateWindowMonths == 12
MinEstimateSpanDays == 14
MaxProjectionDays == 3650
SnoozeMileStep == 500

(* int64 addition of non-negative numbers. *)
Wrap(n) == IF n > MaxInt THEN n - 2 * (MaxInt + 1) ELSE n

None == {}

-----------------------------------------------------------------------------
(* The mileage history: a sequence of points [on, miles].                   *)

WindowStart(today) == AddMonths(today, -EstimateWindowMonths)

(* windowPoints: the places of the points it keeps. *)
WindowPoints(points, today) ==
  {i \in DOMAIN points : WindowStart(today) <= points[i].on /\ points[i].on <= today}

(* The running totals of a sequence of numbers, and the whole. *)
Sums(values) ==
  LET sum[k \in 0 .. Len(values)] == IF k = 0 THEN 0 ELSE sum[k - 1] + values[k]
  IN  sum

Total(values) == Sums(values)[Len(values)]

(* Of the values in the places kept. *)
SumOver(values, kept) == Total([i \in DOMAIN values |-> IF i \in kept THEN values[i] ELSE 0])

FirstDay(points, seen) == CHOOSE d \in {points[i].on : i \in seen} : \A i \in seen : d <= points[i].on
LastDay(points, seen)  == CHOOSE d \in {points[i].on : i \in seen} : \A i \in seen : d >= points[i].on

(* Enough history to fit a line through. *)
Spans(points, seen) ==
  Cardinality(seen) >= 2 /\ LastDay(points, seen) - FirstDay(points, seen) >= MinEstimateSpanDays

(* n times the covariance of two quantities, as the sums of their products. *)
Covariance(x, y, seen) ==
  Cardinality(seen) * SumOver([i \in DOMAIN x |-> x[i] * y[i]], seen) - SumOver(x, seen) * SumOver(y, seen)

(* EstimateMilesPerDay: the slope of the least-squares line, if there is    *)
(* one that increases.                                                      *)
EstimateMilesPerDay(points, today) ==
  LET seen == WindowPoints(points, today)
      xs == [i \in DOMAIN points |-> points[i].on - WindowStart(today)]
      ys == [i \in DOMAIN points |-> points[i].miles]
  IN  IF Spans(points, seen) /\ Covariance(xs, ys, seen) > 0
      THEN {[miles |-> Covariance(xs, ys, seen), days |-> Covariance(xs, xs, seen)]} ELSE None

(* EstimateHint: nothing; no history; again, now or from a date on; the     *)
(* mileage does not increase.                                               *)
Hint(kind, from) == [kind |-> kind, from |-> from]

MutNextFromLast(points, seen) == LastDay(points, seen)

(* The reading that the next one is to be far enough from. *)
SpanFrom(points, seen) == FirstDay(points, seen)

EstimateHint(points, today) ==
  LET seen == WindowPoints(points, today)
      next == SpanFrom(points, seen) + MinEstimateSpanDays
  IN  IF seen = {} THEN Hint("noHistory", None)
      ELSE IF ~Spans(points, seen) THEN Hint("again", IF next <= today THEN {today} ELSE {next})
      ELSE IF EstimateMilesPerDay(points, today) = None THEN Hint("notIncreasing", None)
      ELSE Hint("none", None)

-----------------------------------------------------------------------------
(* Snoozes: [on, miles], each a date or mileage or none.                    *)

NotSnoozed == [on |-> None, miles |-> None]

(* activeSnooze: deferred until each of the thresholds that are set has     *)
(* passed.                                                                  *)
ActiveSnooze(snooze, today, latest) ==
  \/ \E d \in snooze.on : today < d
  \/ \E m \in snooze.miles : \A l \in latest : l < m

MutAddDate(today) == AddMonths(today, 1)

(* addOneMonth: the same day of the next month, or its last. *)
AddOneMonth(today) ==
  LET target == MonthOf(today) + 1
      day == IF DayOf(today) < MonthLength(target) THEN DayOf(today) ELSE MonthLength(target) - 1
  IN  FirstOf(target) + day

(* customSnooze: the date lies ahead and the mileage above the reading. *)
CustomSnoozes(on, miles, today, latest) ==
  IF /\ \A d \in on : d > today
     /\ \A m \in miles : m > 0 /\ latest # None /\ \A l \in latest : m > l
     /\ on # None \/ miles # None
  THEN {[on |-> on, miles |-> miles]} ELSE {}

(* ResolveSnooze: the snooze to store, or none when the choice is refused.  *)
(* on and miles are the fields of a custom choice.                          *)
ResolveSnooze(preset, on, miles, today, latest) ==
  CASE preset = "2w"     -> {[on |-> {today + 14}, miles |-> None]}
    [] preset = "1m"     -> {[on |-> {AddOneMonth(today)}, miles |-> None]}
    [] preset = "500mi"  -> {[on |-> None, miles |-> {Wrap(l + SnoozeMileStep)}] : l \in latest}
    [] preset = "clear"  -> {NotSnoozed}
    [] preset = "custom" -> CustomSnoozes(on, miles, today, latest)
    [] OTHER             -> {}

-----------------------------------------------------------------------------
(* Evaluate.  A reminder r has months and miles (its intervals), enabled,   *)
(* snooze, created (the day), starting (a mileage), baseline (a record's    *)
(* [on, miles]) and latest (the vehicle's mileage).                         *)

(* The day and the mileage the intervals are counted from. *)
BaselineDay(r) == IF r.baseline = None THEN {r.created} ELSE {b.on : b \in r.baseline}
BaselineMiles(r) == IF r.baseline = None THEN r.starting ELSE UNION {b.miles : b \in r.baseline}

DueDate(r) == {AddMonths(d, m) : d \in BaselineDay(r), m \in r.months}

DueMileage(r) == {Wrap(b + m) : b \in BaselineMiles(r), m \in r.miles}

MutDueOnTheDay(r, today) == \/ \E d \in DueDate(r) : today = d
                            \/ \E d \in DueMileage(r) : \E l \in r.latest : l >= d

IsDue(r, today) == \/ \E d \in DueDate(r) : today >= d
                   \/ \E d \in DueMileage(r) : \E l \in r.latest : l >= d

(* MilesLeft, set while a mileage interval has not been reached. *)
MilesLeft(r) == {p[1] - p[2] : p \in {q \in DueMileage(r) \X r.latest : q[2] < q[1]}}

(* math.Round of left / rate. *)
DaysFor(left, rate) == (2 * left * rate.days + rate.miles) \div (2 * rate.miles)

ProjectedDueDate(r, today, rates) ==
  {today + DaysFor(p[1], p[2]) : p \in
     {q \in MilesLeft(r) \X rates : q[1] * q[2].days <= MaxProjectionDays * q[2].miles}}

IsSoon(r, today, rates) ==
  \/ \E d \in DueDate(r) : today >= d - SoonDays
  \/ \E left \in MilesLeft(r) : left <= SoonMiles
  \/ \E d \in ProjectedDueDate(r, today, rates) : d <= today + SoonDays

Evaluate(r, today, rates) ==
  CASE ~r.enabled -> "disabled"
    [] r.enabled /\ ActiveSnooze(r.snooze, today, r.latest) -> "snoozed"
    [] OTHER -> IF IsDue(r, today) THEN "overdue"
                ELSE IF IsSoon(r, today, rates) THEN "due-soon" ELSE "ok"

(* EvaluateAll, for the reminders of one vehicle. *)
EvaluateWith(r, points, today) == Evaluate(r, today, EstimateMilesPerDay(points, today))

=============================================================================
