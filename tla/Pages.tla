------------------------------- MODULE Pages -------------------------------
(***************************************************************************)
(* The pages that the reminder engine, the spending summary and the        *)
(* warranty dates are computed for, and what those promise of any input.   *)
(* An open page holds its input; the day it is read on is part of it.      *)
(***************************************************************************)
EXTENDS Spend

CONSTANTS
  Histories,    \* mileage histories, as sequences of points
  ReadAt,       \* days on which a page is read
  Readings,     \* what the odometer may show
  CustomFields, \* the date and mileage fields of a snooze form: [on, miles]
  Ledgers,      \* sequences of records with costs
  Warranties    \* [on, miles]

ASSUME PagesConstants ==
  /\ ReadAt \subseteq Int
  /\ \A odometer \in Readings : odometer \subseteq Nat /\ \A m, n \in odometer : m = n
  /\ Histories \subseteq Seq([on : Int, miles : Int])
  /\ \A recs \in Ledgers :
       /\ recs \in Seq([type : Int, on : Int, cost : SUBSET (0 .. MaxInt)])
       /\ \A i \in DOMAIN recs : \A c, d \in recs[i].cost : c = d
  /\ \A field \in CustomFields \cup Warranties : field.on \subseteq Int /\ field.miles \subseteq Int

VARIABLE page

Closed == [kind |-> "closed"]

PageInit == page = Closed

(* The projection of a vehicle's mileage (EvaluateAll). *)
OpenProjection(points, today) == page' = [kind |-> "projection", points |-> points, today |-> today]

(* snoozeReminder *)
OpenSnooze(preset, field, today, latest) ==
  page' = [kind |-> "snooze", preset |-> preset, field |-> field, today |-> today, latest |-> latest]

(* populateVehicle's spending summary *)
OpenSpend(recs, today) == page' = [kind |-> "spend", records |-> recs, today |-> today]

(* A record's warranty, on its form and in the list. *)
OpenWarranty(w, today, odometer) ==
  page' = [kind |-> "warranty", warranty |-> w, today |-> today, odometer |-> odometer]

PageNext ==
  \/ /\ page = Closed
     /\ \E today \in ReadAt :
          \/ \E points \in Histories : OpenProjection(points, today)
          \/ \E preset \in {"2w", "1m", "500mi", "custom"}, field \in CustomFields, latest \in Readings :
               OpenSnooze(preset, field, today, latest)
          \/ \E recs \in Ledgers : OpenSpend(recs, today)
          \/ \E w \in Warranties, odometer \in Readings : OpenWarranty(w, today, odometer)
  \/ page # Closed /\ page' = Closed

PageSpec == PageInit /\ [][PageNext]_page

-----------------------------------------------------------------------------
(* The hint tells the truth.  "Log mileage again on or after D" means that  *)
(* a reading on D, or in the month after, gives a span worth fitting, and   *)
(* none before D does; "log mileage again" that one today does; no hint     *)
(* that there is a rate, and the last hint that there is history enough     *)
(* and no rate.  The window that a page looks back on moves while the       *)
(* household waits for D (EstimateHint, windowPoints,                       *)
(* EstimateMilesPerDay).                                                    *)
HintComesTrue ==
  page.kind = "projection" =>
    LET points == page.points
        today == page.today
        hint == EstimateHint(points, today)
        loggedOn(day) == points \o <<[on |-> day, miles |-> 0]>>
        apart(history, day) ==
          \E i, j \in WindowPoints(history, day) : history[j].on - history[i].on >= MinEstimateSpanDays
        enough(day) == apart(loggedOn(day), day)
        rates == EstimateMilesPerDay(points, today)
    IN
    /\ hint.kind = "again" =>
         \A d \in hint.from :
           IF d = today THEN enough(today)
           ELSE \A day \in today .. d + 30 : enough(day) <=> day >= d
    /\ hint.kind = "noHistory" => ~enough(today)
    /\ hint.kind = "notIncreasing" => apart(points, today) /\ rates = None
    /\ hint.kind = "none" => \E rate \in rates : rate.miles > 0 /\ rate.days > 0

(* A snooze that the page accepts defers: the reminder is not due on that   *)
(* day with that reading.  It comes back when, and not before, every        *)
(* threshold that was set has passed, and "one month" never skips a month   *)
(* (ResolveSnooze, addOneMonth, customSnooze, activeSnooze).  A reading     *)
(* within 500 miles of the largest int64 is the exception.                  *)
SnoozeDefers ==
  page.kind = "snooze" =>
    \A s \in ResolveSnooze(page.preset, page.field.on, page.field.miles, page.today, page.latest) :
      (\A l \in page.latest : l + SnoozeMileStep <= MaxInt) =>
        /\ ActiveSnooze(s, page.today, page.latest)
        /\ page.preset = "1m" => \A d \in s.on : MonthOf(d) = MonthOf(page.today) + 1
        /\ \A day \in page.today .. page.today + 40, later \in Readings :
             LET passed == /\ \A d \in s.on : day >= d
                           /\ \A m \in s.miles : later # None /\ \A l \in later : l >= m
             IN  ActiveSnooze(s, day, later) <=> ~passed

(* The two summaries never differ, and neither sort has a choice: same      *)
(* lines, same order, same totals.  A total is the true sum, or the largest *)
(* int64 when that is more; so capping twice changes nothing                *)
(* (AggregateSpend, AddCents, VehicleSpend).                                *)
SpendAgrees ==
  page.kind = "spend" =>
    LET recs == page.records
        today == page.today
        priced == Priced(recs)
    IN
    /\ AggregateSpend(recs, today) = VehicleSpend(recs, today)
    /\ Cardinality(VehicleSpend(recs, today)) = 1
    /\ \A spend \in VehicleSpend(recs, today) :
         /\ spend.priced = Cardinality(priced)
         /\ spend.lifetime = LeastSum(Costs(recs, priced))
         /\ spend.yearToDate = LeastSum(Costs(recs, ThisYear(recs, priced, today)))
         /\ 0 <= spend.yearToDate /\ spend.yearToDate <= spend.lifetime

(* A warranty that a form accepts covers the day of the work, as long as    *)
(* the mileage allows, and once it has ended it has ended: no later day     *)
(* with a higher reading, or one that was unknown before, revives it        *)
(* (WarrantyActive, ValidateWarranty).                                      *)
WarrantyEndsForGood ==
  page.kind = "warranty" =>
    LET w == page.warranty
        today == page.today
        odometer == page.odometer
        within == \A m \in w.miles : \A o \in odometer : o <= m
    IN
    /\ ValidWarranty(w, today) /\ HasWarranty(w) => (WarrantyActive(w, today, odometer) <=> within)
    /\ \A day \in ReadAt, later \in Readings :
         /\ day >= today
         /\ odometer # None => later # None /\ \A o \in odometer, l \in later : l >= o
         /\ WarrantyActive(w, day, later)
         => WarrantyActive(w, today, odometer)

=============================================================================
