------------------------------- MODULE Spend -------------------------------
(***************************************************************************)
(* What a vehicle's records cost, computed twice: by PostgreSQL for the    *)
(* page (internal/repository/postgres_spend.go) and by AggregateSpend, its *)
(* database-free form (internal/model/spend.go), both in int64 cents; and  *)
(* when a record's warranty holds (internal/model/warranty.go).            *)
(*                                                                         *)
(* A record has a type, a date and perhaps a cost.  A type is a number,    *)
(* its place in the order of the names, which are unique in lower case.    *)
(***************************************************************************)
EXTENDS DueStatus

(* ParseCents, of an amount's dollars and the digits after its point. *)
Fraction(digits) == IF digits = <<>> THEN 0 ELSE 10 * digits[1] + (IF Len(digits) = 2 THEN digits[2] ELSE 0)

TooLarge(dollars, cents) == dollars > (MaxInt - cents) \div 100

ParseCents(dollars, digits) ==
  IF Len(digits) > 2 \/ dollars < 0 \/ TooLarge(dollars, Fraction(digits)) THEN None
  ELSE {Wrap(dollars * 100 + Fraction(digits))}

(* AddCents: saturates.  Costs are not negative. *)
AddCents(a, b) == IF b > 0 /\ a > MaxInt - b THEN MaxInt ELSE Wrap(a + b)

(* A total kept with AddCents: running, and the whole. *)
CappedSums(amounts) ==
  LET sum[k \in 0 .. Len(amounts)] == IF k = 0 THEN 0 ELSE AddCents(sum[k - 1], amounts[k])
  IN  sum

CappedSum(amounts) == CappedSums(amounts)[Len(amounts)]

Least(sum) == IF sum > MaxInt THEN MaxInt ELSE sum

(* LEAST(sum(...), 9223372036854775807)::bigint, the sum being numeric. *)
LeastSum(amounts) == Least(Total(amounts))

(* The costs of some of the records, by their places; the others, which are *)
(* skipped, add nothing.                                                    *)
Costs(recs, some) == [i \in DOMAIN recs |-> IF i \in some THEN CHOOSE c \in recs[i].cost : TRUE ELSE 0]

Priced(recs) == {i \in DOMAIN recs : recs[i].cost # None}
OfType(recs, type) == {i \in Priced(recs) : recs[i].type = type}

(* January 1 through today. *)
ThisYear(recs, some, today) == {i \in some : YearStart(today) <= recs[i].on /\ recs[i].on <= today}

PricedTypes(recs) == {recs[i].type : i \in Priced(recs)}

(* The uncapped total of a type. *)
TypeTotal(recs, type) == Total(Costs(recs, OfType(recs, type)))

(* One line of the summary, its totals taken by sum. *)
TypeSpend(recs, type, today, sum(_)) ==
  LET mine == OfType(recs, type)
  IN  [type |-> type, records |-> Cardinality(mine), lifetime |-> sum(Costs(recs, mine)),
       yearToDate |-> sum(Costs(recs, ThisYear(recs, mine, today)))]

MutLessByShown(recs, left, right) ==
  IF Least(TypeTotal(recs, left)) # Least(TypeTotal(recs, right))
  THEN Least(TypeTotal(recs, left)) > Least(TypeTotal(recs, right)) ELSE left < right

(* The comparison of the sort: highest total first, uncapped, then by name. *)
Less(recs, left, right) ==
  IF TypeTotal(recs, left) # TypeTotal(recs, right)
  THEN TypeTotal(recs, left) > TypeTotal(recs, right) ELSE left < right

(* The orders that sort.SliceStable may leave the types in. *)
Sorted(recs) ==
  {order \in SetToSeqs(PricedTypes(recs)) :
     \A i, j \in DOMAIN order : i < j => ~Less(recs, order[j], order[i])}

(* The orders that ORDER BY sum(r.cost_cents) DESC, lower(st.name) allows. *)
SqlSorted(recs) ==
  {order \in SetToSeqs(PricedTypes(recs)) :
     \A i, j \in DOMAIN order : i < j =>
       \/ TypeTotal(recs, order[i]) > TypeTotal(recs, order[j])
       \/ TypeTotal(recs, order[i]) = TypeTotal(recs, order[j]) /\ order[i] < order[j]}

Summary(lines) ==
  [types |-> lines,
   priced |-> Total([i \in DOMAIN lines |-> lines[i].records]),
   yearToDate |-> CappedSum([i \in DOMAIN lines |-> lines[i].yearToDate]),
   lifetime |-> CappedSum([i \in DOMAIN lines |-> lines[i].lifetime])]

LinesOf(order, recs, today, sum(_)) == [i \in DOMAIN order |-> TypeSpend(recs, order[i], today, sum)]

(* AggregateSpend: capped while adding, sorted by the uncapped totals. *)
AggregateSpend(recs, today) ==
  {Summary(LinesOf(order, recs, today, CappedSum)) : order \in Sorted(recs)}

(* VehicleSpend: GROUP BY and ORDER BY of the query, sums capped at the end. *)
VehicleSpend(recs, today) ==
  {Summary(LinesOf(order, recs, today, LeastSum)) : order \in SqlSorted(recs)}

-----------------------------------------------------------------------------
(* Warranties.                                                              *)

HasWarranty(w) == w.on # None \/ w.miles # None

MutAnyLimit(w, today, odometer) ==
  /\ HasWarranty(w)
  /\ \/ \E d \in w.on : today <= d
     \/ \E m \in w.miles : \A o \in odometer : o <= m

(* WarrantyActive: through the day itself and the limit itself; a limit in  *)
(* miles does not count against an unknown odometer.                        *)
WarrantyActive(w, today, odometer) ==
  /\ HasWarranty(w)
  /\ \A d \in w.on : today <= d
  /\ \A m \in w.miles : \A o \in odometer : o <= m

(* ValidateWarranty *)
ValidWarranty(w, occurredOn) == \A d \in w.on : d >= occurredOn

=============================================================================
