----------------------------- MODULE WeeklyMail -----------------------------
(***************************************************************************)
(* What the weekly digest promises the household, whoever runs it: a week  *)
(* is claimed before it is mailed, a claim may be withdrawn only while its *)
(* message is not out, each week is mailed at most once and in calendar    *)
(* order, and no recall appears in two letters.  (docs/ARCHITECTURE.md,    *)
(* "Email reminders"; internal/reminderemail/digest.go, Run.)              *)
(***************************************************************************)
EXTENDS Naturals

CONSTANTS MaxWeek, Recalls

VARIABLES
  stage,    \* how far each week's digest is
  letter    \* the recalls each mailed week announced

promised == <<stage, letter>>

Init ==
  /\ stage = [w \in 1..MaxWeek |-> "free"]
  /\ letter = [w \in 1..MaxWeek |-> {}]

Claim(w) ==
  /\ stage[w] = "free"
  /\ stage' = [stage EXCEPT ![w] = "claimed"]
  /\ UNCHANGED letter

Withdraw(w) ==
  /\ stage[w] = "claimed"
  /\ stage' = [stage EXCEPT ![w] = "free"]
  /\ UNCHANGED letter

Mail(w, recalls) ==
  /\ stage[w] = "claimed"
  /\ \A v \in 1..MaxWeek : stage[v] = "mailed" => v < w
  /\ \A v \in 1..MaxWeek : letter[v] \cap recalls = {}
  /\ stage' = [stage EXCEPT ![w] = "mailed"]
  /\ letter' = [letter EXCEPT ![w] = recalls]

Next ==
  \E w \in 1..MaxWeek :
    \/ Claim(w) \/ Withdraw(w)
    \/ \E recalls \in SUBSET Recalls : Mail(w, recalls)

Spec == Init /\ [][Next]_promised
=============================================================================
