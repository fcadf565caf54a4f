------------------------------- MODULE Billing -------------------------------
(****************************************************************************)
(* What the accounting promises, without files, positions or signals: lines *)
(* are written, and each is billed, in the order they were written and      *)
(* leaving no gap.  Under Spec a line is billed at most once between two    *)
(* recounts; under LooseSpec it may be billed again.                        *)
(****************************************************************************)
EXTENDS Naturals

CONSTANTS MaxLines     \* bound: lines ever written

VARIABLES written,     \* lines written so far
          bill         \* how often each line was billed

LineNos == 1..MaxLines

Init == written = 0 /\ bill = [k \in LineNos |-> 0]

Write ==
  /\ written < MaxLines
  /\ written' = written + 1
  /\ UNCHANGED bill

(* All lines before k are billed already. *)
InTurn(k) == k <= written /\ \A j \in 1..(k-1) : bill[j] >= 1

BillNew(k) ==
  /\ InTurn(k) /\ bill[k] = 0
  /\ bill' = [bill EXCEPT ![k] = 1]
  /\ UNCHANGED written

BillAgain(k) ==
  /\ InTurn(k)
  /\ bill' = [bill EXCEPT ![k] = @ + 1]
  /\ UNCHANGED written

(* A recount starts over. *)
Clear ==
  /\ bill' = [k \in LineNos |-> 0]
  /\ UNCHANGED written

billVars == <<written, bill>>

NextOnce  == Write \/ Clear \/ \E k \in LineNos : BillNew(k)
NextLoose == NextOnce \/ \E k \in LineNos : BillAgain(k)

SafeOnce  == Init /\ [][NextOnce]_billVars
SafeLoose == Init /\ [][NextLoose]_billVars

Fairness == WF_billVars(\E k \in LineNos : BillNew(k))

Spec      == SafeOnce /\ Fairness
LooseSpec == SafeLoose /\ Fairness
=============================================================================
