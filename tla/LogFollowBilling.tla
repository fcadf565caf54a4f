-------------------------- MODULE LogFollowBilling --------------------------
(****************************************************************************)
(* The daemon following one log implements Billing: a line is written when  *)
(* squid completed it, and billed as often as it is in users.used.          *)
(****************************************************************************)
EXTENDS LogFollow

Ledger == INSTANCE Billing WITH written <- log[0] \div 2,
                                bill    <- charged[0]

(* A reconfiguration that waits for an EINTR that never was bills nothing   *)
(* any more.                                                                *)
GoesOn == Ledger!Fairness \/ <>[](pc = "spin")

(* Undisturbed but for clean stops and commands of the queue, the daemon    *)
(* bills every line exactly once, in order, and none is forgotten.          *)
BillsOnce == Ledger!SafeOnce /\ GoesOn

(* With crashes, a lost connection, HUP and USR2 it still bills every line, *)
(* in order and without a gap, but perhaps more than once.                  *)
BillsAll == Ledger!SafeLoose /\ GoesOn
=============================================================================
