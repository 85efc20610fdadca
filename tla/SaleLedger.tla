----------------------------- MODULE SaleLedger -----------------------------
(***************************************************************************)
(* What a point-of-sale ledger promises about each sale, with no requests, *)
(* locks, shifts or tokens: a sale is rung up once, and is then either     *)
(* voided while nothing of it was refunded, or refunded in parts that never *)
(* add up to more than its total; a sale that ended never changes again.   *)
(* PosSales implements this specification.                                 *)
(***************************************************************************)
EXTENDS Naturals

CONSTANTS Sales,    \* sale rows that may come to exist
          Amounts   \* possible totals of a sale, in currency units

VARIABLES status,   \* lifecycle of each sale
          total,    \* amount charged
          refunded  \* amount given back through returns

vars == <<status, total, refunded>>

Init == /\ status = [s \in Sales |-> "NONE"]
        /\ total = [s \in Sales |-> 0]
        /\ refunded = [s \in Sales |-> 0]

Ring(s) == /\ status[s] = "NONE"
           /\ status' = [status EXCEPT ![s] = "COMPLETED"]
           /\ \E t \in Amounts : total' = [total EXCEPT ![s] = t]
           /\ UNCHANGED refunded

Void(s) == /\ status[s] = "COMPLETED"
           /\ refunded[s] = 0
           /\ status' = [status EXCEPT ![s] = "CANCELLED"]
           /\ UNCHANGED <<total, refunded>>

RefundPart(s) ==
    /\ status[s] \in {"COMPLETED", "PARTIALLY_RETURNED"}
    /\ \E r \in refunded[s] .. total[s] :
          refunded' = [refunded EXCEPT ![s] = r]
    /\ status' = [status EXCEPT ![s] = "PARTIALLY_RETURNED"]
    /\ UNCHANGED total

\* The return that completes a sale settles it to the cent.
RefundRest(s) ==
    /\ status[s] \in {"COMPLETED", "PARTIALLY_RETURNED"}
    /\ refunded' = [refunded EXCEPT ![s] = total[s]]
    /\ status' = [status EXCEPT ![s] = "RETURNED"]
    /\ UNCHANGED total

Next == \E s \in Sales : Ring(s) \/ Void(s) \/ RefundPart(s) \/ RefundRest(s)

Spec == Init /\ [][Next]_vars
=============================================================================
