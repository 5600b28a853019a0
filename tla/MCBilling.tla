------------------------------ MODULE MCBilling ------------------------------
(* The instance of Billing that TLC checks. Deliveries, requests and PaymentIntents are
   interchangeable; the runs without a liveness property use that. *)
EXTENDS Billing, TLC

Symmetry == Permutations(Workers) \cup Permutations(Reqs) \cup Permutations(Intents)

=============================================================================
