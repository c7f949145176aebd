------------------------ MODULE MCCustomerAccounts ------------------------
(* Instances of CustomerAccounts for TLC.  customer_id 2 is seeded, so that *)
(* the number of customers and the largest customer_id differ.              *)
EXTENDS CustomerAccounts, TLC

MCSeeded == {2}
MCSeededAuth == [e \in Emails |-> IF e = "demo" THEN 2 ELSE None]

=============================================================================
