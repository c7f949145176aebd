--------------------------- MODULE MCOfferServing ---------------------------
(* Instances of OfferServing for TLC. *)
EXTENDS OfferServing

CONSTANTS n1, p1, p2

Low(id, active) == [listed |-> TRUE, active |-> active, id |-> id,
                    risk |-> "low", credit |-> TRUE]
High(id, active) == [listed |-> TRUE, active |-> active, id |-> id,
                     risk |-> "high", credit |-> FALSE]

\* Rows of one id, which two names may have, and a row without an id, which
\* gets the id of its name.
MC_Rows == {NoRow, Low(p1, TRUE), High(p1, TRUE), Low(NoId, TRUE)}
MC_RowsInactive == {NoRow, Low(p1, TRUE), High(p1, TRUE), High(p1, FALSE)}
MC_NameId == [n \in Names |-> IF n = n1 THEN p1 ELSE p2]
MC_DefaultRisk == [n \in DefaultProducts |-> "moderate"]

Seeded(profiling, risk, fragile) ==
  [known |-> TRUE, profiling |-> profiling, automated |-> profiling,
   declared |-> risk, assessed |-> risk, fragile |-> fragile]
Unknown == [known |-> FALSE, profiling |-> FALSE, automated |-> FALSE,
            declared |-> NoRisk, assessed |-> NoRisk, fragile |-> FALSE]

\* Seeded customers: one at moderate risk, one at high risk but fragile; and one
\* that has yet to register, without any consent.
MC_Customers == {Unknown, Seeded(TRUE, "moderate", FALSE),
                 Seeded(TRUE, "high", TRUE)}
=============================================================================
