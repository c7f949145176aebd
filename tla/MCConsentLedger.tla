-------------------------- MODULE MCConsentLedger --------------------------
(***************************************************************************)
(* Small instances of ConsentLedger: the two family flags, which are       *)
(* synchronised, and one marketing flag, which is not.                     *)
(***************************************************************************)
EXTENDS ConsentLedger, TLC

CONSTANTS family, sensitive, push, h1, h2

MCFields == {family, sensitive, push}
MCOnboardingFields == {family, push}

\* A synchronised flag, one that is not, and the two family flags set apart.
MCMixedBodies == [{family} -> BOOLEAN] \union [{push} -> BOOLEAN]
                   \union {family :> FALSE @@ sensitive :> TRUE}
MCFamilyBodies == [{family} -> BOOLEAN]
MCPushBodies == [{push} -> BOOLEAN]
MCNoFields == {}
=============================================================================
