------------------------- MODULE MCConsentRegistry -------------------------
(* Instances of ConsentRegistry for TLC. *)
EXTENDS ConsentRegistry

MC_Sheets == <<"consent_texts", "regulatory_sources">>

\* Three editions that share the text a; the second has no sources.
MC_Content == <<[consent_texts |-> {"a", "b"}, regulatory_sources |-> {"a"}],
                [consent_texts |-> {"a"}, regulatory_sources |-> {}],
                [consent_texts |-> {"a", "c"}, regulatory_sources |-> {"a", "b"}]>>
=============================================================================
