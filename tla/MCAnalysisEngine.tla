-------------------------- MODULE MCAnalysisEngine --------------------------
(* Instances of AnalysisEngine for TLC. *)
EXTENDS AnalysisEngine

\* A model in use, and a self-hosted one that is configured, behind a proxy that
\* asks for a key.
MC_Seeded ==
  <<[name |-> "gpt", status |-> "active", config |-> {"api_key"},
     suggested_by |-> "staff", vetted |-> TRUE, refused |-> FALSE],
    [name |-> "local", status |-> "available", config |-> {"api_key", "base_url"},
     suggested_by |-> "staff", vetted |-> FALSE, refused |-> FALSE]>>
MC_Suggested == <<"gpt">>
MC_Needs == [gpt |-> "api_key", local |-> "base_url"]
MC_Rank == [gpt |-> 1, local |-> 2]
=============================================================================
