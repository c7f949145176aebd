-------------------------- MODULE MCSourceMonitor --------------------------
(* Instances of SourceMonitor for TLC. *)
EXTENDS SourceMonitor

\* Two orders of the same two pages: checks that overlap may deadlock.
MC_Lists == {<<"u", "v">>, <<"v", "u">>}
=============================================================================
