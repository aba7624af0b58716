-------------------------- MODULE MCUpstreamFetch --------------------------
(* Small instances of UpstreamFetch for TLC. *)
EXTENDS UpstreamFetch, TLC

\* Requests are interchangeable.
Symmetry == Permutations(Requests)

Proxying == {FALSE}
Redirecting == {TRUE}
BothModes == {FALSE, TRUE}

NoFaults == {}
Cancellations == {"cancel"}
BadUpstreams == {"upstream"}
AllFaults == {"cancel", "upstream", "io"}
=============================================================================
