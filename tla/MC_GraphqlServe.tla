--------------------------- MODULE MC_GraphqlServe ---------------------------
(* Serve with bounded interrupts, for TLC. *)
EXTENDS GraphqlServe

\* Two interrupts: one may be dropped by the full stopper buffer, one may
\* arrive while the application goroutine is between the flag read and its
\* handshake.
MCMaxSignals == 2
=============================================================================
