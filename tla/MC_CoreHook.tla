----------------------------- MODULE MC_CoreHook -----------------------------
(* Core.Hook in test mode, for TLC. *)
EXTENDS CoreHook

\* One "hosts:" line, so that a lossy restore of several lines plays no part.
MCOrigHosts == <<"hosts: files mdns4_minimal dns">>
MCEmpty == ""
MCFilesDns == "hosts: files dns"
\* One app id, and an id the caller never set up.
MCIds == {1, 2}
=============================================================================
