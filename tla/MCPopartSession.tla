-------------------------- MODULE MCPopartSession --------------------------
(* Instances of PopartSession for TLC. *)
EXTENDS PopartSession

CONSTANTS a, b, u, v

OneSession  == {a}
TwoSessions == {a, b}
OneVar      == {u}
TwoVars     == {u, v}
TwoValues   == {0, 1}

\* The device may be busy, be detached, and have engines loaded at any time.
Anything    == {"attach", "detach", "reload"}

\* An engine may be loaded at any time, and nothing else.
Reloads     == {"reload"}
=============================================================================
