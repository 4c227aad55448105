--------------------------- MODULE MCPopxlSession ---------------------------
(* Instances of PopxlSession for TLC. *)
EXTENDS PopxlSession

CONSTANTS a, b, u, v

OneSession  == {a}
TwoSessions == {a, b}
OneVar      == {u}
TwoVars     == {u, v}
TwoValues   == {0, 1}
None        == {}

\* The transfer at the end of a context may fail, and nothing else.
Teardowns == {"teardown"}

\* Whatever call fails, of those that talk to the device or check arguments.
Failures == {"attach", "setup", "teardown", "run", "write"}

\* The user manages the device himself, and uses several sessions at a time.
OwnDevice == {"device", "share", "attach", "setup"}
=============================================================================
