--------------------------- MODULE LimiterParams ---------------------------
(***************************************************************************)
(* The parameters of a rate limiter and what is assumed of them, shared by *)
(* the limiters and the modules that are built on them.                    *)
(***************************************************************************)
EXTENDS Integers

CONSTANTS
    Limit,   \* what may pass in a window; a limiter of 0 or less is switched off
    Window,  \* the length of a window
    MaxTime  \* bound: the clock

ASSUME LimiterAssumption ==
    /\ Limit \in Nat \ {0}
    /\ Window \in Nat \ {0}
    /\ MaxTime \in Nat
=============================================================================
