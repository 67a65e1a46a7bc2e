------------------------------ MODULE MCWsHub ------------------------------
\* WsHub for TLC: widgets are interchangeable.
EXTENDS WsHub, TLC

WidgetSymmetry == Permutations(Widget)
=============================================================================
