---------------------------- MODULE MCRateLimit ----------------------------
EXTENDS RateLimit

\* Off, tight, loose, and a window of two.
SomeLimits == {[active |-> a, hourly |-> h] : a \in 0..2, h \in {0, 2}}

\* One limit throughout.
OneLimit == {[active |-> 1, hourly |-> 0]}
=============================================================================
