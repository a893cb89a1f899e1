---------------------------- MODULE MCSupervision ----------------------------
\* The instance of Supervision that TLC checks: the order of the times is the
\* unit's and the constants' (15 s, 300 s, 5 s, 30 s, 60 s, 20 s), not their size.
EXTENDS Supervision
=============================================================================
