------------------------------- MODULE MCPanel -------------------------------
\* The instance of Panel that TLC checks.  No text means more than another.
EXTENDS Panel, TLC

CONSTANTS a, b
Symmetry == Permutations({a, b})
=============================================================================
