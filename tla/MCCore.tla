------------------------------- MODULE MCCore -------------------------------
\* Model-checking instances of Core.
EXTENDS Core, TLC

\* No action distinguishes one host from another when every host is an owner.
HostSymmetry == Permutations(Hosts)
=============================================================================
