------------------------------ MODULE MCWebSSH ------------------------------
EXTENDS WebSSH, TLC

\* Tickets differ from each other only by their names, and so do connections.
MCSymmetry == Permutations(Tickets) \cup Permutations(Conns)

=============================================================================
