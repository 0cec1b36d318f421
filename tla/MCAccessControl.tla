--------------------------- MODULE MCAccessControl ---------------------------
EXTENDS AccessControl, TLC

\* Messages of one kind, and handlers, differ only by their names.
MCSymmetry == Permutations(Requests) \cup Permutations(Assertions)
                 \cup Permutations(Handlers)

=============================================================================
