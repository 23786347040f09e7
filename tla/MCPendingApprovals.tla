------------------------- MODULE MCPendingApprovals -------------------------
EXTENDS PendingApprovals, TLC

\* Gateways run the same program, and so do operators; where none of them has an
\* audit logger, no property tells them apart.
ProcessSymmetry == Permutations(Gateways) \cup Permutations(Operators)

\* The state without the histories that no step reads, for a run whose properties
\* do not read them either.
WithoutTelling == <<store, now, lock, pc, op, args, memory, todo, recorded,
                    grants, cancelled>>
=============================================================================
