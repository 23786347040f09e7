--------------------------- MODULE MCPassphrase ---------------------------
EXTENDS Passphrase, TLC

Symmetry == Permutations(Approvers) \cup Permutations(Admins)

\* The two files meet only in the passphrase a prompt was opened with.  Many
\* guesses are explored with at most one passphrase, and a second passphrase
\* with at most one wrong guess.
ManyOfOneKind == wrong <= 1 \/ chosen <= 1
===========================================================================
