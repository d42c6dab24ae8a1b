--------------------------- MODULE MCProposalSend ---------------------------
EXTENDS ProposalSend, TLC
Symmetry == Permutations(Requests)
=============================================================================
