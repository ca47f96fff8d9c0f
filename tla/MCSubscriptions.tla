--------------------------- MODULE MCSubscriptions ---------------------------
EXTENDS Subscriptions, TLC
Symmetry == Permutations(Clients) \cup Permutations(JobThreads) \cup Permutations(Keys)
=============================================================================
