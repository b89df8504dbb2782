------------------------------ MODULE MCJournal ------------------------------
EXTENDS Journal, TLC

CONSTANTS s1, s2, d, c, t1, t2, t3

MCLazies == {s1}
MCTwoLazies == {s1, s2}
MCTasks == {t1, t2, t3}
MCTwoTasks == {t1, t2}
Alike == Permutations(MCTwoTasks)

=============================================================================
