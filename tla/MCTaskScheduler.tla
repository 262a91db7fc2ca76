--------------------------- MODULE MCTaskScheduler ---------------------------
(* TLC instances of TaskScheduler: the cron expression "every even tick".   *)
EXTENDS TaskScheduler, TLC

MCCronNext == [c \in Crons |-> [t \in Time |-> (t \div 2 + 1) * 2]]

EntrySymmetry == Permutations(Entries)
=============================================================================
