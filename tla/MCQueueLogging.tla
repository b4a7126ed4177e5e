---------------------------- MODULE MCQueueLogging ----------------------------
(* Small instances of QueueLogging: two handlers, the second of which does  *)
(* not want every record.                                                   *)
EXTENDS QueueLogging

CONSTANTS r1, r2, r3, t1, t2

MCRecords == {r1, r2, r3}
MCThreads == {t1, t2}
MCWanted == {<<1, r1>>, <<1, r2>>, <<1, r3>>, <<2, r1>>, <<2, r2>>}
NoPairs == {}
FaultyPair == {<<2, r2>>}
==============================================================================
