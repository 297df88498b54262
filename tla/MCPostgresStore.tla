-------------------------- MODULE MCPostgresStore --------------------------
(* Two workers of one thread, or one worker with two threads.              *)
EXTENDS PostgresStore

CONSTANTS w1, w2, t1, t2, c1, c2, p1, none
=============================================================================
