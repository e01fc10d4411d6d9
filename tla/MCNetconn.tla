------------------------------ MODULE MCNetconn ------------------------------
(* Two builds for model checking Netconn: one whose buffers fit the pool, and one *)
(* whose buffers do not.                                                          *)
EXTENDS Netconn

MCSizes == {<<1, 1, 1, 1, 1, 1, 1, 1>>, <<1, 1, 1, 1, 7, 1, 1, 2>>}
=============================================================================
