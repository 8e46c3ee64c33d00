----------------------------- MODULE MCConnPool -----------------------------
(* TLC instances of ConnPool.                                              *)
EXTENDS ConnPool

\* A negative argument asks for no limit.
SomeLimits == {-1, 1, 2, 4}

============================================================================
