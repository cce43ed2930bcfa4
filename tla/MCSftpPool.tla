---------------------------- MODULE MCSftpPool ----------------------------
(* Model checking of SftpPool.  Members and threads are interchangeable,    *)
(* but no symmetry is declared: TLC's reduction is not sound for liveness.  *)
EXTENDS SftpPool
=============================================================================
