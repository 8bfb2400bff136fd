------------------------ MODULE MCThreadsafeBackend ------------------------
(* The runs of ThreadsafeBackend need no definitions beyond its constants.  *)
EXTENDS ThreadsafeBackend
=============================================================================
