----------------------- MODULE MCTransactionalBackend -----------------------
(* Label rules for the runs of TransactionalBackend (5 and 6 are letters). *)
EXTENDS TransactionalBackend

A_A == <<5, Slash, 5>>
A_B == <<5, Slash, 6>>
A_A_A == <<5, Slash, 5, Slash, 5>>

TwoParents == {A_A, A_A_A, A_B}
=============================================================================
