---------------------------- MODULE MCConnection ----------------------------
EXTENDS Connection
CONSTANTS p, q
TwoAccounts == {p, q}
AnyList == {<<>>, <<q>>, <<p, q>>}
=============================================================================
