----------------------------- MODULE MCGateway -----------------------------
EXTENDS Gateway, TLC
CONSTANTS a, b

\* Two stocks asked for by a careless wrapper, the account by a careful one,
\* one plural request and one page of the ranking.
AFewRequests == {[tr |-> "opt10001", code |-> a], [tr |-> "opt10001", code |-> b],
                 [tr |-> "opw00001", code |-> a], [tr |-> "kw", code |-> b],
                 [tr |-> "opt10030", code |-> a]}
=============================================================================
