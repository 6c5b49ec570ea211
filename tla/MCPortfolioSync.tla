-------------------------- MODULE MCPortfolioSync --------------------------
EXTENDS PortfolioSync
CONSTANTS a, b
TwoCodes == {a, b}
=============================================================================
