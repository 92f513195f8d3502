--------------------------- MODULE MCStockAlerts ---------------------------
EXTENDS StockAlerts, TLC

Symmetry == Permutations(Keys) \cup Permutations(Posts)
=============================================================================
