--------------------------- MODULE MC_RemoveQuotes ---------------------------
EXTENDS RemoveQuotes, TLC
=============================================================================
