------------------------------ MODULE MCImChat ------------------------------
EXTENDS ImChat, TLC

\* No definition chooses among clients or names, and no liveness is checked.
MCSymmetry == Permutations(Client) \cup Permutations(Nick)
=============================================================================
