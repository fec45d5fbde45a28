------------------------------ MODULE MCAlsaPcm -----------------------------
EXTENDS AlsaPcm
=============================================================================
