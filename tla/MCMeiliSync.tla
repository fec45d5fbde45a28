----------------------------- MODULE MCMeiliSync ----------------------------
EXTENDS MeiliSync
=============================================================================
