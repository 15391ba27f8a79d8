----------------------------- MODULE MCWorkRange -----------------------------
EXTENDS WorkRange
=============================================================================
