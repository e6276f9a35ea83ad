----------------------------- MODULE MCKVPools -----------------------------
\* KVPools for TLC.  One prompt ends inside a page, the other at its end.
EXTENDS KVPools

MCPrompt == <<1, 2>>
=============================================================================
