-------------------------- MODULE MCNCRequestHandler --------------------------
EXTENDS NCRequestHandler

CONSTANTS d1, d2

\* One file is replaced once, the other competes for the caches.
MCMaxVersion == [d \in Datasets |-> IF d = d1 THEN 2 ELSE 1]
=============================================================================
