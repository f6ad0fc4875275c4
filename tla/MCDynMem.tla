---- MODULE MCDynMem ----
\* Words of two bytes and a pool of sixteen words: up to five blocks.
EXTENDS DynMem
====
