---- MODULE MCOtaUpgrade ----
\* Sectors of two units, areas of three sectors; a new firmware that ends
\* inside a sector and one that ends with it.
EXTENDS OtaUpgrade

MCSize(f) == CASE f = "factory" -> 3 [] f = "v1" -> 5 [] OTHER -> 4
====
