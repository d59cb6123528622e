------------------------------- MODULE MCSfs -------------------------------
\* Sfs with texts of one and of three bytes and clusters of two: a write stays within a
\* cluster, or reaches into the next one or the next two.

EXTENDS Sfs

CONSTANTS x, y

MCTexts == {<<x>>, <<x, y, x>>}
=============================================================================
