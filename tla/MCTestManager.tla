--------------------------- MODULE MCTestManager ---------------------------
(* TestManager with two tests in two groups.                                *)
EXTENDS TestManager

CONSTANTS t1, t2

TwoTests  == {t1, t2}
TwoGroups == {0, 1}
FewCodes  == {0, 1, 2, 3}
=============================================================================
