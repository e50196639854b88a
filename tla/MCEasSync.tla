------------------------------- MODULE MCEasSync -------------------------------
EXTENDS EasSync
CONSTANTS m1, m2
TwoMails == {m1, m2}
=============================================================================
