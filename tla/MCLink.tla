------------------------------- MODULE MCLink -------------------------------
EXTENDS AppModel, TLC
=============================================================================
