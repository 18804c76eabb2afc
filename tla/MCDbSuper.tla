------------------------------ MODULE MCDbSuper ------------------------------
EXTENDS DbSuperProps
=============================================================================
