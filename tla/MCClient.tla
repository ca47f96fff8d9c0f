------------------------------ MODULE MCClient ------------------------------
\* One client; None is a model value.
EXTENDS Client
=============================================================================
