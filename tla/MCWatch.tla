------------------------------ MODULE MCWatch -------------------------------
EXTENDS Watch
CONSTANTS t1
\* one plan of one task
MCPlans == {{t1}}
MCTaskIds == {t1}
=============================================================================
