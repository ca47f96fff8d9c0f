---------------------------- MODULE MCJobDispatch ----------------------------
\* A job whose name has two dots, and is too long for its backups' numbers.
EXTENDS JobDispatch
MCDirectory  == <<"a.job", "notes", "a.b.job">>
MCStem       == [n \in {"a.job", "a.b.job", "notes"} |-> IF n = "notes" THEN n ELSE "a"]
MCJobNames   == {"a.job", "a.b.job"}
MCNumberFits == {"a.job", "notes"}
=============================================================================
