----------------------------- MODULE MCWebPages -----------------------------
EXTENDS WebPages

\* The roles differ in what they see and may do, not in how a page works.
MCMaxOpenings == [r \in Roles |-> IF r = "MAINTENANCE" THEN 2 ELSE 1]
MCMaxVisits == [r \in Roles |-> IF r = "LOGISTICS" THEN 2 ELSE 1]
=============================================================================
