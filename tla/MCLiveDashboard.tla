--------------------------- MODULE MCLiveDashboard ---------------------------
(* Values for model checking LiveDashboard.                                *)
EXTENDS LiveDashboard

\* A query whose key has the key of another one as a prefix, on one of two pages.
MCQueries == {"groupJobs"}
MCPages == {"group", "dashboard"}
=============================================================================
