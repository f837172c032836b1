------------------------------ MODULE MCServer ------------------------------
(***************************************************************************)
(* Instances of Server for TLC.                                            *)
(***************************************************************************)
EXTENDS Server

\* Nothing set; the required setting, with and without tracing; a wrong name
\* and an empty path.
SomeEnvironments ==
    {<<>>,
     [DATABASE_URL |-> "url"],
     [DATABASE_URL |-> "url", OTEL_ENABLED |-> "false"],
     [DATABASE_URL |-> "url", APP_ENV |-> "test"],
     [DATABASE_URL |-> "url", JWT_PUBLIC_KEY_PATH |-> ""]}

=============================================================================
