---------------------------- MODULE AppRuntimeMC ----------------------------
\* AppRuntime with two configurations, two requests, and tables in which one
\* address is spelled two ways.
EXTENDS AppRuntime

Row(email, name, role) == [email |-> email, name |-> name, role |-> role]

MCDatabases ==
    { << >>,
      << Row("Ann@x", "Ann", "editor"), Row("bob@x", "Bob", "editor"),
         Row("ann@x", "ann", "admin") >> }

MCNormalizeEmail(e) == IF e = "Ann@x" THEN "ann@x" ELSE e

=============================================================================
