---- MODULE MCDatabaseStart ----
\* Small instances of DatabaseStart: each configuration names the versions,
\* the processes and the faults it explores.
EXTENDS DatabaseStart
====
