----------------------------- MODULE MCMigration -----------------------------
EXTENDS Migration, TLC
=============================================================================
