-------------------------- MODULE MCEnemyAuthority --------------------------
EXTENDS EnemyAuthority
=============================================================================
