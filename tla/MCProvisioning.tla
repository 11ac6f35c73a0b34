--------------------------- MODULE MCProvisioning ---------------------------
\* Provisioning with the characters sanitize replaces in a name.
EXTENDS Provisioning

MCSafeName == [n \in DbNames |-> IF n = "my.db" THEN "my_db" ELSE n]
=============================================================================
