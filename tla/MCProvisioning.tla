---------------------------- MODULE MCProvisioning ----------------------------
(* Two bases, two migrations, one request at a time.                        *)
EXTENDS Provisioning

CONSTANTS g1

===============================================================================
