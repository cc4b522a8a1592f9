---------------------------- MODULE MCDeployJournal ----------------------------
(* The deployment scripts on a treasury of a few units.                    *)
EXTENDS DeployJournal
===============================================================================
