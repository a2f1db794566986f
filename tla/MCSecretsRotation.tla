------------------------- MODULE MCSecretsRotation -------------------------
\* SecretsRotation on a small instance: two overlapping runs of a secret with
\* two keys, of which an earlier version is retired; a ring loads the
\* ExternalSecret. A run names one key or none, has a given value for the other
\* key or none, and every target or none.
EXTENDS SecretsRotation

CONSTANTS secret, external, ring, user, password

MCLoads == [r \in {ring} |-> external]
MCHistories == {[versions |-> 2, retired |-> {1}]}
MCAims == {{}, Targets}
MCAllTargets == {Targets}
MCKeyLists == {{}, {password}}
MCNewSecrets == {{}, {user}}
=============================================================================
