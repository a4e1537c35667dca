------------------------ MODULE MCRemoteInstallation ------------------------
(* Small instances of RemoteInstallation. *)
EXTENDS RemoteInstallation, TLC

CONSTANTS n1, n2, m1, m2

Installers == Permutations({n1, n2})

=============================================================================
