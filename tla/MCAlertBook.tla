---------------------------- MODULE MCAlertBook ----------------------------
(* Two hosts; the file, if there is one, has a full history.               *)
EXTENDS AlertBook

CONSTANTS quiet, noisy

MCHosts == {quiet, noisy}
MCOldHistories == {<<quiet, noisy, noisy>>, <<noisy, quiet, noisy>>, <<noisy, noisy, quiet>>}
=============================================================================
