--------------------------- MODULE EncryptionAtRest ---------------------------
(***************************************************************************)
(* What encrypting a project promises (MigratePlaintextToEncrypted): the   *)
(* project is in plain text, or encrypted with a plain text backup beside  *)
(* it that the user may remove.  It changes from one to the other in one   *)
(* step, and is whole in both.                                             *)
(***************************************************************************)

VARIABLES
    project,      \* how the project is stored
    backup        \* there is a backup of the encrypted project

Init == project = "plain" /\ backup = FALSE

Encrypt ==
    /\ project = "plain"
    /\ project' = "encrypted"
    /\ backup' = TRUE

RemoveBackup ==
    /\ project = "encrypted" /\ backup
    /\ backup' = FALSE
    /\ UNCHANGED project

Spec == Init /\ [][Encrypt \/ RemoveBackup]_<<project, backup>>

=============================================================================
