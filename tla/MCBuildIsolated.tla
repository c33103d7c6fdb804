---------------------------- MODULE MCBuildIsolated ----------------------------
(* The instance of MCBuildDriver in which the invocations share no file: the  *)
(* assumption of the theorems in BuildDriverProofs holds of it.               *)
EXTENDS MCBuildDriver

ASSUME FilesArePrivate == PrivatePaths

=============================================================================
