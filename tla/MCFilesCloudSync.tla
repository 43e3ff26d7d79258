---------------------------- MODULE MCFilesCloudSync ----------------------------
(* Instances of FilesCloudSync for TLC: MCFilesCloudSync.cfg, MCRelanded.cfg, and, to be    *)
(* checked by hand, MCFilesRace.cfg, MCUndone.cfg, MCRestored.cfg.                         *)
EXTENDS FilesCloudSync
=============================================================================
