------------------------------ MODULE MCVDMain ------------------------------
(* Instance of VDMain for TLC: a dynamic VHD, a read-only VDI, a fixed VHD      *)
(* (whose cookie is in its last sector only) and a file that is too short.      *)
EXTENDS VDMain, TLC

CONSTANTS dynamic, vdi, fixed, short

MCFiles == {dynamic, vdi, fixed, short}
MCHeader == dynamic :> "conectix" @@ vdi :> "<<<" @@ fixed :> "other" @@ short :> "short"
MCFormat == dynamic :> "VHD" @@ vdi :> "VDI" @@ fixed :> "VHD" @@ short :> "raw"
MCWritable == {dynamic, fixed}
=============================================================================
