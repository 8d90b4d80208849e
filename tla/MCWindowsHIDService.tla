------------------------ MODULE MCWindowsHIDService ------------------------
(* Small instances of WindowsHIDService for TLC.                           *)
EXTENDS WindowsHIDService, TLC

CONSTANTS d1, d2

MCDevice == {d1, d2}

DeviceSymmetry == Permutations(MCDevice)
=============================================================================
