-------------------------- MODULE MCSyscallTarget --------------------------
(* Four characters through a buffer of two, one key, one interrupt; console *)
(* reads and writes, an identify, and a device that is not there.  An int   *)
(* has four bits; two of the codes need them all.                           *)
EXTENDS SyscallTarget

TwoFrames == {2, 4}
OneKey    == {65}
Codes     == {-8, -1, 0, 3, 5}
ConsoleCommands == {<<1, 0>>, <<1, 1>>, <<1, 255>>, <<7, 0>>}
NoCommands == {}
=============================================================================
