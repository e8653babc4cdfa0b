------------------------------- MODULE MC_Facade -------------------------------
(* Model-checking instance of Facade: the i32 extremes, EFAULT and another *)
(* errno in the size field, slices shorter than, equal to and longer than *)
(* the descriptor, whole IPv4 and IPv6 addresses with and without        *)
(* Accept's listen fd, AF_UNIX, and the extreme ports, pids and fds.    *)
EXTENDS Facade

MCSliceLens == {0, 1, 2, 3, 5, 18, 22, 25, 30, 34}

MCFamilies == {1, 2, 10}

MCSizeFields == {-2147483647 - 1, -14, -1, 0, 1, 3, 4, 2147483647}

MCPorts == {0, 65535}

MCIds == {0, 2147483647}
=============================================================================
