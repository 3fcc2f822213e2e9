--------------------------------- MODULE MCFiles ---------------------------------
(* Files with two processes, a server that keeps its sessions and supports      *)
(* everything (fs), and the pipe server.                                        *)
EXTENDS Files, TLC

CONSTANTS p1, p2, fs, con, pipe

MCProc == {p1, p2}
MCServer == {fs, con, pipe}
MCUnsupported == [s \in MCServer |-> IF s = fs THEN {} ELSE {"create", "remove", "stat"}]
MCKeeps == {fs}
MCBindable == {fs, con}
MCStarted == {fs, pipe}
MCFd == 0..1
Symmetry == Permutations(Fid) \cup Permutations(Sid)
=============================================================================
