---------------------------- MODULE MCFtpServer ----------------------------
(* A small instance of the FTP server for TLC. *)
EXTENDS FtpServer

CONSTANTS saveA, saveB

MCSlots   == {1, 2}
MCPaths   == {saveA, saveB}
MCCard    == [p \in MCPaths |-> IF p = saveA THEN <<1, 2, 3>> ELSE <<>>]
MCReaders == {1}
MCRenamers == {2}
=============================================================================
