---------------------------- MODULE MCSftpServer ----------------------------
(* Model values for checking SftpServer.                                   *)
EXTENDS SftpServer

CONSTANTS c1, c2, s1, s2
=============================================================================
