---------------------------- MODULE MCSocketListen ----------------------------
(* Three processes and enough inode numbers for all their sockets and one   *)
(* stale file; fewer numbers make the file system reuse them.               *)
EXTENDS SocketListen

CONSTANTS p1, p2, p3, n1, n2, n3
=============================================================================
