---------------------------- MODULE MCTcpServer ----------------------------
(***************************************************************************)
(* Two connections over two descriptors, one of which may be taken by      *)
(* another part of REAPER, and one request per connection.  The numbers    *)
(* are interchangeable.                                                    *)
(***************************************************************************)
EXTENDS TcpServer, TLC
=============================================================================
