---------------------------- MODULE MCTftpServer ----------------------------
(***************************************************************************)
(* Instances of TftpServer for TLC: files of a few blocks of two bytes,    *)
(* with a short last block, of whole blocks, empty, and longer than the    *)
(* block numbers.                                                          *)
(***************************************************************************)
EXTENDS TftpServer, TLC

OneFile  == ("/lfs/log" :> 5) @@ (tree :> Absent)
AllSizes == ("/lfs/short" :> 1) @@ ("/lfs/log" :> 5) @@ ("/lfs/whole" :> 4) @@ ("/lfs/empty" :> 0)
              @@ ("/lfs/long" :> 13) @@ ("/lfs/longer" :> 16) @@ (tree :> Absent)
=============================================================================
