---------------------------- MODULE MCWorkerPool ----------------------------
(***************************************************************************)
(* Small instances of WorkerPool for TLC.                                  *)
(***************************************************************************)
EXTENDS WorkerPool, TLC

CONSTANTS h1, h2, h3, r1, r2

MCRooms == {r1, r2}

MCRoomOf == h1 :> r1 @@ h2 :> r1 @@ h3 :> r2
=============================================================================
