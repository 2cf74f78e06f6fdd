--------------------------- MODULE MCPublication ---------------------------
(***************************************************************************)
(* Instances of Publication for TLC: two generations that share a file,    *)
(* another request for the first of them, and one with a conflict.         *)
(***************************************************************************)
EXTENDS Publication, TLC

MCRequests == {"first", "again", "second", "conflict"}
MCFilesOf ==
  ("first" :> {"index", "page"}) @@ ("again" :> {"index", "page"})
  @@ ("second" :> {"index", "other"}) @@ ("conflict" :> {"index"})
=============================================================================
