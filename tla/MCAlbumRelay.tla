----------------------------- MODULE MCAlbumRelay -----------------------------
(***************************************************************************)
(* A small instance of AlbumRelay: three items, which is also the limit,   *)
(* two attempts per download and per send.                                 *)
(***************************************************************************)
EXTENDS AlbumRelay

ThreeItems == 1..3
==============================================================================
