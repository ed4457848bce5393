------------------------------- MODULE MCAlbum -------------------------------
(***************************************************************************)
(* Small instances of Album: four items, with the limit at four or above;  *)
(* the items are interchangeable.                                          *)
(***************************************************************************)
EXTENDS Album, TLC

CONSTANTS i1, i2, i3, i4

FourItems == {i1, i2, i3, i4}
==============================================================================
