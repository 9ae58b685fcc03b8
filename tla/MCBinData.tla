------------------------------- MODULE MCBinData -------------------------------
(***************************************************************************)
(* Model checking of BinDataStream: what is put.                           *)
(***************************************************************************)
EXTENDS BinDataStream

Pieces == {<<"x">>, <<" ">>, <<"y", "\n">>}
=============================================================================
