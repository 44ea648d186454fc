------------------------------ MODULE MCSdCard ------------------------------
(***************************************************************************)
(* The SD card for TLC: a block's bytes look like a command and like the   *)
(* start token.                                                            *)
(***************************************************************************)
EXTENDS SdCard

MCContents == {<<64, TOKEN_START>>, <<TOKEN_START, 64>>}
=============================================================================
