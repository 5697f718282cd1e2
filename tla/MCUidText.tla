------------------------------- MODULE MCUidText -------------------------------
(***************************************************************************)
(* Three bytes, a dash after the first.                                    *)
(***************************************************************************)
EXTENDS UidText

MCDashes == {1}
===============================================================================
