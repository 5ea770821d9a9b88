---------------------------- MODULE MCRawSecIso ----------------------------
(***************************************************************************)
(* An instance of RawSecIso for TLC: every kind of image, two discs and a  *)
(* tray that moves three times, so that there is a swap and one more eject.*)
(***************************************************************************)
EXTENDS RawSecIso

AllModes == ModeKinds

=============================================================================
