------------------------ MODULE MCResumableDownload ------------------------
(***************************************************************************)
(* The instance of ResumableDownload for TLC: contents of three blocks,    *)
(* which differ in all but the first, a shorter one and none, one of them  *)
(* uploaded in parts.                                                      *)
(***************************************************************************)
EXTENDS ResumableDownload

FourContents == {<<"a", "b", "b">>, <<"a", "c", "c">>, <<"c", "c">>, <<>>}
InParts == {<<"c", "c">>}
NoFileOrAnOldOne == {<<>>, <<"x">>}
=============================================================================
