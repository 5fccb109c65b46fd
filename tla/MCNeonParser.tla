--------------------------- MODULE MCNeonParser ---------------------------
(* An instance of NeonParser for TLC.                                      *)
EXTENDS NeonParser

MCAttrLists == {<<>>, <<"a::name">>, <<"a::name", "a::url">>}
===========================================================================
