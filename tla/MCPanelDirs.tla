----------------------------- MODULE MCPanelDirs -----------------------------
(* Instance of PanelDirs for TLC: "b" may exist in the root directory and  *)
(* in "a", so that a name can be found in the wrong directory.             *)
EXTENDS PanelDirs

const_Dir == {<<>>, <<"a">>, <<"b">>, <<"a", "b">>}
=============================================================================
