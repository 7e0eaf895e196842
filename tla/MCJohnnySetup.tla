---------------------------- MODULE MCJohnnySetup ----------------------------
(* JohnnySetup on names that share a key once their encoding is cut off,   *)
(* names with escapes, a dot file, a symbolic link and an unreadable file. *)
EXTENDS JohnnySetup

MCNames ==
  {<<"a", ".", "js">>, <<"a", ".", "js", ".", "gz">>, <<"a", " ">>,
   <<"a", "%", "2", "0">>, <<".", "gz">>, <<"link">>}
MCIrregular == {<<"link">>}
MCUnreadable == {<<".", "gz">>}
=============================================================================
