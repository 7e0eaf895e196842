--------------------------- MODULE MCRequestParser ---------------------------
(* RequestParser on short names and rests with and without a header. *)
EXTENDS RequestParser

MCNames == {<<>>, <<"a">>, <<"b", "a">>}

MCRests == {<<"X", "CR", "LF", "CR", "LF">>,
            <<"X", "CR", "LF", "X", "CR", "LF", "CR", "LF">>}

=============================================================================
