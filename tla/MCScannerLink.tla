---------------------------- MODULE MCScannerLink ----------------------------
(* ScannerLink for TLC: every kind of identity value, an image of 4x5      *)
(* pixels, symbols in its corners, one too large and one too small to crop. *)
EXTENDS ScannerLink

MCQueries == <<"fits", "unsupported", "empty", "tooLong", "fits">>
MCSymbols == {{<<-1, 0>>, <<1, 1>>}, {<<2, 3>>, <<3, 4>>}, {<<0, 0>>, <<3, 4>>}, {<<2, 1>>}}

(* For two analyses: few queries, and a symbol with rows above and below it. *)
MCFewQueries == <<"fits", "unsupported", "tooLong", "fits">>
MCOneSymbol  == {{<<1, 1>>, <<2, 2>>}}
=============================================================================
