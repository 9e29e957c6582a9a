----------------------------- MODULE MCUserAccess -----------------------------
(***************************************************************************)
(* A small instance of UserAccess: names below, beside and above a domain, *)
(* and lists with wildcards, blanks, empty and unusable entries.           *)
(***************************************************************************)
EXTENDS UserAccess

MCChar == {"*", ".", " ", "\n", "a", "b", "d", "x"}

(* a.d, b.a.d, d, .d, xd, and no name at all *)
MCCommonName ==
  {<<"a", ".", "d">>, <<"b", ".", "a", ".", "d">>, <<"d">>, <<".", "d">>,
   <<"x", "d">>, <<>>}

(* *.d;   a blank and d;   *. and *d and *;   a.d with a newline;   a blank *)
MCPolicy ==
  {<<>>,
   <<<<"*", ".", "d">>>>,
   <<<<>>, <<" ", "d">>>>,
   <<<<"*", ".">>, <<"*", "d">>, <<"*">>>>,
   <<<<"d">>, <<"a", ".", "d", "\n">>>>,
   <<<<" ">>>>}
=============================================================================
