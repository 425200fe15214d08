----------------------------- MODULE MCMatcher ------------------------------
(***************************************************************************)
(* Small instances of Matcher for TLC: two letters, a digit and a          *)
(* delimiter.                                                              *)
(***************************************************************************)
EXTENDS Matcher

Short == UNION {[1 .. n -> 1 .. 4] : n \in 0 .. 2}

\* Repeated n-grams, the same n-grams in another order, several words, the same
\* words in another order, digits beside words.
Long == {<<3, 3, 3>>, <<3, 3, 3, 3>>, <<3, 2, 3, 3, 2>>, <<3, 3, 2, 3, 2>>,
         <<3, 2, 3>>, <<3, 2, 3, 2, 3>>, <<3, 4, 2>>, <<2, 4, 3>>, <<3, 4, 3>>,
         <<3, 1, 2>>, <<3, 2, 1>>, <<3, 2, 4, 2, 3>>, <<2, 3, 4, 3, 2>>, <<3, 0, 2>>}

MCString == Short \cup Long

FourFifths == <<4, 5>>
Half == <<1, 2>>
=============================================================================
