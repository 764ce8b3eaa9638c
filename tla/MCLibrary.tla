------------------------------- MODULE MCLibrary -------------------------------
(***************************************************************************)
(* Two objects and three addresses, so that a handle can be lost and the   *)
(* program goes on; a pattern with the option and one that does not        *)
(* compile.                                                                *)
(***************************************************************************)
EXTENDS Library

CONSTANTS word, broken, lower, upper, h1, h2, h3, o1, o2

MCPattern == {word, broken}
MCValid   == {word}
MCSubject == {lower, upper}
MCHandle  == {h1, h2, h3}
MCObject  == {o1, o2}

\* The word is of letters.
MCAccepts ==
  [k \in MCPattern \X Option |->
     IF k[1] = broken THEN {}
     ELSE IF k[2] = "caseless" THEN {lower, upper} ELSE {lower}]

OnceEach == {[pattern |-> word, option |-> "caseless"],
             [pattern |-> broken, option |-> "exact"]}
=============================================================================
