------------------------------ MODULE RegexMatch ------------------------------
(***************************************************************************)
(* What a regular expression of a query means: each comparison answers for *)
(* the pattern and the option of that query, whatever was compared before. *)
(***************************************************************************)
CONSTANTS Regex, Subject, Meaning

VARIABLES asked,   \* the last comparison
          answer   \* and what it said

matchVars == <<asked, answer>>

Init == asked = << >> /\ answer = "no"

Compare(r, s) ==
  /\ asked' = <<r, s>>
  /\ answer' = IF s \in Meaning[r] THEN "yes" ELSE "no"

\* malloc refuses the cache entry: the comparison is given up.
GiveUp(r, s) == asked' = <<r, s>> /\ answer' = "nomem"

Next == \E r \in Regex, s \in Subject : Compare(r, s) \/ GiveUp(r, s)

Spec == Init /\ [][Next]_matchVars
=============================================================================
