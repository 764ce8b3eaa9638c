--------------------------- MODULE ModuleProtocol ---------------------------
(***************************************************************************)
(* What the author of a matcher module is promised (the comments on        *)
(* struct _module_storage, lib/mongoc-matcher-op-modules.h): m_new once    *)
(* when the matcher is generated, then for each BSON object m_prep, one    *)
(* m_search per value found until the module stops it, possibly one more   *)
(* with no value, and m_cleanup; m_destroy once when the matcher goes.     *)
(* The caller of a match is promised TRUE exactly when the module said     *)
(* FOUND of an object that has a value at the path.                        *)
(***************************************************************************)
CONSTANTS Op, None

Answer == {"continue", "stop", "found"}

VARIABLES life,     \* which of m_new and m_destroy an op has seen
          busy,     \* the op whose match is running, or None
          asked,    \* whether it was shown a value
          told,     \* whether it was shown the end of the object
          answer,   \* what it answered last
          verdict   \* what the last match returned

protocolVars == <<life, busy, asked, told, answer, verdict>>

Init ==
  /\ life = [o \in Op |-> "unborn"]
  /\ busy = None
  /\ asked = FALSE
  /\ told = FALSE
  /\ answer = "continue"
  /\ verdict = FALSE

New(o) ==
  /\ busy = None
  /\ life[o] = "unborn"
  /\ life' = [life EXCEPT ![o] = "ready"]
  /\ UNCHANGED <<busy, asked, told, answer, verdict>>

Prep(o) ==
  /\ busy = None
  /\ life[o] = "ready"
  /\ busy' = o
  /\ UNCHANGED <<life, asked, told, answer, verdict>>

\* A module that answered is not asked again, and not after the end.
Search ==
  /\ busy # None
  /\ ~told
  /\ answer = "continue"
  /\ asked' = TRUE
  /\ answer' \in Answer
  /\ UNCHANGED <<life, busy, told, verdict>>

SearchEnd ==
  /\ busy # None
  /\ ~told
  /\ answer = "continue"
  /\ told' = TRUE
  /\ answer' \in Answer
  /\ UNCHANGED <<life, busy, asked, verdict>>

\* A module that was shown a value hears of the end unless it answered.
Cleanup ==
  /\ busy # None
  /\ asked => told \/ answer # "continue"
  /\ verdict' = (asked /\ answer = "found")
  /\ busy' = None
  /\ asked' = FALSE
  /\ told' = FALSE
  /\ answer' = "continue"
  /\ UNCHANGED life

\* No module is registered under the name: nothing is called, nothing matches.
Skip ==
  /\ busy = None
  /\ verdict' = FALSE
  /\ UNCHANGED <<life, busy, asked, told, answer>>

Destroy(o) ==
  /\ busy = None
  /\ life[o] = "ready"
  /\ life' = [life EXCEPT ![o] = "gone"]
  /\ UNCHANGED <<busy, asked, told, answer, verdict>>

Next ==
  \/ \E o \in Op : New(o) \/ Prep(o) \/ Destroy(o)
  \/ Search \/ SearchEnd \/ Cleanup \/ Skip

Spec == Init /\ [][Next]_protocolVars
=============================================================================
