-------------------------------- MODULE Library --------------------------------
(***************************************************************************)
(* The library as a program uses it: the Python objects Matcher and        *)
(* Document (bsonsearch/matcher_ext/module.c), the functions of            *)
(* lib/bsoncompare.c under them, and the handles they own, together with   *)
(* the regex cache that all matchers share.                                *)
(*                                                                         *)
(* A matcher is of one regex and a document of one string, so that a match *)
(* is a comparison of RegexCache.  The interpreter has one lock, which no  *)
(* function here gives up: every call is a step.                           *)
(***************************************************************************)
EXTENDS RegexCache

CONSTANTS Object,  \* the Python objects
          Handle,  \* the addresses of matchers and documents
          Null,    \* the null pointer
          Refused, \* a query that mongoc_matcher_new refuses
          Invalid  \* no JSON, or no BSON

ASSUME NullAssumption  == Null \notin Handle
ASSUME InputAssumption == {Refused, Invalid} \cap (Regex \cup Subject) = {}

VARIABLES heap,    \* what is allocated at each address
          objects, \* the class and the handle of each object
          lost,    \* the handles that a second __init__ overwrote
          aborted  \* an assertion failed

Class  == {"matcher", "document"}
Of     == [c \in Class |-> IF c = "matcher" THEN Regex ELSE Subject]
Free   == [class |-> "none", is |-> << >>]
Absent == [class |-> "none", handle |-> Null, ready |-> FALSE]

Alive == UNION {[class : {c}, is : Of[c]] : c \in Class}

\* What a constructor or a match is given: a string, bytes or something else.
Form      == {"text", "bytes", "other"}
Input     == [form : Form, is : Regex \cup Subject \cup {Refused, Invalid}]
Inputs(c) == {i \in Input : i.is \in Of[c] \cup {Invalid}
                              \cup IF c = "matcher" THEN {Refused} ELSE {}}

libVars == <<vars, heap, objects, lost, aborted>>

LibTypeOK ==
  /\ TypeOK
  /\ heap \in [Handle -> {Free} \cup Alive]
  /\ objects \in [Object -> [class : Class \cup {"none"}, handle : Handle \cup {Null},
                             ready : BOOLEAN]]
  /\ lost \subseteq Handle
  /\ aborted \in BOOLEAN

LibInit ==
  /\ Init
  /\ heap = [h \in Handle |-> Free]
  /\ objects = [o \in Object |-> Absent]
  /\ lost = {}
  /\ aborted = FALSE
-----------------------------------------------------------------------------
(***************************************************************************)
(* Matcher_init and Document_init.                                         *)
(***************************************************************************)
\* Mutant: mongoc_matcher_new does not look at what the parser returned.
OutcomeUnchecked(class, input) ==
  IF input.form = "other" THEN "kept"
  ELSE IF input.is \in Of[class] \cup {Refused} THEN "made" ELSE "null"

\* What becomes of the handle.  mongoc_matcher_new asserts that it has a query.
Outcome(class, input) ==
  CASE input.form = "other"                         -> "kept"
    [] input.form # "other" /\ input.is \in Of[class] -> "made"
    [] input.form # "other" /\ input.is = Refused   -> "null"
    [] input.form # "other" /\ input.is = Invalid   ->
         IF class = "matcher" THEN "abort" ELSE "null"

\* Mutant: a query refused as BSON is not reported.
FailsTextOnly(class, input) ==
  Outcome(class, input) # "made" /\ ~(input.form = "bytes" /\ input.is = Refused)

\* The caller is told: by a negative result, or by an exception that the
\* interpreter finds set although the result is 0.
Fails(class, input) == Outcome(class, input) # "made"

Running == ~aborted
Abort   == aborted' = TRUE /\ UNCHANGED <<vars, heap, objects, lost>>
Object1(class, h, ready) == [class |-> class, handle |-> h, ready |-> ready]

\* malloc: an address where nothing is allocated.
Allocates(h, class, is) ==
  /\ heap[h] = Free
  /\ heap' = [heap EXCEPT ![h] = [class |-> class, is |-> is]]

\* Calling the class: __new__, then __init__, and the object is dropped if that
\* fails.
Call(o, class, input) ==
  /\ Running /\ objects[o] = Absent
  /\ \/ Outcome(class, input) = "abort" /\ Abort
     \/ /\ Outcome(class, input) = "made"
        /\ \E h \in Handle :
             /\ Allocates(h, class, input.is)
             /\ objects' = [objects EXCEPT ![o] = Object1(class, h, TRUE)]
        /\ UNCHANGED <<vars, lost, aborted>>
     \/ /\ Outcome(class, input) \in {"kept", "null"}
        /\ objects' = IF Fails(class, input) THEN objects
                      ELSE [objects EXCEPT ![o] = Object1(class, Null, TRUE)]
        /\ UNCHANGED <<vars, heap, lost, aborted>>

\* __new__ alone.
New(o, class) ==
  /\ Running /\ objects[o] = Absent
  /\ objects' = [objects EXCEPT ![o] = Object1(class, Null, FALSE)]
  /\ UNCHANGED <<vars, heap, lost, aborted>>

Present(o, class) == objects[o].class = class
HandleOf(o)       == objects[o].handle
Loses(o)          == lost' = lost \cup ({HandleOf(o)} \ {Null})

\* __init__ of an object that exists: the handle that it has is overwritten.
InitAgain(o, class, input) ==
  /\ Running /\ Present(o, class)
  /\ \/ Outcome(class, input) = "abort" /\ Abort
     \/ /\ Outcome(class, input) = "made"
        /\ \E h \in Handle :
             /\ Allocates(h, class, input.is)
             /\ objects' = [objects EXCEPT ![o] = Object1(class, h, TRUE)]
        /\ Loses(o)
        /\ UNCHANGED <<vars, aborted>>
     \/ /\ Outcome(class, input) = "null"
        /\ objects' = [objects EXCEPT ![o] = Object1(class, Null, FALSE)]
        /\ Loses(o)
        /\ UNCHANGED <<vars, heap, aborted>>
     \/ /\ Outcome(class, input) = "kept"
        /\ UNCHANGED libVars

\* Mutant: the document of an object is not destroyed with it.
DeallocMatcherOnly(o) ==
  /\ Running /\ objects[o] # Absent
  /\ heap' = [h \in Handle |-> IF h = HandleOf(o) /\ Present(o, "matcher") THEN Free ELSE heap[h]]
  /\ objects' = [objects EXCEPT ![o] = Absent]
  /\ UNCHANGED <<vars, lost, aborted>>

\* Matcher_dealloc and Document_dealloc; both destroys accept NULL.
Dealloc(o) ==
  /\ Running /\ objects[o] # Absent
  /\ heap' = [h \in Handle |-> IF h = HandleOf(o) THEN Free ELSE heap[h]]
  /\ objects' = [objects EXCEPT ![o] = Absent]
  /\ UNCHANGED <<vars, lost, aborted>>
-----------------------------------------------------------------------------
(***************************************************************************)
(* Matches.  mongoc_matcher_match asserts a matcher and a document.        *)
(***************************************************************************)
Compares(r, s) ==
  /\ CompareHit(r, s) \/ CompareMiss(r, s) \/ CompareNoMemory(r, s)
  /\ UNCHANGED <<heap, objects, lost, aborted>>

MatchDoc(m, d) ==
  /\ Running /\ Present(m, "matcher") /\ Present(d, "document")
  /\ IF Null \in {HandleOf(m), HandleOf(d)} THEN Abort
     ELSE Compares(heap[HandleOf(m)].is, heap[HandleOf(d)].is)

\* match_json makes a document and destroys it after the match; from a string
\* that is no JSON it has none and returns.  matcher_compare is the same of
\* bytes, and goes on.
MatchInput(m, input) ==
  /\ Running /\ Present(m, "matcher")
  /\ CASE input.form = "text" /\ input.is = Invalid  -> UNCHANGED libVars
       [] input.form = "bytes" /\ input.is = Invalid -> Abort
       [] input.is \in Subject ->
            IF HandleOf(m) = Null THEN Abort ELSE Compares(heap[HandleOf(m)].is, input.is)

\* compare of a query and a document that both are bytes.
CompareOnce(query, input) ==
  /\ Running
  /\ IF query.is \in Regex /\ input.is \in Subject
     THEN Compares(query.is, input.is) ELSE Abort

\* regex_destroy, and shutdown, which does it too.  What startup and shutdown
\* do to the module store is in ModuleOps.
Shutdown == Running /\ RegexDestroy /\ UNCHANGED <<heap, objects, lost, aborted>>

BytesFor(c) == {i \in Inputs(c) : i.form = "bytes"}

LibNext ==
  \/ \E o \in Object, c \in Class :
       \/ New(o, c)
       \/ \E i \in Inputs(c) : Call(o, c, i) \/ InitAgain(o, c, i)
  \/ \E o \in Object : Dealloc(o)
  \/ \E m, d \in Object : MatchDoc(m, d)
  \/ \E m \in Object :
       \E i \in {i \in Inputs("document") : i.form # "other"} : MatchInput(m, i)
  \/ \E q \in BytesFor("matcher"), i \in BytesFor("document") : CompareOnce(q, i)
  \/ Shutdown

LibSpec == LibInit /\ [][LibNext]_libVars
-----------------------------------------------------------------------------
\* An object never holds what was freed, two objects never hold the same, and
\* what nobody holds was lost by a second __init__: a program without one has
\* freed everything once its objects are gone.
NoDangling == \A o \in Object : HandleOf(o) # Null =>
                /\ heap[HandleOf(o)].class = objects[o].class
                /\ heap[HandleOf(o)] # Free
                /\ HandleOf(o) \notin lost
NoSharing  == \A o, p \in Object : HandleOf(o) = HandleOf(p) /\ HandleOf(o) # Null => o = p
NoLeak     == \A h \in Handle : heap[h] # Free => h \in lost \/ \E o \in Object : HandleOf(o) = h

HandlesOwned == NoDangling /\ NoSharing /\ NoLeak

\* An object whose constructor did not fail has its handle, so that a match of
\* two such objects runs into no assertion: the handle may be NULL only after
\* __new__ alone or an __init__ that failed.
ReadyHasHandle == \A o \in Object : objects[o].ready => HandleOf(o) # Null
=============================================================================
