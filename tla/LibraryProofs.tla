----------------------------- MODULE LibraryProofs -----------------------------
(***************************************************************************)
(* Proofs about the library and its objects, for any number of objects and *)
(* handles, and any queries and documents; the regex cache, which all of   *)
(* them share, comes first, as the library's actions keep its invariant.   *)
(***************************************************************************)
EXTENDS Library, SequenceTheorems, TLAPS

\* Every entry was compiled for a regex of a query.
Sound == \A i \in DOMAIN cache : \E r \in Regex : cache[i] = Compiled(r)

Inv == TypeOK /\ OneEntry /\ Sound

\* A new entry is one of the hash, under the pattern of its regex.
LEMMA CompiledEntry ==
  ASSUME NEW r \in Regex
  PROVE  Compiled(r) \in Entry /\ Compiled(r).pattern = r.pattern
BY RegexAssumption DEF Compiled, Entry

\* The invariant holds of the empty cache.
LEMMA InitInv == Init => Inv
BY DEF Init, Inv, TypeOK, OneEntry, Sound

\* An entry is added only where there was none of its pattern.
LEMMA MissInv ==
  ASSUME Inv, NEW r \in Regex, NEW s \in Subject, CompareMiss(r, s)
  PROVE  Inv'
<1> DEFINE e == Compiled(r)
<1>1. e \in Entry /\ e.pattern = r.pattern
  BY CompiledEntry
<1>2. cache \in Seq(Entry)
  BY DEF Inv, TypeOK
<1>3. cache' = Append(cache, e) /\ Hits(r.pattern) = {}
  BY DEF CompareMiss, CacheWith
<1>4. asked' \in Regex \X Subject /\ answer' \in {"yes", "no"}
  BY DEF CompareMiss, Executes
<1> HIDE DEF e
<1>5. /\ cache' \in Seq(Entry) /\ Len(cache') = Len(cache) + 1
      /\ cache'[Len(cache) + 1] = e
      /\ \A i \in 1 .. Len(cache) : cache'[i] = cache[i]
  BY <1>1, <1>2, <1>3
<1>6. DOMAIN cache' = 1 .. Len(cache) + 1 /\ DOMAIN cache = 1 .. Len(cache)
  BY <1>2, <1>5
<1>7. TypeOK'
  BY <1>4, <1>5 DEF TypeOK
<1>8. \A i \in 1 .. Len(cache) : cache[i].pattern # r.pattern
  BY <1>3, <1>6 DEF Hits
<1>9. OneEntry'
  <2> SUFFICES ASSUME NEW i \in 1 .. Len(cache) + 1, NEW j \in 1 .. Len(cache) + 1,
                      cache'[i].pattern = cache'[j].pattern
               PROVE  i = j
    BY <1>6 DEF OneEntry
  <2>1. CASE i \in 1 .. Len(cache) /\ j \in 1 .. Len(cache)
    BY <1>5, <1>6, <2>1 DEF Inv, OneEntry
  <2>2. CASE i = Len(cache) + 1 \/ j = Len(cache) + 1
    BY <1>1, <1>2, <1>5, <1>8, <2>2
  <2> QED BY <1>2, <2>1, <2>2
<1>10. Sound'
  <2> SUFFICES ASSUME NEW i \in 1 .. Len(cache) + 1
               PROVE  \E q \in Regex : cache'[i] = Compiled(q)
    BY <1>6 DEF Sound, Compiled
  <2>1. CASE i \in 1 .. Len(cache)
    BY <1>5, <1>6, <2>1 DEF Inv, Sound
  <2>2. CASE i = Len(cache) + 1
    BY <1>5, <2>2 DEF e
  <2> QED BY <1>2, <2>1, <2>2
<1> QED BY <1>7, <1>9, <1>10 DEF Inv

\* No step of the program breaks the invariant.
LEMMA NextInv == Inv /\ [Next]_vars => Inv'
<1> SUFFICES ASSUME Inv, [Next]_vars PROVE Inv'
  OBVIOUS
<1>1. ASSUME NEW r \in Regex, NEW s \in Subject,
             CompareHit(r, s) \/ CompareNoMemory(r, s)
      PROVE  Inv'
  <2>1. cache' = cache /\ asked' = <<r, s>> /\ answer' \in {"yes", "no", "nomem"}
    BY <1>1 DEF CompareHit, CompareNoMemory, Executes
  <2> QED BY <2>1 DEF Inv, TypeOK, OneEntry, Sound, Compiled
<1>2. ASSUME NEW r \in Regex, NEW s \in Subject, CompareMiss(r, s) PROVE Inv'
  BY <1>2, MissInv
<1>3. CASE RegexDestroy
  BY <1>3 DEF RegexDestroy, Inv, TypeOK, OneEntry, Sound
<1>4. CASE UNCHANGED vars
  BY <1>4 DEF vars, Inv, TypeOK, OneEntry, Sound, Compiled
<1> QED BY <1>1, <1>2, <1>3, <1>4 DEF Next

\* The invariant holds in every reachable state.
LEMMA Invariance == Spec => []Inv
BY InitInv, NextInv, PTL DEF Spec

\* Type correctness of the cache.
THEOREM TypeCorrect == Spec => []TypeOK
BY Invariance, PTL DEF Inv

\* However long the program compares and empties the cache, no pattern has two
\* entries.
THEOREM CompiledOnce == Spec => []OneEntry
BY Invariance, PTL DEF Inv

\* Executing the entry of a regex is what the regex means, when no other regex
\* has its pattern.
LEMMA ExecutesMeaning ==
  ASSUME OneOption, NEW r \in Regex, NEW q \in Regex, q.pattern = r.pattern, NEW s \in Subject
  PROVE  Executes(Compiled(q), s) = IF s \in Meaning[r] THEN "yes" ELSE "no"
<1>1. q = r
  BY DEF OneOption
<1>2. r.option \in Option /\ "null" \notin Option
  BY RegexAssumption DEF Option
<1> QED BY <1>1, <1>2 DEF Executes, Compiled, Meaning

\* Every comparison answers what the stateless one does.
LEMMA NextStateless ==
  ASSUME OneOption, Inv, [Next]_vars
  PROVE  [M!Next]_M!matchVars
<1>1. ASSUME NEW r \in Regex, NEW s \in Subject, CompareHit(r, s)
      PROVE  M!Compare(r, s)
  <2>1. PICK i \in Hits(r.pattern) : answer' = Executes(cache[i], s)
    BY <1>1 DEF CompareHit
  <2>2. i \in DOMAIN cache /\ cache[i].pattern = r.pattern
    BY DEF Hits
  <2>3. PICK q \in Regex : cache[i] = Compiled(q)
    BY <2>2 DEF Inv, Sound
  <2>4. q.pattern = r.pattern
    BY <2>2, <2>3, CompiledEntry
  <2> QED BY <1>1, <2>1, <2>3, <2>4, ExecutesMeaning DEF CompareHit, M!Compare
<1>2. ASSUME NEW r \in Regex, NEW s \in Subject, CompareMiss(r, s)
      PROVE  M!Compare(r, s)
  BY <1>2, ExecutesMeaning DEF CompareMiss, M!Compare
<1>3. ASSUME NEW r \in Regex, NEW s \in Subject, CompareNoMemory(r, s)
      PROVE  M!GiveUp(r, s)
  BY <1>3 DEF CompareNoMemory, M!GiveUp
<1>4. CASE RegexDestroy \/ UNCHANGED vars
  BY <1>4 DEF RegexDestroy, vars, M!matchVars
<1> QED BY <1>1, <1>2, <1>3, <1>4 DEF Next, M!Next

\* As long as no pattern is used with two options, the cache cannot be told
\* from compiling afresh: the option is missing from its key, and the premise
\* is what makes up for it.
THEOREM CacheIsInvisible ==
  ASSUME OneOption
  PROVE  Spec => Stateless
<1>1. Init => M!Init
  BY DEF Init, M!Init
<1>2. Inv /\ [Next]_vars => [M!Next]_M!matchVars
  BY NextStateless
<1> QED BY <1>1, <1>2, Invariance, PTL DEF Spec, Stateless, M!Spec

-----------------------------------------------------------------------------
(***************************************************************************)
(* The objects on top of the cache.                                        *)
(***************************************************************************)

\* What a second __init__ lost is still allocated: it is never made again.
LostKept == \A h \in lost : heap[h] # Free

MemoryTypeOK ==
  /\ heap \in [Handle -> {Free} \cup Alive]
  /\ objects \in [Object -> [class : Class \cup {"none"}, handle : Handle \cup {Null},
                             ready : BOOLEAN]]
  /\ lost \subseteq Handle

Owned == MemoryTypeOK /\ HandlesOwned /\ ReadyHasHandle /\ LostKept

LibInv == Inv /\ Owned /\ aborted \in BOOLEAN
-----------------------------------------------------------------------------
\* What is made of an input was made of a query or of a document.
LEMMA MadeIs ==
  ASSUME NEW c \in Class, NEW i \in Inputs(c), Outcome(c, i) = "made"
  PROVE  i.is \in Of[c]
<1>1. i.is \in Of[c] \cup {Invalid, Refused}
  BY DEF Inputs
<1>2. ASSUME i.is \notin Of[c] PROVE FALSE
  <2>1. CASE i.form = "other"
    BY <2>1 DEF Outcome
  <2>2. CASE i.form # "other" /\ i.is = Refused
    BY <1>2, <2>2 DEF Outcome
  <2>3. CASE i.form # "other" /\ i.is = Invalid /\ i.is # Refused
    BY <1>2, <2>3 DEF Outcome
  <2> QED BY <1>1, <1>2, <2>1, <2>2, <2>3
<1> QED BY <1>2

\* What is allocated has a class, and is what that class is made of.
LEMMA AliveIs ==
  /\ \A c \in Class : \A x \in Of[c] :
       [class |-> c, is |-> x] \in Alive /\ [class |-> c, is |-> x] # Free
  /\ \A a \in Alive : a.class \in Class /\ a.is \in Of[a.class]
BY DEF Alive, Free, Class

\* A match compares a regex with a string.
LEMMA MatchedAre ==
  ASSUME Owned, NEW o \in Object, NEW c \in Class, Present(o, c), HandleOf(o) # Null
  PROVE  heap[HandleOf(o)].is \in Of[c]
<1>1. HandleOf(o) \in Handle
  BY DEF Owned, MemoryTypeOK, HandleOf
<1>2. heap[HandleOf(o)] \in Alive /\ heap[HandleOf(o)].class = c
  BY <1>1 DEF Owned, MemoryTypeOK, HandlesOwned, NoDangling, Present
<1> QED BY <1>2, AliveIs
-----------------------------------------------------------------------------
\* A handle that was free is given to an object, whatever that one held.
LEMMA MadeOwned ==
  ASSUME Owned, NEW o \in Object, NEW c \in Class, NEW x \in Of[c], NEW h \in Handle,
         Allocates(h, c, x), objects' = [objects EXCEPT ![o] = Object1(c, h, TRUE)],
         Loses(o)
  PROVE  Owned'
<1> DEFINE new == [class |-> c, is |-> x]
<1>1. new \in Alive /\ new # Free /\ new.class = c
  BY AliveIs
<1>2. heap[h] = Free /\ heap' = [heap EXCEPT ![h] = new]
  BY DEF Allocates
<1>3. Object1(c, h, TRUE) \in [class : Class \cup {"none"}, handle : Handle \cup {Null},
                               ready : BOOLEAN]
  BY DEF Object1
<1>4. MemoryTypeOK'
  BY <1>1, <1>2, <1>3 DEF Owned, MemoryTypeOK, Loses, HandleOf
<1>5. HandleOf(o)' = h /\ objects'[o].class = c /\ h # Null
  BY NullAssumption DEF Owned, MemoryTypeOK, HandleOf, Object1
<1>6. \A p \in Object : p # o => objects'[p] = objects[p]
  BY DEF Owned, MemoryTypeOK
<1>7. \A p \in Object : HandleOf(p) \in Handle \cup {Null} /\ HandleOf(p) # h
  BY <1>2, NullAssumption DEF Owned, MemoryTypeOK, HandlesOwned, NoDangling, HandleOf
<1>8. heap'[h] = new /\ \A k \in Handle : k # h => heap'[k] = heap[k]
  BY <1>2 DEF Owned, MemoryTypeOK
<1>9. h \notin lost
  BY <1>2 DEF Owned, LostKept
<1> HIDE DEF new
<1>10. NoDangling'
  <2> SUFFICES ASSUME NEW p \in Object, HandleOf(p)' # Null
               PROVE  /\ heap'[HandleOf(p)'].class = objects'[p].class
                      /\ heap'[HandleOf(p)'] # Free
                      /\ HandleOf(p)' \notin lost'
    BY DEF NoDangling, Free
  <2>1. CASE p = o
    BY <1>1, <1>5, <1>7, <1>8, <1>9, <2>1 DEF Loses
  <2>2. CASE p # o
    <3>1. HandleOf(p)' = HandleOf(p) /\ HandleOf(p) \in Handle
      BY <1>6, <1>7, <2>2 DEF HandleOf
    <3>2. HandleOf(p) # HandleOf(o) \/ HandleOf(o) = Null
      BY <2>2, <3>1 DEF Owned, HandlesOwned, NoSharing
    <3>3. heap'[HandleOf(p)] = heap[HandleOf(p)]
      BY <1>7, <1>8, <3>1
    <3> QED BY <1>6, <2>2, <3>1, <3>2, <3>3
            DEF Owned, HandlesOwned, NoDangling, Loses
  <2> QED BY <2>1, <2>2
<1>11. NoSharing'
  BY <1>5, <1>6, <1>7 DEF Owned, HandlesOwned, NoSharing, HandleOf
<1>12. NoLeak'
  <2> SUFFICES ASSUME NEW k \in Handle, heap'[k] # Free
               PROVE  k \in lost' \/ \E p \in Object : HandleOf(p)' = k
    BY DEF NoLeak, Free
  <2>1. CASE k = h
    BY <1>5, <2>1
  <2>2. CASE k # h
    BY <1>6, <1>8, <2>2, NullAssumption DEF Owned, HandlesOwned, NoLeak, Loses, HandleOf
  <2> QED BY <2>1, <2>2
<1>13. ReadyHasHandle'
  BY <1>5, <1>6 DEF Owned, ReadyHasHandle, HandleOf
<1>14. LostKept'
  <2> SUFFICES ASSUME NEW k \in lost' PROVE heap'[k] # Free
    BY DEF LostKept, Free
  <2>1. k \in Handle
    BY <1>4 DEF MemoryTypeOK
  <2>2. k \in lost \/ (k = HandleOf(o) /\ k # Null)
    BY DEF Loses
  <2>3. heap[k] # Free
    BY <2>2 DEF Owned, LostKept, HandlesOwned, NoDangling
  <2> QED BY <1>1, <1>8, <2>1, <2>3
<1> QED BY <1>4, <1>10, <1>11, <1>12, <1>13, <1>14 DEF Owned, HandlesOwned

\* An object is left without a handle, whatever it held, and is not ready.
LEMMA EmptiedOwned ==
  ASSUME Owned, NEW o \in Object, NEW c \in Class,
         objects' = [objects EXCEPT ![o] = Object1(c, Null, FALSE)],
         Loses(o), UNCHANGED heap
  PROVE  Owned'
<1>1. MemoryTypeOK'
  BY DEF Owned, MemoryTypeOK, Object1, Loses, HandleOf
<1>2. HandleOf(o)' = Null /\ objects'[o].ready = FALSE
  BY DEF Owned, MemoryTypeOK, HandleOf, Object1
<1>3. \A p \in Object : p # o => objects'[p] = objects[p]
  BY DEF Owned, MemoryTypeOK
<1>4. NoDangling'
  <2> SUFFICES ASSUME NEW p \in Object, HandleOf(p)' # Null
               PROVE  /\ heap'[HandleOf(p)'].class = objects'[p].class
                      /\ heap'[HandleOf(p)'] # Free
                      /\ HandleOf(p)' \notin lost'
    BY DEF NoDangling, Free
  <2>1. p # o /\ objects'[p] = objects[p] /\ HandleOf(p)' = HandleOf(p)
    BY <1>2, <1>3 DEF HandleOf
  <2>2. HandleOf(p) # HandleOf(o)
    BY <2>1 DEF Owned, HandlesOwned, NoSharing
  <2> QED BY <2>1, <2>2 DEF Owned, HandlesOwned, NoDangling, Loses
<1>5. NoSharing'
  BY <1>2, <1>3 DEF Owned, HandlesOwned, NoSharing, HandleOf
<1>6. NoLeak'
  <2> SUFFICES ASSUME NEW k \in Handle, heap[k] # Free
               PROVE  k \in lost' \/ \E p \in Object : HandleOf(p)' = k
    BY DEF NoLeak, Free
  <2>1. CASE k \in lost \/ k = HandleOf(o)
    BY <2>1, NullAssumption DEF Loses
  <2>2. CASE ~(k \in lost \/ k = HandleOf(o))
    <3>1. PICK p \in Object : HandleOf(p) = k
      BY <2>2 DEF Owned, HandlesOwned, NoLeak
    <3> QED BY <1>3, <2>2, <3>1 DEF HandleOf
  <2> QED BY <2>1, <2>2
<1>7. ReadyHasHandle'
  BY <1>2, <1>3 DEF Owned, ReadyHasHandle, HandleOf
<1>8. LostKept'
  BY DEF Owned, LostKept, HandlesOwned, NoDangling, Loses, Free
<1> QED BY <1>1, <1>4, <1>5, <1>6, <1>7, <1>8 DEF Owned, HandlesOwned

\* What an object holds is freed with it.
LEMMA DeallocOwned ==
  ASSUME Owned, NEW o \in Object, Dealloc(o)
  PROVE  Owned'
<1>1. MemoryTypeOK'
  BY DEF Owned, MemoryTypeOK, Dealloc, Absent
<1>2. HandleOf(o)' = Null /\ objects'[o].ready = FALSE
  BY DEF Owned, MemoryTypeOK, Dealloc, HandleOf, Absent
<1>3. \A p \in Object : p # o => objects'[p] = objects[p]
  BY DEF Owned, MemoryTypeOK, Dealloc
<1>4. \A k \in Handle : heap'[k] = IF k = HandleOf(o) THEN Free ELSE heap[k]
  BY DEF Dealloc
<1>5. lost' = lost
  BY DEF Dealloc
<1>6. NoDangling'
  <2> SUFFICES ASSUME NEW p \in Object, HandleOf(p)' # Null
               PROVE  /\ heap'[HandleOf(p)'].class = objects'[p].class
                      /\ heap'[HandleOf(p)'] # Free
                      /\ HandleOf(p)' \notin lost'
    BY DEF NoDangling, Free
  <2>1. p # o /\ objects'[p] = objects[p] /\ HandleOf(p)' = HandleOf(p)
    BY <1>2, <1>3 DEF HandleOf
  <2>2. HandleOf(p) # HandleOf(o) /\ HandleOf(p) \in Handle
    BY <2>1 DEF Owned, MemoryTypeOK, HandlesOwned, NoSharing, HandleOf
  <2>3. heap'[HandleOf(p)] = heap[HandleOf(p)]
    BY <1>4, <2>2
  <2> QED BY <1>5, <2>1, <2>3 DEF Owned, HandlesOwned, NoDangling
<1>7. NoSharing'
  BY <1>2, <1>3 DEF Owned, HandlesOwned, NoSharing, HandleOf
<1>8. NoLeak'
  BY <1>2, <1>3, <1>4, <1>5 DEF Owned, HandlesOwned, NoLeak, HandleOf, Free
<1>9. ReadyHasHandle'
  BY <1>2, <1>3 DEF Owned, ReadyHasHandle, HandleOf
<1>10. LostKept'
  BY <1>4, <1>5, NullAssumption
  DEF Owned, MemoryTypeOK, LostKept, HandlesOwned, NoDangling, Free
<1> QED BY <1>1, <1>6, <1>7, <1>8, <1>9, <1>10 DEF Owned, HandlesOwned
-----------------------------------------------------------------------------
\* The invariant holds before the first object is made.
LEMMA LibInitInv == LibInit => LibInv
<1> SUFFICES ASSUME LibInit PROVE LibInv
  OBVIOUS
<1>1. Inv
  BY InitInv DEF LibInit
<1>2. MemoryTypeOK
  BY DEF LibInit, MemoryTypeOK, Absent
<1>3. \A o \in Object : HandleOf(o) = Null /\ ~objects[o].ready
  BY DEF LibInit, HandleOf, Absent
<1>4. HandlesOwned /\ ReadyHasHandle
  BY <1>3 DEF LibInit, HandlesOwned, NoDangling, NoSharing, NoLeak, ReadyHasHandle
<1> QED BY <1>1, <1>2, <1>4 DEF LibInit, LibInv, Owned, LostKept

\* A comparison that the library makes is one of the cache's.
LEMMA CompareStep ==
  ASSUME Owned, aborted \in BOOLEAN, NEW r \in Regex, NEW s \in Subject, Compares(r, s)
  PROVE  Next /\ Owned' /\ aborted' \in BOOLEAN
<1>1. Next
  BY DEF Compares, Next
<1>2. UNCHANGED <<heap, objects, lost, aborted>>
  BY DEF Compares
<1> QED BY <1>1, <1>2 DEF Owned, MemoryTypeOK, HandlesOwned, NoDangling, NoSharing, NoLeak,
                          ReadyHasHandle, LostKept, HandleOf

\* A step that leaves memory alone.
LEMMA UnchangedOwned ==
  ASSUME Owned, UNCHANGED <<heap, objects, lost>> PROVE Owned'
BY DEF Owned, MemoryTypeOK, HandlesOwned, NoDangling, NoSharing, NoLeak, ReadyHasHandle,
       LostKept, HandleOf

\* Every call is a step of the cache or leaves it alone, and keeps what is owned.
LEMMA LibStep ==
  ASSUME Owned, aborted \in BOOLEAN, [LibNext]_libVars
  PROVE  [Next]_vars /\ Owned' /\ aborted' \in BOOLEAN
<1> DEFINE Goal == [Next]_vars /\ Owned' /\ aborted' \in BOOLEAN
<1>1. ASSUME Abort \/ UNCHANGED libVars PROVE Goal
  BY <1>1, UnchangedOwned DEF Abort, libVars
<1>2. ASSUME NEW r \in Regex, NEW s \in Subject, Compares(r, s) PROVE Goal
  BY <1>2, CompareStep
<1>3. ASSUME NEW o \in Object, NEW c \in Class, New(o, c) PROVE Goal
  <2>1. Loses(o) /\ UNCHANGED <<vars, heap, aborted>>
    BY <1>3 DEF New, Absent, Loses, HandleOf
  <2> QED BY <1>3, <2>1, EmptiedOwned DEF New
<1>4. ASSUME NEW o \in Object, NEW c \in Class, NEW i \in Inputs(c), Call(o, c, i)
      PROVE  Goal
  <2>1. Loses(o) \/ Abort
    <3>1. HandleOf(o) = Null
      BY <1>4 DEF Call, Absent, HandleOf
    <3>2. lost' = lost \/ Abort
      BY <1>4 DEF Call
    <3> QED BY <3>1, <3>2 DEF Loses
  <2>2. CASE Outcome(c, i) = "made" /\ ~Abort
    <3>1. PICK h \in Handle : /\ Allocates(h, c, i.is)
                              /\ objects' = [objects EXCEPT ![o] = Object1(c, h, TRUE)]
      BY <1>4, <2>2 DEF Call
    <3>2. i.is \in Of[c]
      BY <2>2, MadeIs
    <3>3. Owned'
      BY <2>1, <2>2, <3>1, <3>2, MadeOwned
    <3> QED BY <1>4, <2>2, <3>3 DEF Call
  <2>3. CASE Outcome(c, i) # "made" /\ ~Abort
    BY <1>4, <2>3, UnchangedOwned DEF Call, Fails
  <2> QED BY <1>1, <2>2, <2>3
<1>5. ASSUME NEW o \in Object, NEW c \in Class, NEW i \in Inputs(c), InitAgain(o, c, i)
      PROVE  Goal
  <2>1. CASE Outcome(c, i) = "made" /\ ~Abort
    <3>1. PICK h \in Handle : /\ Allocates(h, c, i.is)
                              /\ objects' = [objects EXCEPT ![o] = Object1(c, h, TRUE)]
      BY <1>5, <2>1 DEF InitAgain
    <3>2. i.is \in Of[c]
      BY <2>1, MadeIs
    <3>3. Owned'
      BY <1>5, <2>1, <3>1, <3>2, MadeOwned DEF InitAgain
    <3> QED BY <1>5, <2>1, <3>3 DEF InitAgain
  <2>2. CASE Outcome(c, i) = "null" /\ ~Abort
    BY <1>5, <2>2, EmptiedOwned DEF InitAgain
  <2>3. CASE Outcome(c, i) \notin {"made", "null"} \/ Abort
    BY <1>1, <1>5, <2>3 DEF InitAgain
  <2> QED BY <2>1, <2>2, <2>3
<1>6. ASSUME NEW o \in Object, Dealloc(o) PROVE Goal
  BY <1>6, DeallocOwned DEF Dealloc
<1>7. ASSUME NEW m \in Object, NEW d \in Object, MatchDoc(m, d) PROVE Goal
  <2>1. CASE Null \in {HandleOf(m), HandleOf(d)}
    BY <1>1, <1>7, <2>1 DEF MatchDoc
  <2>2. CASE Null \notin {HandleOf(m), HandleOf(d)}
    <3>1. heap[HandleOf(m)].is \in Regex /\ heap[HandleOf(d)].is \in Subject
      BY <1>7, <2>2, MatchedAre DEF MatchDoc, Class, Of
    <3> QED BY <1>2, <1>7, <2>2, <3>1 DEF MatchDoc
  <2> QED BY <2>1, <2>2
<1>8. ASSUME NEW m \in Object, NEW i \in Inputs("document"), i.form # "other",
             MatchInput(m, i)
      PROVE  Goal
  <2>1. i.is \in Subject \cup {Invalid} /\ i.form \in {"text", "bytes"} /\ Invalid \notin Subject
    BY <1>8, InputAssumption DEF Inputs, Input, Form, Of, Class
  <2>2. CASE i.is = Invalid
    BY <1>1, <1>8, <2>1, <2>2 DEF MatchInput
  <2>3. CASE i.is \in Subject /\ HandleOf(m) = Null
    BY <1>1, <1>8, <2>1, <2>3 DEF MatchInput
  <2>4. CASE i.is \in Subject /\ HandleOf(m) # Null
    <3>1. heap[HandleOf(m)].is \in Regex
      BY <1>8, <2>4, MatchedAre DEF MatchInput, Class, Of
    <3> QED BY <1>2, <1>8, <2>1, <2>4, <3>1 DEF MatchInput
  <2> QED BY <2>1, <2>2, <2>3, <2>4
<1>9. ASSUME NEW q \in BytesFor("matcher"), NEW i \in BytesFor("document"), CompareOnce(q, i)
      PROVE  Goal
  BY <1>1, <1>2, <1>9 DEF CompareOnce
<1>10. CASE Shutdown
  BY <1>10, UnchangedOwned DEF Shutdown, Next
<1> QED BY <1>1, <1>3, <1>4, <1>5, <1>6, <1>7, <1>8, <1>9, <1>10 DEF LibNext

\* The invariant holds in every reachable state.
LEMMA LibInvariance == LibSpec => []LibInv
<1>1. LibInv /\ [LibNext]_libVars => LibInv'
  BY LibStep, NextInv DEF LibInv
<1> QED BY <1>1, LibInitInv, PTL DEF LibSpec

\* Type correctness of the objects, the memory and the cache.
THEOREM LibTypeCorrect == LibSpec => []LibTypeOK
<1>1. LibInv => LibTypeOK
  BY DEF LibInv, Inv, Owned, MemoryTypeOK, LibTypeOK
<1> QED BY <1>1, LibInvariance, PTL

\* Whatever is called in whatever order, no object holds what was freed or what
\* another object holds, and only a second __init__ leaks
\* (bsonsearch/matcher_ext/module.c).
THEOREM ObjectsOwnHandles == LibSpec => []HandlesOwned
<1>1. LibInv => HandlesOwned
  BY DEF LibInv, Owned
<1> QED BY <1>1, LibInvariance, PTL

\* An object whose constructor succeeded has a handle.
THEOREM ReadyObjectsHaveHandles == LibSpec => []ReadyHasHandle
<1>1. LibInv => ReadyHasHandle
  BY DEF LibInv, Owned
<1> QED BY <1>1, LibInvariance, PTL

\* One pattern with two options excepted, no program can tell that its matchers
\* share a cache, whenever it empties that cache.
THEOREM LibraryIsStateless ==
  ASSUME OneOption
  PROVE  LibSpec => Stateless
<1>1. LibInit => M!Init
  BY DEF LibInit, Init, M!Init
<1>2. LibInv /\ [LibNext]_libVars => [M!Next]_M!matchVars
  BY LibStep, NextStateless DEF LibInv
<1> QED BY <1>1, <1>2, LibInvariance, PTL DEF LibSpec, Stateless, M!Spec
================================================================================
