------------------------------ MODULE TextOps ------------------------------
(***************************************************************************)
(* $text (lib/mongoc-matcher-op-text.c): how its op is built from the      *)
(* entries of its spec, one after the other, and what it asks of a value.  *)
(*                                                                         *)
(* A text is its words by the characters that part them, as strtok finds   *)
(* them.  Snowball and aspell are external: a stemmer maps words to stems, *)
(* a dictionary holds words.  Outcomes are sets, of "yes", "no", "crash".  *)
(***************************************************************************)
EXTENDS Lengths, Sequences, SequencesExt

CONSTANTS Null,
          Accepted,  \* the languages of mongoc_verify_stem_algo
          Stemmers,  \* the languages that Snowball has
          Stem,      \* [language, word] to stem
          Stops,     \* the sets of characters that part words
          Dicts,     \* the dictionaries of mongoc_verify_dict_name
          Installed, \* the ones that aspell has
          Spelled    \* the [dictionary, word] that it has in them

Spelling == {"error", "correct", "percentage"}

TextOp0 ==
  [made |-> "op", opcode |-> "wordcount", language |-> "english", stop |-> "default",
   size |-> Null, search |-> Null, stemmer |-> Null, words |-> {},
   dictionary |-> Null, speller |-> Null, lost |-> 0]

\* What an assignment over a pointer loses.
Over(pointer) == IF pointer = Null THEN 0 ELSE 1

\* Mutant: the default language is not freed.
ReadLanguageOnly(op, v)   == [op EXCEPT !.language = v, !.lost = @ + 1]
\* Mutant: the stemmer is built when $search is read.
ReadLanguageInTime(op, v) == IF op.search = Null THEN [op EXCEPT !.language = v] ELSE op
ReadLanguage(op, v)       == [op EXCEPT !.language = v]

ReadDictionary(op, v) ==
  [op EXCEPT !.dictionary = v,
             !.speller = IF v \in Installed THEN v ELSE @,
             !.lost = @ + Over(op.dictionary)
                        + IF v \in Installed THEN Over(op.speller) ELSE 0]

\* strncmp with the length of what is given: any beginning of a name will do,
\* and the first name that begins so.
OpcodeNames ==
  ("" :> "wordcount") @@ ("$" :> "wordcount") @@ ("$wordcount" :> "wordcount")
    @@ ("$spelling" :> "error") @@ ("$spellingerror" :> "error")
    @@ ("$spellingcorrect" :> "correct") @@ ("$spellingpercentage" :> "percentage")

ReadText(op, e) ==
  CASE e.key = "$size" ->
         [op EXCEPT !.size = e.val, !.lost = @ + Over(op.size)]
    [] e.key = "$search" /\ e.val.type = "text" ->
         [op EXCEPT !.opcode = "matches", !.search = e.val, !.lost = @ + Over(op.search)]
    [] e.key = "$language" /\ e.val \in Accepted            -> ReadLanguage(op, e.val)
    [] e.key = "$dictionary" /\ e.val \in Dicts             -> ReadDictionary(op, e.val)
    [] e.key = "$stopWord" /\ e.val \in Stops               -> [op EXCEPT !.stop = e.val]
    [] e.key = "$opcode" /\ e.val \in DOMAIN OpcodeNames ->
         [op EXCEPT !.opcode = OpcodeNames[e.val]]
    [] OTHER                                                -> op

Stems(op) == {Stem[<<op.language, w>>] : w \in ToSet(op.search.tokens[op.stop])}

\* After the last entry.  The words are stemmed before the stemmer is looked at.
FinishText(op) ==
  CASE op.search = Null -> op
    [] op.search # Null /\ op.language \in Stemmers ->
         [op EXCEPT !.stemmer = op.language, !.words = Stems(op)]
    [] op.search # Null /\ op.language \notin Stemmers ->
         IF op.search.tokens[op.stop] # << >> THEN [op EXCEPT !.made = "crash"]
         ELSE IF op.opcode # "matches" THEN op
         ELSE [op EXCEPT !.made = IF op.size = Null THEN "assert" ELSE "null"]

BuildText(entries) == FinishText(FoldLeft(ReadText, TextOp0, entries))
-----------------------------------------------------------------------------
\* Does a word count.
WordCounts(op, w) ==
  CASE op.opcode = "wordcount"                   -> TRUE
    [] op.opcode = "matches"                     -> Stem[<<op.stemmer, w>>] \in op.words
    [] op.opcode \in {"correct", "percentage"}   -> <<op.speller, w>> \in Spelled
    [] op.opcode = "error"                       -> <<op.speller, w>> \notin Spelled

\* (uint32_t) (100 * ((double) matches / (double) total)).  The division is that
\* of k / 100 when there are k in a hundred; for three k a hundred times the
\* double next to k / 100 is the double before k, and truncated to k - 1.  If the
\* percentage is not whole it is farther from the next than any rounding.
RoundedBelow == {29, 57, 58}

Percent(matches, total) ==
  LET exact == (100 * matches) \div total
  IN  IF (100 * matches) % total = 0 /\ exact \in RoundedBelow THEN exact - 1 ELSE exact

\* What is compared with the size: 0 / 0 converted to uint32_t may be anything.
Totals(op, tokens) ==
  LET matches == Len(SelectSeq(tokens, LAMBDA w : WordCounts(op, w)))
  IN  CASE op.opcode # "percentage"                    -> {matches}
        [] op.opcode = "percentage" /\ tokens # << >>  -> {Percent(matches, Len(tokens))}
        [] op.opcode = "percentage" /\ tokens = << >>  -> {0, 1000}

TextOutcomes(op, v) ==
  LET tokens == v.tokens[op.stop]
  IN  IF op.size = Null \/ (op.opcode \in Spelling /\ op.speller = Null /\ tokens # << >>)
      THEN {"crash"}
      ELSE {IF LengthMatch(op.size, n) THEN "yes" ELSE "no" : n \in Totals(op, tokens)}

\* What _mongoc_matcher_op_destroy leaves behind, besides what was lost before.
TextLeft(op) ==
  op.lost + IF op.opcode \in Spelling THEN 0 ELSE Over(op.dictionary) + Over(op.speller)
=============================================================================
