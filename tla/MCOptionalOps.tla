--------------------------- MODULE MCOptionalOps ---------------------------
(***************************************************************************)
(* Small instances of OptionalOps: up to three entries of a $text in every *)
(* order, four in some; addresses of two bits; two owners of keys.         *)
(***************************************************************************)
EXTENDS OptionalOps

Words == {"run", "runs", "wlk", "phrase"}

MCStem == [lw \in {"english", "french", "sweedish"} \X Words |->
             IF lw = <<"english", "runs">> THEN "run" ELSE lw[2]]
MCAccepted  == {"english", "french", "sweedish"}
MCStemmers  == {"english", "french"}
MCStops     == {"default", "comma"}
MCDicts     == {"en_US", "en_GB"}
MCInstalled == {"en_US"}
MCSpelled   == {<<"en_US", "run">>, <<"en_US", "runs">>}

Other   == [type |-> "other"]
A(items) == [type |-> "array", items |-> items]
T(words, whole) == [type |-> "text", tokens |-> [stop \in MCStops |->
                                                   IF stop = "comma" THEN whole ELSE words]]
\* A text of n words of which the first m are spelled right.
Of(m, n) == LET words == [i \in 1 .. n |-> IF i <= m THEN "run" ELSE "wlk"] IN T(words, words)
Runs == T(<<"run", "runs">>, <<"phrase">>)
Odd  == T(<<"runs", "wlk", "runs">>, <<"runs", "wlk">>)
Bare == T(<< >>, <<"phrase">>)
Void == T(<< >>, << >>)

N(n) == [type |-> "int32", n |-> n]
E(key, vals) == {[key |-> key, val |-> v] : v \in vals}

Entries ==
  E("$size", {N(1), N(2), [type |-> "doc", key |-> "gte", val |-> N(60)]})
    \cup E("$search", {T(<<"run">>, <<"runs">>), Void, Other})
    \cup E("$language", {"french", "sweedish", "klingon"})
    \cup E("$dictionary", MCDicts) \cup E("$stopWord", {"comma", ""})
    \cup E("$opcode", {"$", "$spelling", "$spellingcorrect", "$spellingpercentage", "$bogus"})

Four == {<<"$size", "$search", "$language", "$stopWord">>,
         <<"$language", "$size", "$stopWord", "$search">>,
         <<"$search", "$stopWord", "$language", "$size">>,
         <<"$size", "$dictionary", "$stopWord", "$opcode">>}

Lists == UNION {[1 .. n -> Entries] : n \in 0 .. 2}
           \cup {es \in [1 .. 3 -> Entries] : \E i \in 1 .. 3 : es[i].key = "$size"}
           \cup {es \in [1 .. 4 -> Entries] : \E f \in Four : \A i \in 1 .. 4 : es[i].key = f[i]}

\* Percentages that are hard to meet with a few words.
Percentages ==
  {<<[key |-> "$size", val |-> size], [key |-> "$dictionary", val |-> "en_US"],
     [key |-> "$opcode", val |-> "$spellingpercentage"]>> :
     size \in {N(57), N(58), N(56), N(28), [type |-> "doc", key |-> "gte", val |-> N(58)]}}

TextSpecs == [name : {"$text"}, entries : Lists \cup Percentages, dotted : {TRUE}]

Ip(subtype, bits) == [type |-> "address", subtype |-> subtype, full |-> TRUE, bits |-> bits]
Short == [type |-> "address", subtype |-> "v4", full |-> FALSE, bits |-> {1}]

Binaries == {Ip("v4", {}), Ip("v4", {1}), Ip("v4", {1, 2}), Ip("v6", {1}), Short, Other}
Ranges   == UNION {[1 .. n -> Binaries] : n \in 0 .. 3}
Few      == [1 .. 2 -> {Ip("v4", {}), Ip("v4", {1}), Ip("v4", {1, 2}), Ip("v6", {1})}]
              \cup {<< >>, <<Ip("v4", {1})>>}

IpSpecs ==
  [name : {"$inIPrange", "ip"}, items : Ranges, dotted : {TRUE}]
    \cup [name : {"$inIPrangeset", "ip"}, dotted : {TRUE},
          items : {<< >>, <<Other>>} \cup {<<A(r)>> : r \in Ranges}
                    \cup {<<A(r), A(q)>> : r, q \in Few} \cup {<<A(r), Other>> : r \in Few}]

Key(owner, zero) == [type |-> "key", owner |-> owner, zero |-> zero]
Keys2(pk, sk)    == [type |-> "keys", entries |-> <<[key |-> "pk", val |-> pk],
                                                     [key |-> "sk", val |-> sk]>>]
KeyPairs == {Keys2(pk, sk) : pk \in {Key("alice", FALSE), Key("bob", FALSE), Other},
                             sk \in {Key("alice", FALSE), Key("alice", TRUE)}}
Query(accepts) == [type |-> "query", accepts |-> accepts]

SealEntries ==
  E("$keys", KeyPairs \cup {[type |-> "keys", entries |-> << >>]})
    \cup E("$query", {Query({"letter"}), Query({"letter", "note"}), Other})

SealSpecs == [name : {"$sealOpen"}, dotted : {TRUE, FALSE},
              entries : UNION {[1 .. n -> SealEntries] : n \in 0 .. 2}]

Box(owner, content) == [type |-> "box", owner |-> owner, content |-> content]

MCSpecs == TextSpecs \cup IpSpecs \cup SealSpecs

Direct(vs) == {[direct |-> v, spread |-> << >>] : v \in vs}
Spread(ss) == {[direct |-> None, spread |-> s] : s \in ss}

TextDocs == Direct({Runs, Odd, Bare, Other, A(<<Bare, A(<<Odd>>)>>), Of(29, 50), Of(57, 100)})
              \cup Spread({<< >>, <<Runs, Odd>>, <<Of(5, 9), Of(29, 100)>>})

IpDocs == Direct({Ip("v4", {2}), Ip("v4", {1, 2}), Ip("v6", {1}), Ip("generic", {}), Short,
                  A(<<Ip("v6", {1}), Ip("v4", {})>>)})
            \cup Spread({<< >>, <<Ip("v4", {1}), Ip("v4", {})>>})

SealDocs == Direct({Box("alice", "letter"), Box("alice", "note"), Box("alice", "noise"),
                    Box("bob", "letter"), Box("alice", "empty"), A(<<Box("alice", "letter")>>),
                    Ip("v4", {1})})
              \cup Spread({<< >>, <<Box("alice", "letter"), Box("bob", "note")>>})

MCDocs == [name \in {"$text", "$inIPrange", "$inIPrangeset", "ip", "$sealOpen"} |->
             CASE name = "$text" -> TextDocs [] name = "$sealOpen" -> SealDocs [] OTHER -> IpDocs]
=============================================================================
