------------------------------- MODULE MCSession -------------------------------
(* Path 2 is still written. *)
EXTENDS Session

CONSTANTS a, b

MCContent == <<a, b>>
MCDurations == <<{20}, {12, 20}>>
MCSkip == <<0, 8>>
\* An ini file, from its entries in the order of the keys.
Ini(entries) ==
  [h \in {entries[i].hash : i \in DOMAIN entries} |->
     LET i == CHOOSE i \in DOMAIN entries : entries[i].hash = h
     IN  [key |-> i - 1, pos |-> entries[i].pos]]
MCStores ==
  {Ini(<<>>), Ini(<<[hash |-> <<a, "old">>, pos |-> 6]>>),
   Ini(<<[hash |-> <<b, "new">>, pos |-> 8], [hash |-> <<b, "old">>, pos |-> 6]>>),
   Ini(<<[hash |-> <<b, "old">>, pos |-> 8], [hash |-> <<a, "new">>, pos |-> 6]>>)}
\* Three entries, while little is played; and one, played through.
MCLimits ==
  {[entries |-> 3, times |-> {}, repeats |-> {<<TRUE, FALSE>>},
    stores |-> {Ini(<<>>)}, update |-> FALSE],
   [entries |-> 1, times |-> {6, 8}, repeats |-> {<<FALSE, FALSE>>},
    stores |-> MCStores, update |-> TRUE],
   [entries |-> 1, times |-> {6}, repeats |-> {<<TRUE, TRUE>>},
    stores |-> {Ini(<<>>)}, update |-> FALSE]}
=============================================================================
