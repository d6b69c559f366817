-------------------------- MODULE MCStreamDecoding --------------------------
(* Small search results for TLC. *)
EXTENDS StreamDecoding

\* Names of two bytes; the hashes of runs, and of progress reports.
N(a, b) == <<"str", <<a, b>>>>
I(n) == <<"int", n>>

\* An object with the nodes listed: pairs of a path and what is there.
Object(key, list) ==
  [key |-> key, paths |-> [i \in DOMAIN list |-> list[i][1]],
   tree |-> [p \in {list[i][1] : i \in DOMAIN list} |->
               list[CHOOSE i \in DOMAIN list : list[i][1] = p][2]]]

Run == Object(N(0, 0),
              << <<(<<>>), "object">>, << <<N(1, 0)>>, "object">>,
                 << <<N(1, 0), N(1, 0)>>, "leaf">>, << <<N(0, 1)>>, "array">>,
                 << <<N(0, 1), I(0)>>, "object">>, << <<N(0, 1), I(0), N(1, 0)>>, "leaf">>,
                 << <<N(0, 1), I(1)>>, "array">>, << <<N(0, 1), I(1), I(0)>>, "leaf">> >>)
Bare == Object(N(0, 1), << <<(<<>>), "object">> >>)

\* The last indices are the byte of the sentinel, the byte above it, and two bytes.
Progress == Object(N(1, 0),
                   << <<(<<>>), "array">> >> \o [i \in 1..(Base + 1) |-> << <<I(i - 1)>>, "leaf">>])

MCObjects == {Run, Bare, Progress}
=============================================================================
