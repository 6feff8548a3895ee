------------------------------- MODULE MCDag -------------------------------
(* Small graphs of pipelines.                                              *)
EXTENDS Dag

Listbcd == <<"b", "c", "d">>
Listd == <<"d">>
Listb == <<"b">>

Once == [s \in Sources |-> 1]
Twice == [s \in Sources |-> 2]
TwiceAndOnce == [s \in Sources |-> IF s = "a" THEN 2 ELSE 1]

(* d reads the outputs of b and c, which both read a.                      *)
Diamond == [p \in Pipelines |-> IF p = "d" THEN <<"b", "c">> ELSE <<"a">>]

(* d reads two client repositories.                                        *)
Cross == [p \in Pipelines |-> <<"a", "e">>]

(* b reads a, c reads b, d reads c.                                        *)
Chain == [p \in Pipelines |-> CASE p = "b" -> <<"a">> [] p = "c" -> <<"b">> [] p = "d" -> <<"c">>]
=============================================================================
