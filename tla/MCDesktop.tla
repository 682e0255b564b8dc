----------------------------- MODULE MCDesktop ------------------------------
(***************************************************************************)
(* An instance of Desktop for TLC.                                          *)
(***************************************************************************)
EXTENDS Desktop

CONSTANTS a1, a2, s1, v1

Names == {"ctrl", "c"}
Said == {<<"ctrl", "c">>, <<"ctrl", "nokey">>}
Party(S, acts, T) ==
    [s \in Session |-> [acts |-> IF s \in S THEN acts ELSE 0, chat |-> IF s \in T THEN 1 ELSE 0]]
Parties == {Party({a1}, 2, {a1}), Party({a1, a2}, 1, {}), Party({a1, v1}, 1, {v1}), Party({s1}, 1, {s1})}
=============================================================================
