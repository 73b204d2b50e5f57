------------------------------- MODULE EditorMC -------------------------------
(* A small application: page a with a subpage x, links to both, and a query. *)
EXTENDS Editor, TLC

CONSTANTS free, private, p1

\* A name left empty is not typed in this instance.
MCTyped == {<<"a">>, <<"b">>}
MCWizard == {<<TRUE, {"insert"}>>, <<FALSE, {"update", "details"}>>}

MCInitial ==
    [parent |-> [p \in Pages |-> IF p = 1 THEN free ELSE IF p = 2 THEN 1 ELSE Nowhere],
     name |-> [p \in Pages |-> IF p = 1 THEN <<"a">> ELSE IF p = 2 THEN <<"x">> ELSE Nameless],
     links |-> {[in |-> free, route |-> << <<"a">>, <<"x">> >>, goal |-> 2],
                [in |-> private, route |-> << <<"a">> >>, goal |-> 1]},
     uses |-> {[in |-> 1, query |-> <<"q">>, params |-> {p1}]},
     queries |-> {[name |-> <<"q">>, collection |-> <<"c">>]},
     collections |-> {<<"c">>},
     rest |-> FALSE]

\* The theorems about references speak of applications like this one.
ASSUME MCAssumption == SoundAtFirst /\ NamesTyped

=============================================================================
