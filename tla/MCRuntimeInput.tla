---------------------------- MODULE MCRuntimeInput ----------------------------
(* Model-checking instances of the button pipeline: a polled button, a      *)
(* radio group of two, a push button beside a polled one, and a push button *)
(* on a board with an NFC reader whose event queue may fail.                *)
EXTENDS RuntimeInput

OneButton == <<"single">>
OnePush == <<"push">>
AllBoards == {OneButton, OnePush, <<"radio", "radio">>, <<"push", "single">>}
PushBoard == {OnePush}

(* Three presses overflow the retained edges of the polled button.          *)
Presses == [k \in AllBoards |-> CASE k = OneButton -> 3
                                  [] k = OnePush -> 2
                                  [] OTHER -> 1]
Failures == [k \in AllBoards |-> IF k = OnePush THEN 1 ELSE 0]
==============================================================================
