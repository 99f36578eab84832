------------------------------ MODULE MCKeyboard ------------------------------
(***************************************************************************)
(* Small keyboards and mice for TLC.                                       *)
(***************************************************************************)
EXTENDS InputDevice

\* Scan codes: a make code and a break code.
Keys == {<<"make">>, <<"break", "make">>}

\* A reset is answered with one byte, which is also a scan code.
OneAnswer == [c \in {"RESET"} |-> <<"make">>]
JustMake == <<"make">>
=============================================================================
