----------------------------- MODULE MCCommands -----------------------------
(* Two paths and three devices for Commands: a keyboard, one that is not   *)
(* on the list, and one without a usage pair.                              *)
EXTENDS Commands

CONSTANTS a, b

Keyboard ==
    [vendor |-> 4617, product |-> 1, interface |-> 1,
     descriptor |-> "raw", count |-> 6, length |-> 7]

MCDevices ==
    {Keyboard, [Keyboard EXCEPT !.vendor = 1],
     [Keyboard EXCEPT !.descriptor = "no_pair"]}

\* A path may be given twice.
MCArguments == {<<>>, <<a>>, <<a, b>>, <<a, b, a>>}
=============================================================================
