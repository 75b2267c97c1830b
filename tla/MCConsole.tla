----------------------------- MODULE MCConsole ------------------------------
(* Values for model checking Console.                                      *)
EXTENDS Console

\* A call that fits into the buffer, and one that does not.
ShortAndLong == {1, 3}

\* Within the limits, below them, and above.
SomeTimeouts == {0, 2}

WithAndWithout == BOOLEAN
Without == {FALSE}
=============================================================================
