----------------------------- MODULE MCUserMode -----------------------------
(***************************************************************************)
(* Three messages of BspKernelThread around its other steps, and two       *)
(* programs that print and exit, on a screen of three lines of four        *)
(* letters.                                                                *)
(***************************************************************************)
EXTENDS UserMode

MCDigit == [d \in 0 .. 15 |-> <<"0", "1", "2", "3", "4", "5", "6", "7", "8", "9", "a",
                               "b", "c", "d", "e", "f">>[d + 1]]
MCScript == <<Message(<<Char("M"), Conversion("d", 10), Char("nl")>>),
              InitSysCalls,
              Message(<<Conversion("x", 0), Char("tab"), Conversion("x", 47)>>),
              Message(<<Conversion("d", -7), Conversion("d", 0)>>),
              Add("u"), Add("v")>>
Putc(c) == [op |-> "putc", char |-> c]
Exit == [op |-> "exit", char |-> "none"]
MCCalls == [u \in {"u", "v"} |->
              IF u = "u" THEN <<Putc("H"), Putc("nl"), Exit>> ELSE <<Putc("W"), Exit>>]
MCPanic == <<<<Char("P")>>, <<Conversion("u", 100)>>>>
MCUnhandled == <<<<Char("U"), Char("nl")>>>>
MCBeyonds == {<<>>, <<"?">>}
=============================================================================
