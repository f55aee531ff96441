--------------------------- MODULE MCFirmwareTasks ---------------------------
(***************************************************************************)
(* Lines of one command each that meet in every pair of handlers that      *)
(* share something, and a line of two commands.  Of the handlers that are  *)
(* alike to the other tasks one stands for all.                            *)
(***************************************************************************)
EXTENDS FirmwareTasks

Command(name) == [name |-> name]
PinCommand(name, p) == [name |-> name, pin |-> p]

MCErrorLines ==
    {<<Command("undefined")>>, <<Command("systerr")>>, <<Command("rst")>>,
     <<Command("mcpbad"), Command("systerr")>>}

MCPortLines ==
    {<<PinCommand("mcptoggle", "p1")>>, <<PinCommand("mcptoggle", "p2")>>,
     <<PinCommand("mcpwrite", "p1")>>}

MCLines ==
    MCErrorLines \cup MCPortLines
        \cup {<<Command("blank"), Command("mcpmode")>>, <<Command("status")>>}
=============================================================================
