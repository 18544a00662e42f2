------------------------------- MODULE MCVga --------------------------------
(***************************************************************************)
(* The kernel's strings with every word cut to a character. One log line   *)
(* names a file with a tab in its name, two name files with characters     *)
(* that are not in the font.                                               *)
(***************************************************************************)
EXTENDS Vga

MCMotd == <<"BOLD", "RED", "N", "1", "NL", "BLUE", "C", "NL", "NL",
            "DEFAULT", "T", "h", "NL">>
MCPrompt == <<"BOLD", "DEFAULT", "[", "GREEN", "r", " ", "BLUE", "~",
              "DEFAULT", "]", "#", " ">>
MCKeyLog == <<"PURPLE", "[", "T", "DEFAULT", " ", "R">>
MCFatalLog == <<"ORANGE", "[", "F", "DEFAULT", " ", "k", "NL", "i">>
MCLogs == {<<"GREEN", "[", "D", "DEFAULT", " ", "s">>,
           <<"PURPLE", "[", "T", "DEFAULT", " ", "a", "TAB", "b">>,
           <<"PURPLE", "[", "T", "DEFAULT", " ", "U+0100", "y">>,
           <<"PURPLE", "[", "T", "DEFAULT", " ", "WIDE", "z">>}

=============================================================================
