------------------------------ MODULE MCShell -------------------------------
EXTENDS Shell

MCCommands == {<<"e">>, <<"r">>, <<"e", "r">>}
MCreadelf == <<"r">>
MCFiles == {<<"e">>}

=============================================================================
