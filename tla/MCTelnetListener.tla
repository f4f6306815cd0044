-------------------------- MODULE MCTelnetListener --------------------------
(* Two connections from an address with one slot.  The first client sends   *)
(* three lines out of a few with every kind of Telnet command in them, the  *)
(* second only connects.                                                    *)
EXTENDS TelnetListener, TLC

CONSTANTS k1, k2, ip

MCIpOf == [k \in Conns |-> ip]

\* Lines that are a name or password, that hold a command, a subnegotiation or
\* a data byte 255, that are too long.
Said == {<<"r", "nl">>, <<"x", "nl">>, <<"do", "r", "nl">>, <<"r", "sb", "nl">>,
         <<"ff", "nl">>, <<"nop", "x", "nl">>}

Early == {<<"r", "nl">>, <<"x", "nl">>, <<"r", "r", "r", "nl">>}

MCMessages ==
    (k1 :> {a \o b \o c : a \in Said, b \in Said, c \in Said}
             \cup {a \o b \o <<"r", "nl">> \o <<"x", "nl">> \o <<"x", "nl">> \o <<"r", "nl">> \o <<"nop">> :
                     a \in Early, b \in Early})
    @@ (k2 :> {<< >>})

\* ("x", "x") and ("ff", "r"), by their bytes.
MCAllowList == {<< <<"x">>, <<"x">> >>, << <<"IAC">>, <<"r">> >>}

MCValidUsernames == {<<"r">>}

MCPasswordList == {<<"r">>}

=============================================================================
