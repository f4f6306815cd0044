----------------------------- MODULE MCEventLog -----------------------------
(* Two sessions, one from an excluded address; rotations enough to compress *)
(* and to delete a log.                                                     *)
EXTENDS EventLog

CONSTANTS s1, s2

MCWorkloads ==
    {<< <<"connect", s2>>, <<"command", s2>>, <<"connect", s1>> >>,
     << <<"connect", s1>>, <<"heartbeat", "none">>, <<"command", s1>> >>}

=============================================================================
