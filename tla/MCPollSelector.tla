--------------------------- MODULE MCPollSelector ---------------------------
(* TLC instances of PollSelector.                                          *)
EXTENDS PollSelector

MCInterests == {{"Read"}, {"Write", "Hup"}}

(* Nothing, readable and writable, only hung up.                           *)
MCConditions == {{}, {"POLLIN", "POLLOUT"}, {"POLLHUP"}}
=============================================================================
