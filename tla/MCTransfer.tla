----------------------------- MODULE MCTransfer -----------------------------
(* Instances of Transfer for TLC.                                          *)
EXTENDS Transfer

Conf(sender, bytes) ==
  [sender |-> sender, bytes |-> bytes, blocks |-> 0, omit |-> FALSE,
   interval |-> {"client"}, limited |-> FALSE, file |-> 0, faults |-> {}, max_bytes |-> <<4>>]

\* -n without -i.
NoIntervalConfs == {[Conf(<<"client">>, 2) EXCEPT !.interval = {}]}

\* The client sends by bytes; the same with an omitted period; a reverse test by
\* bytes with failing writes, one by blocks; a server with a rate limit that
\* receives, and one that sends; a bidirectional test by time; a file that
\* ends before the limit, in two blocks of which one is short; no interval.
MCConfs ==
  {Conf(<<"client">>, 3),
   [Conf(<<"client">>, 2) EXCEPT !.omit = TRUE, !.max_bytes = <<2>>],
   [Conf(<<"server">>, 3) EXCEPT !.faults = {"eintr", "nobufs"}],
   [Conf(<<"server">>, 0) EXCEPT !.blocks = 2, !.interval = {}],
   [Conf(<<"client">>, 0) EXCEPT !.interval = {"server"}, !.limited = TRUE],
   [Conf(<<"server">>, 2) EXCEPT !.interval = {"server"}, !.limited = TRUE],
   [Conf(<<"client", "server">>, 0) EXCEPT !.interval = {}, !.max_bytes = <<0, 2>>],
   [Conf(<<"client">>, 4) EXCEPT !.file = 3, !.faults = {"eintr"}]}
  \cup NoIntervalConfs

=============================================================================
