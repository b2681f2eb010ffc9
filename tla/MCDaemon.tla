------------------------------ MODULE MCDaemon ------------------------------
(***************************************************************************)
(* Instance of Daemon for TLC: the main thread and one action thread.      *)
(***************************************************************************)
EXTENDS Daemon

Line(mode, logfile, stdout, config, chdir, daemon, u, g, cu, cg, user) ==
  [mode |-> mode, logfile |-> logfile, stdout |-> stdout, config |-> config, chdir |-> chdir,
   daemon |-> daemon, uid |-> u, gid |-> g, confuid |-> cu, confgid |-> cg, user |-> user]

MCMessages == {<<"info", "a">>, <<"debug", "b">>}

\* Help; a configuration test; a daemon with a log file whose configuration asks
\* for both ids; one that logs to syslog and asks for a group in both places,
\* both started by root (0); and two that log to stdout and ask for ids they do
\* not get.
MCCommandLines ==
  {Line("print", FALSE, FALSE, FALSE, FALSE, FALSE, 0, 0, 0, 0, 0),
   Line("test", TRUE, FALSE, FALSE, FALSE, FALSE, 0, 0, 0, 0, 0),
   Line("run", TRUE, FALSE, TRUE, FALSE, TRUE, 0, 0, 1, 2, 0),
   Line("run", FALSE, FALSE, TRUE, TRUE, FALSE, 0, 2, 0, 3, 0),
   Line("run", TRUE, TRUE, FALSE, FALSE, FALSE, 1, 2, 0, 0, 0),
   Line("run", FALSE, TRUE, FALSE, FALSE, TRUE, 2, 0, 0, 0, 1)}

=============================================================================
