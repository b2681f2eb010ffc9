--------------------------- MODULE MCFreqMonitor ----------------------------
(***************************************************************************)
(* Configurations of FreqMonitor for TLC.                                  *)
(***************************************************************************)
EXTENDS FreqMonitor

Settings(usecrc, upCount, upTime, downCount, downTime) ==
  [usecrc |-> usecrc, upCount |-> upCount, upTime |-> upTime,
   downCount |-> downCount, downTime |-> downTime]

\* One item measured per CRC; more than one match of a CRC in a second is an
\* excess, fewer than two in two seconds a silence.
Solo == <<Settings(TRUE, 1, 1, 2, 2)>>

\* Two items that share the down-bound thread's start_time, the second with
\* the default up-bound frequency 0/0 and the longer down-bound period.
Pair == <<Settings(FALSE, 1, 1, 1, 1), Settings(FALSE, 0, 0, 1, 2)>>

SoloAndPair == {Solo, Pair}
OnlyPair    == {Pair}
=============================================================================
