----------------------------- MODULE MCMainLoop -----------------------------
(***************************************************************************)
(* Instance of MainLoop for TLC: configurations that share options through *)
(* [general], share a log file, set an option twice, and each of the ways  *)
(* in which a configuration is rejected.                                   *)
(***************************************************************************)
EXTENDS MainLoop

Setting(s, o, v) == [section |-> s, option |-> o, value |-> v]

\* Two items on one file, the action inherited.
SharedFile ==
  <<Setting(0, "upbound_action", "mail"), Setting(0, "path", "log"),
    Setting(1, "regex", "x"), Setting(2, "regex", "y")>>

\* Two items on two files, the second section overriding an earlier setting.
TwoFiles ==
  <<Setting(1, "path", "log"), Setting(1, "upbound_action", "mail"),
    Setting(2, "path", "log"), Setting(2, "upbound_action", "mail"), Setting(2, "path", "aux")>>

\* The second item has no action.
NoAction ==
  <<Setting(1, "path", "log"), Setting(1, "upbound_action", "mail"), Setting(2, "path", "log")>>

\* A misspelt option.
Misspelt ==
  <<Setting(1, "path", "log"), Setting(1, "upbound_action", "mail"), Setting(1, "regexp", "x")>>

\* The second item's expression does not compile.
Uncompilable ==
  <<Setting(0, "upbound_action", "mail"), Setting(0, "path", "log"),
    Setting(1, "regex", "x"), Setting(2, "regex", "bad")>>

SomeTexts == {SharedFile, TwoFiles, NoAction, Misspelt, Uncompilable}

SomeOptions == {"upbound_action", "path", "regex", "file_type"}

Defaults == [regex |-> "any", file_type |-> "file"]
=============================================================================
