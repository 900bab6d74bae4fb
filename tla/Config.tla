------------------------------- MODULE Config -------------------------------
(***************************************************************************)
(* LoadBitcoinConfig (internal/config/config.go), for the two settings     *)
(* that say which services run.  File and environment are not merged: with *)
(* a bitcoin.toml only its own keys count, each overruled by the variable  *)
(* viper derives from the key; without one the variables of the env tags   *)
(* do, the ones docs/ENVS.md lists.                                        *)
(*                                                                         *)
(* External: viper 1.18.2 knows no key but those of the file, and env      *)
(* fails on a variable that does not parse.                                *)
(***************************************************************************)

Values == {"true", "false", "bad"}   \* "bad" does not parse as a bool
Absent == "absent"
Zero   == "false"

Files == {"there", "missing", "unreadable"}

\* A setting, by what its sources say of it: the file, viper's variable of the
\* key and the variable of the env tag.
Setting == [line : Values \cup {Absent}, viper : Values \cup {Absent},
            tag : Values \cup {Absent}]

\* BITCOIN_ENABLE_INDEXER is both; of EnableEps one is BITCOIN_EPS_ENABLE_EPS
\* and the other ENABLE_EPS.
EnableIndexer == {s \in Setting : s.viper = s.tag}
EnableEps     == Setting

FromFileBound(s) ==  \* mutant: the variables of keys that are not in the file count
  CASE s.viper # Absent -> s.viper
    [] s.line # Absent  -> s.line
    [] OTHER            -> Zero
FromFile(s) == CASE s.line = Absent  -> Zero
                 [] s.viper = Absent -> s.line
                 [] OTHER            -> s.viper

FromViper(s) == IF s.viper = Absent THEN Zero ELSE s.viper  \* mutant
FromEnv(s)   == IF s.tag = Absent THEN Zero ELSE s.tag

\* The value of a setting, "bad" for an error.
Load(file, s) == CASE file = "there"   -> FromFile(s)
                   [] file = "missing" -> FromEnv(s)
                   [] OTHER            -> "bad"
=============================================================================
