----------------------- MODULE MCConfigurationStore -----------------------
(***************************************************************************)
(* ConfigurationStore for TLC: three records and sequence numbers of two   *)
(* bits, so that the number wraps after four saves and every distance the  *)
(* signed comparison can meet is met.                                      *)
(***************************************************************************)
EXTENDS ConfigurationStore
=============================================================================
