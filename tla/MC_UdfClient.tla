----------------------------- MODULE MC_UdfClient -----------------------------
(***************************************************************************)
(* Code configs for checking UdfClient.  Each config of a delta file has   *)
(* its own handler and logical commit time; the two sets differ only in    *)
(* whether the configs carry distinct version numbers or all keep the      *)
(* default version 1.                                                      *)
(***************************************************************************)
EXTENDS UdfClient

CodesDistinctVersions ==
    { [id |-> "js1", lct |-> 1, version |-> 1, handler |-> "h1"],
      [id |-> "js2", lct |-> 2, version |-> 2, handler |-> "h2"] }

CodesSameVersion ==
    { [id |-> "js1", lct |-> 1, version |-> 1, handler |-> "h1"],
      [id |-> "js2", lct |-> 2, version |-> 1, handler |-> "h2"] }
=============================================================================
