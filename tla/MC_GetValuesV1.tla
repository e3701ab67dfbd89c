---------------------------- MODULE MC_GetValuesV1 ----------------------------
(***************************************************************************)
(* Inputs for checking GetValuesV1: two atoms, a plain and a JSON cache    *)
(* value, and the groups a UDF may emit besides its answers (the           *)
(* ["structured", "groupNames"] group of the protocol example, and a group *)
(* with one tag).                                                          *)
(***************************************************************************)
EXTENDS GetValuesV1

SingleKeys == { << "a" >>, << "b" >> }

DelimitedKeys == SingleKeys \cup { << "a", "b" >> }

Values == { [text |-> "hello", json |-> FALSE], [text |-> "1", json |-> TRUE] }

Groups ==
    { [tags |-> << "structured", "groupNames" >>, key_values |-> EmptyStruct],
      [tags |-> << "custom" >>, key_values |-> EmptyStruct] }
=============================================================================
