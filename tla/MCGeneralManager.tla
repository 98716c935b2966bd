--------------------------- MODULE MCGeneralManager ---------------------------
(***************************************************************************)
(* Instances of GeneralManager with the systems "s1" and "s2", in one       *)
(* manager or each in its own, and both requiring the component "c1".        *)
(***************************************************************************)
EXTENDS GeneralManager

MCOneManager == [s \in Systems |-> "default"]
MCTwoManagers == [s \in Systems |-> IF s = "s1" THEN "default" ELSE "game"]

MCSameRequirement == [s \in Systems |-> {"c1"}]
=============================================================================
