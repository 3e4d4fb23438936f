------------------------------- MODULE MCBooks -------------------------------
(* Instances of Books, with names of config/merchants.yaml, and its reports. *)
EXTENDS Books, TLC

CONSTANTS c1, c2

MCToken == {"Coupang", "coupang", "Trancy", "trancy", "KCP_", "kcp_", "(ju)", " "}
MCFold  == [t \in MCToken |->
  CASE t = "Coupang" -> "coupang" [] t = "Trancy" -> "trancy" [] t = "KCP_" -> "kcp_"
    [] OTHER -> t]
MCCorp   == {"(ju)"}
MCPrefix == <<"KCP_">>

\* A merchant entered under one key, and one under two names that are one key.
MCRows ==
  <<[canonical |-> <<"Coupang">>, aliases |-> <<>>, category |-> "shopping"],
    [canonical |-> <<"Trancy">>, aliases |-> << <<"trancy">> >>, category |-> "other"]>>

\* The first of them alone.
MCOneRow == SubSeq(MCRows, 1, 1)

MCCategory == {"shopping", "other"}

MCCatalogs == {{"shopping", "other"}, {"shopping"}}

MCBill == [p \in {1, 2} |->
  CASE p = 1 -> [raw |-> <<"KCP_", "Coupang", "(ju)">>, amount |-> 3, paidAt |-> <<2024, 12, 31>>,
           method |-> "unknown"]
    [] p = 2 -> [raw |-> <<"Trancy">>, amount |-> 5, paidAt |-> <<2025, 1, 1>>, method |-> "card"]]

\* Two lessons about the second one, with the name as the card company writes it.
MCLesson ==
  {[raw |-> <<"kcp_", "trancy">>, canonical |-> <<"Trancy">>, category |-> "shopping"],
   [raw |-> <<"kcp_", "trancy">>, canonical |-> <<"trancy">>, category |-> None]}
=============================================================================
