---------------------------- MODULE MCVfsAdapter ----------------------------
(* A group of two and a lone traveller, on a portal with two days *)
EXTENDS VfsAdapter

MCCases == {"c1", "c2"}
MCApplicants == {"a", "b", "x"}
MCParty == [c \in MCCases |-> IF c = "c1" THEN <<"a", "b">> ELSE <<"x">>]
MCRoom == <<1, 2>>

=============================================================================
