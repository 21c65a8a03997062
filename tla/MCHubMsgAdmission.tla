--------------------------- MODULE MCHubMsgAdmission ---------------------------
(* Instances of HubMsgAdmission for TLC: two submissions under one key with  *)
(* different digests, and a second attempt (another key) at the same message *)
(* with the first digest.                                                    *)
EXTENDS HubMsgAdmission

CONSTANTS h1, h2, o1, o2, m1, g1, g2

First == [op |-> o1, mid |-> m1, digest |-> g1, rest |-> 1]
Other == [op |-> o1, mid |-> m1, digest |-> g2, rest |-> 1]
Again == [op |-> o2, mid |-> m1, digest |-> g1, rest |-> 1]

Three == {First, Other, Again}
=============================================================================
