---------------------------- MODULE MCFakeClaim ----------------------------
(***************************************************************************)
(* The instance of FakeClaim that TLC checks: one claim, a/b.              *)
(***************************************************************************)
EXTENDS FakeClaim

OneClaim == {[ns |-> <<"a">>, name |-> <<"b">>]}

NoClaims == {}
NoCCSProject == [c \in NoClaims |-> Nil]
=============================================================================
