------------------------------- MODULE MCHands -------------------------------
(* Instances of the tools for TLC. *)
EXTENDS HandsProps

\* s1 and s2 are of one user, s3 of another whose account is the same.
TwoUsers == [s1 |-> "ann", s2 |-> "ann", s3 |-> "bob"]
TwoCodes == [ann |-> <<97, 110, 110>>, bob |-> <<97, 110, 114>>]

\* A plain name and one with a quote, which no tool but grep mistakes.
TwoNames == {<<"./", "f">>, <<"'", "f">>}
Default == <<"home", "user">>
=============================================================================
