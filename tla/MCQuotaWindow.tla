---------------------------- MODULE MCQuotaWindow ----------------------------
(* A year of four days for QuotaWindow: the clocks change on the second and *)
(* on the fourth, and something happens just before and at each 6 AM.       *)
EXTENDS QuotaWindow, TLC

Eastern == -5
SecondDay2AM == 24 + 2 + 5
FourthDay2AM == 72 + 2 + 4
AroundSixAM == {11, 24 + 9, 24 + 10, 48 + 9, 48 + 10, 72 + 10, 72 + 11}
==============================================================================
