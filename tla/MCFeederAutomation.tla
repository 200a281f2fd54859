------------------------- MODULE MCFeederAutomation -------------------------
(* The feeder of the source's tests, with a fused lateral and a second tie: *)
(*                                                                          *)
(*   0 -[1 recloser]- S1 -[2 auto]- S2 -[3 sectionalizer]- S3               *)
(*                                   |                      |               *)
(*                                [4 fuse]            [5 tie] - 10          *)
(*                                   |                                      *)
(*                                   S4 -[6 tie]- S3                        *)
EXTENDS FeederAutomation

MCKind == <<"Recloser", "AutoSwitch", "Sectionalizer", "Fuse", "AutoSwitch", "ManualSwitch">>
MCFrom == <<0, 1, 2, 2, 10, 4>>
MCTo == <<1, 2, 3, 4, 3, 3>>
MCRating == <<0, 0, 0, 0, 3, 2>>
MCPosition == <<"Closed", "Closed", "Closed", "Closed", "Open", "Open">>
MCTies == <<5, 6>>
MCNodes == <<{1}, {2}, {3}, {4}>>
MCLoad == <<1, 1, 2, 2>>

==============================================================================
