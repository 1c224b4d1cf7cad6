---------------------------- MODULE MCAnnouncer ----------------------------
(* Two trackers, in one tier or in two.                                    *)
EXTENDS Announcer

CONSTANTS t1, t2, u, v

OneTier == <<<<u, v>>>>
TwoTiers == <<<<u>>, <<v>>>>
OnlyOne == <<<<v>>>>

BothLayouts == {OneTier, TwoTiers}
Single == {OnlyOne}
Shrinking == {OneTier, OnlyOne}
=============================================================================
