---------------------------- MODULE MCClockPoll ----------------------------
(* An instance of ClockPoll for TLC: the first payload of b2 is refused.    *)
EXTENDS ClockPoll

CONSTANTS b1, b2

MCBookings == {b1, b2}
MCMalformed == {<<b2, 1>>}
MCWellFormed == {}

=============================================================================
