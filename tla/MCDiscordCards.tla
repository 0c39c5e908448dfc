--------------------------- MODULE MCDiscordCards ---------------------------
(* Instances of DiscordCards for TLC.                                      *)
EXTENDS DiscordCards

CONSTANTS a, b

TwoPayloads == {a, b}
OnePayload == {a}
=============================================================================
