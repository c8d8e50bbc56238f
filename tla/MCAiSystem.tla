----------------------------- MODULE MCAiSystem ----------------------------
(* AiSystem with the heartbeat, one key, one VM address, and a catalog with room *)
(* for two entries of each root. *)
EXTENDS AiSystem

CONSTANTS js, vm, smoke, other

MCRuntimes == {js}
MCLangOf == [r \in MCRuntimes |-> "js"]
MCVMs == {vm}

MCSmoke == [id |-> smoke, lang |-> "js"]
MCOther == [id |-> other, lang |-> "js"]
MCManifests == {MCSmoke, MCOther}
MCListings == {<<MCOther>>, <<MCSmoke, MCOther>>, <<MCOther, MCOther, MCSmoke>>}
MCKeys == {[type |-> "KEY", a |-> 1, b |-> 0]}
=============================================================================
