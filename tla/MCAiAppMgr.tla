----------------------------- MODULE MCAiAppMgr -----------------------------
(* AiAppMgr with two JS runtimes and a Lua one, two apps, and apps directories *)
(* that hold up to one entry more than the catalog. *)
EXTENDS AiAppMgr

CONSTANTS js1, js2, lua, v1, v2, clock, game

MCRuntimes == {js1, js2, lua}
MCLangOf == [r \in MCRuntimes |-> IF r = lua THEN "lua" ELSE "js"]
MCVMs == {v1, v2}

Clock == [id |-> clock, lang |-> "js"]
Game == [id |-> game, lang |-> "lua"]
MCManifests == {Clock, Game}
MCListings == {<<>>, <<Clock>>, <<NotAnApp, Game>>, <<Game, Clock>>}
MCFullListings == MCListings \cup {<<NotAnApp, NotAnApp, Clock>>}
=============================================================================
