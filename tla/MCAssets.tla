------------------------------ MODULE MCAssets ------------------------------
(* A small set of assets with one of every way of loading.  Of Kibana's    *)
(* two agents one has a file with "x-update"; the other, to which a skill  *)
(* is added, has none.                                                     *)
EXTENDS Assets

MCDir ==
  [dashboard |-> "dashboards", detector |-> "ml", rule |-> "rules", setup |-> "workflows",
   trade |-> "synthetics", tool |-> "tools",
   skill |-> "skills", own |-> "agents", builtin |-> "agents"]

MCFiles  == DOMAIN MCDir
MCName   == [f \in MCFiles |-> IF f = "tool" THEN "setup" ELSE f]
MCPinned == {"detector", "tool", "skill", "own", "builtin"}
MCTags   == [f \in MCFiles |-> IF f = "setup" THEN {"superdemo-authrun"} ELSE {}]
MCAddTo  == [f \in MCFiles |-> IF f = "skill" THEN {"assistant"} ELSE {}]
MCListed == [f \in MCFiles |-> CASE f = "own"     -> {"tool"}
                                 [] f = "builtin" -> {"skill"}
                                 [] OTHER         -> {}]
MCShared == {"builtin", "assistant"}
=============================================================================
