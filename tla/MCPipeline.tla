----------------------------- MODULE MCPipeline -----------------------------
(***************************************************************************)
(* Two feeds, one of them crawled when it fails, and a Pulse listing; a    *)
(* story two sources have, one of them in brief, one that no entity is in, *)
(* one without a date and one older than the window.  Two records of the   *)
(* backfill have neither link nor title, two entities no id.               *)
(***************************************************************************)
EXTENDS Pipeline

MCEnabledSources == <<"et", "bbc", "pulse">>
MCKind == [s \in {"et", "bbc", "pulse"} |-> IF s = "pulse" THEN "pulse" ELSE "rss"]
MCCrawlFallback == {"et"}
MCFeed == [s \in {"et", "bbc"} |-> IF s = "et" THEN <<"deal", "old">> ELSE <<"launch", "brief">>]
MCPages == [s \in {"et", "pulse"} |-> IF s = "et" THEN <<"deal">> ELSE <<"undated", "launch">>]
MCArchive == <<[source |-> "et", story |-> "rates"], [source |-> "bbc", story |-> "brief"],
               [source |-> "gone", story |-> "launch"], [source |-> "et", story |-> "deal"],
               [source |-> "et", story |-> "undated"]>>

MCStories == {"deal", "brief", "launch", "old", "undated", "rates"}
MCDateOf == [s \in MCStories |->
    CASE s = "old" -> 1 [] s = "undated" -> None [] OTHER -> 4]
MCMentions == [s \in MCStories |->
    CASE s = "deal" -> {"AWS", "INFY", "META", "OPENAI", "TCS"}
      [] s = "brief" -> {"META", "TCS"}
      [] s = "launch" -> {"OPENAI"}
      [] s = "undated" -> {"INFY", "RELIANCE"}
      [] OTHER -> {}]

MCCanonicalHash == [s \in MCStories |-> IF s = "brief" THEN "deal" ELSE s]
MCLinkAndTitle == [s \in MCStories |->
    CASE s = "brief" -> "deal" [] s \in {"rates", "undated"} -> "" [] OTHER -> s]

MCSymbols == <<"AWS", "INFY", "META", "OPENAI", "RELIANCE", "TCS">>
MCEntityID == [s \in ToSet(MCSymbols) |-> IF s \in {"AWS", "META"} THEN "" ELSE s]
MCLookup == [n \in {"tcs", "Tata Consultancy", "infosys", "reliance"} |->
    CASE n = "infosys" -> "INFY" [] n = "reliance" -> "RELIANCE" [] OTHER -> "TCS"]
MCGroups == {[impact |-> TRUE, parent |-> "TCS", children |-> {"AWS", "META", "OPENAI"}],
             [impact |-> TRUE, parent |-> "INFY", children |-> {"OPENAI"}],
             [impact |-> FALSE, parent |-> "RELIANCE", children |-> {"AWS"}]}
MCFactorHits == [s \in MCStories |-> IF s = "launch" THEN 2 ELSE 1]
MCProfiles == [p \in {"high_recall"} |-> [min |-> 35, ambiguity |-> 45, novelty |-> 90]]

Ask(sources, to, backfill, entities, profile) ==
    [sources |-> sources, from |-> None, to |-> to, backfill |-> backfill,
     entities |-> entities, profile |-> profile]

MCRequests ==
    {Ask(s, to, b, e, "high_recall") :
        s \in {<<>>, <<"et", "pulse">>, <<"bbc", "bbc">>},
        to \in {None, 7},
        b \in {"none", "local_file"},
        e \in {<<>>, <<"tcs", "infosys", "Tata Consultancy">>, <<"infosys", "reliance">>, <<"reliance">>}}
    \cup {Ask(<<"et", "ghost">>, None, "none", <<>>, "high_recall"),
          Ask(<<"et">>, None, "tape", <<>>, "high_recall"),
          Ask(<<"et">>, None, "none", <<"bogus", "tcs">>, "high_recall"),
          Ask(<<"et">>, None, "none", <<"blank">>, "high_recall"),
          Ask(<<"et">>, None, "none", <<>>, "unknown")}
=============================================================================
