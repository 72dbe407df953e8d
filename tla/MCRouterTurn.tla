---------------------------- MODULE MCRouterTurn ----------------------------
(* Turns of one project for TLC: one asks the council, is streamed and may *)
(* be paused, one asks the council and reads, and two that read nothing    *)
(* run side by side.                                                       *)
EXTENDS RouterTurn, TLC

CONSTANTS council1, council2, plain1, plain2

MCTurn == {council1, council2, plain1, plain2}
MCTogether == {{council1}, {council2}, {plain1, plain2}}

(* A document of three chunks, one of which spans two pages, a chunk        *)
(* without a page number, and a page of a document whose title has a colon.*)
Page(s, name, first, last) ==
  [source |-> s, title |-> name, first |-> first, last |-> last]
MCChunk ==
  {Page("a", "A", 1, 1), Page("a", "A", 2, 3), Page("a", "A", 4, 4),
   Page("b", "B", 0, 0), Page("c", "C: a guide", 1, 1)}
MCWithColon == {"C: a guide"}

Says(v, sure) ==
  [kind |-> "fact", key |-> "shell", value |-> v, user |-> TRUE, sure |-> sure]
Issue ==
  [kind |-> "issue", key |-> "shell", value |-> "slow", user |-> FALSE, sure |-> TRUE]
MCMemoryItem == {Says("bash", TRUE), Says("zsh", TRUE), Says("zsh", FALSE), Issue}

MCProviderOf ==
  [t \in MCTurn |-> CASE t = council1 -> {"openai"}
                     [] t = council2 -> {"anthropic"}
                     [] t = plain1   -> {"google"}
                     [] t = plain2   -> {"local"}]
MCMode == [t \in MCTurn |-> IF t \in {plain1, plain2} THEN "off" ELSE "council"]
MCMaxSearches == [t \in MCTurn |-> IF t = council2 THEN 2 ELSE 0]
MCMaxPauses == [t \in MCTurn |-> IF t = council1 THEN 1 ELSE 0]
MCLearned ==
  [t \in MCTurn |-> CASE t = plain1 -> {Says("bash", TRUE), Says("zsh", FALSE), Issue}
                     [] t = plain2 -> {Says("zsh", TRUE)}
                     [] OTHER -> {}]
=============================================================================
