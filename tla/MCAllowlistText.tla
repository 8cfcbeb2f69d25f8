-------------------------- MODULE MCAllowlistText --------------------------
(***************************************************************************)
(* Coordinator's lists and descriptions, and the texts they stand for: TLC *)
(* compares the operators on both for all short texts before it runs an    *)
(* instance of Coordinator.                                                *)
(***************************************************************************)
EXTENDS MCCoordinator

Text == INSTANCE AllowlistText

SeqsUpTo(S, len) == UNION {[1..k -> S] : k \in 0..len}

BlockLines == {Text!Blank} \cup [kind : {"allowed", "blocked"}, name : {n1}]
Inners     == SeqsUpTo(BlockLines, 2)
Texts      == SeqsUpTo(BlockLines \cup {Text!Begin, Text!End, [kind |-> "note", text |-> notes1]}, 4)

\* What ParseAllowed and ParseListed see in a text's block.
ListOf(lines) ==
  [n \in Names |-> IF n \in Text!ParseAllowed(lines) THEN "allowed"
                   ELSE IF n \in Text!ParseListed(lines) THEN "blocked" ELSE "absent"]

\* A description: its block's list, and the notes around it, blank lines apart.
Solid(text) == SelectSeq(text, LAMBDA l : l # Text!Blank)
DescriptionOf(text) ==
  [ list  |-> ListOf(Text!LinesOf(Text!ExtractBlock(text))),
    notes |-> <<Solid(Text!Before(text)), Solid(Text!After(text))>> ]

(* Whatever notes and stray markers a text has, a splice changes its list  *)
(* to that of the new lines and nothing else (allowlist.SpliceBlock).      *)
ASSUME SpliceIsSpliceBlock ==
  \A text \in Texts : \A inner \in Inners :
    DescriptionOf(Text!SpliceBlock(text, inner))
      = SpliceBlock(DescriptionOf(text), ListOf(Text!LinesOf(inner)))

(* A merge adds what was looked up as blocked and keeps every name's       *)
(* status, duplicates included (allowlist.MergeSuggestedLines).            *)
ASSUME MergeIsMergeSuggested ==
  \A inner \in Inners : \A seen \in SUBSET Names :
    LET lines == Text!LinesOf(inner) IN
    ListOf(Text!MergeSuggestedLines(lines, seen)) = MergeSuggestedLines(ListOf(lines), seen)

(* The instance is one that the theorems about handlers which do not       *)
(* overlap are about (LoneHandler, OneWriter).                             *)
ASSUME InstanceIsLone == LoneHandler /\ OneWriter
=============================================================================
