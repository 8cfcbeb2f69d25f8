--------------------------- MODULE AllowlistText ----------------------------
(***************************************************************************)
(* The allow list as text: the block of lines between two markers in a     *)
(* guest's description, among notes, stray markers and other blocks.       *)
(*                                                                         *)
(* A text is the sequence of its lines, the empty text <<>>; a final line  *)
(* end is a last line that is blank.  Of a line in a block the model keeps *)
(* what it says of a name (spaces, dots and case are normalised away).     *)
(***************************************************************************)
EXTENDS Naturals, Sequences

CONSTANTS Names, Notes

Line ==      [kind : {"begin", "end", "blank"}]
        \cup [kind : {"note"}, text : Notes]
        \cup [kind : {"allowed", "blocked"}, name : Names]

Begin == [kind |-> "begin"]
End   == [kind |-> "end"]
Blank == [kind |-> "blank"]

LinesOf(text) == {text[i] : i \in DOMAIN text}

-----------------------------------------------------------------------------
(* What the lines of a block say, in any order. *)

Says(lines, kinds) == {n \in Names : \E l \in lines : l.kind \in kinds /\ l.name = n}

ParseListed(lines)  == Says(lines, {"allowed", "blocked"})
ParseAllowed(lines) == Says(lines, {"allowed"})

\* The lines of the merged text.  It has them sorted.
MergeSuggestedLines(lines, suggested) ==
  (lines \ {Blank}) \cup [kind : {"blocked"}, name : suggested \ ParseListed(lines)]

-----------------------------------------------------------------------------
(* The block in a description. *)

\* The loops over the lines keep the last index they meet; 0 is no index.
LastOf(indices) == IF indices = {} THEN 0 ELSE CHOOSE i \in indices : \A j \in indices : j <= i

BeginAt(text)  == LastOf({i \in DOMAIN text : text[i] = Begin})
EndAt(text)    == LastOf({i \in DOMAIN text : text[i] = End})
HasBlock(text) == 0 < BeginAt(text) /\ BeginAt(text) < EndAt(text)

\* Around the block: the whole text if there is none.
Before(text) == SubSeq(text, 1, IF HasBlock(text) THEN BeginAt(text) - 1 ELSE Len(text))
After(text)  == SubSeq(text, IF HasBlock(text) THEN EndAt(text) + 1 ELSE Len(text) + 1, Len(text))

ExtractBlock(text) ==
  IF HasBlock(text) THEN SubSeq(text, BeginAt(text) + 1, EndAt(text) - 1) ELSE <<>>

buildBlock(inner) == <<Begin>> \o inner \o <<End>>

\* strings.TrimRight(text, "\n")
TrimRight(text) == SubSeq(text, 1, LastOf({i \in DOMAIN text : text[i] # Blank}))

\* A new block goes after the notes and a blank line.
Lead(text) == IF HasBlock(text) THEN Before(text)
              ELSE IF TrimRight(text) = <<>> THEN <<>>
              ELSE TrimRight(text) \o <<Blank>>

SpliceBlock(text, inner) ==
  Lead(text) \o buildBlock(inner) \o TrimRight(After(text)) \o <<Blank>>
=============================================================================
