----------------------------- MODULE BlockTree -----------------------------
(***************************************************************************)
(* What the chain store promises (spec section 4.5 and the head invariant  *)
(* of section 3): the stored blocks form a tree rooted at genesis in which *)
(* every block is numbered one above its parent, the tree only grows, and *)
(* the head is always a block of the greatest stored number; the head is   *)
(* kept while it is still one of the highest.                              *)
(***************************************************************************)
EXTENDS Naturals

CONSTANTS Candidates, Genesis

VARIABLES tree, head

\* The blocks of set s with the greatest number.
Highest(s) == {b \in s : \A c \in s : c.number <= b.number}

Init ==
    /\ tree = {Genesis}
    /\ head = Genesis

\* Hang block b below a parent already in the tree.
Extend(b) ==
    /\ b \notin tree
    /\ \E p \in tree : p.hash = b.parent /\ b.number = p.number + 1
    /\ tree' = tree \cup {b}
    /\ head' \in Highest(tree')
    /\ head \in Highest(tree') => head' = head

Next == \E b \in Candidates : Extend(b)

Spec == Init /\ [][Next]_<<tree, head>>
=============================================================================
