-------------------------------- MODULE Rope --------------------------------
(***************************************************************************)
(* util/rope.cc: a text kept in a treap of small buffers with random       *)
(* priorities.  A pointer to a Rep is <<>> or the sequence of the one Rep; *)
(* the operations that draw priorities yield the set of their outcomes.    *)
(***************************************************************************)
EXTENDS Integers, Sequences, SequencesExt

CONSTANTS
  BufferSize,   \* buffer_size: 4096 in the code
  Priorities,   \* values of Rep::priority
  Strings,      \* the texts callers insert
  MaxLength     \* bound on the length of the text

ASSUME RopeAssumption ==
  /\ BufferSize \in Nat \ {0} /\ MaxLength \in Nat
  /\ Priorities \subseteq Nat

VARIABLES
  rep,   \* rep_
  text   \* the text that the rope stands for

ropeVars == <<rep, text>>

\* The smaller of two sizes: std::min.
Lesser(a, b) == IF a < b THEN a ELSE b

Greater(a, b) == IF a > b THEN a ELSE b

\* The first n cells of a text, and the cells after them.
Prefix(s, n) == SubSeq(s, 1, n)

Rest(s, n) == SubSeq(s, n + 1, Len(s))

NewRep(priority) ==
  [lchild |-> <<>>, rchild |-> <<>>, lsize |-> 0, priority |-> priority, buffer |-> <<>>]

-----------------------------------------------------------------------------
(* Balancing *)

rotate_left(node) ==
  LET peer == node.rchild[1]
  IN << [peer EXCEPT !.lsize = @ + node.lsize + Len(node.buffer),
                     !.lchild = << [node EXCEPT !.rchild = peer.lchild] >>] >>

rotate_right(node) ==
  LET peer == node.lchild[1]
  IN << [peer EXCEPT !.rchild =
           << [node EXCEPT !.lchild = peer.rchild,
                           !.lsize = @ - (peer.lsize + Len(peer.buffer))] >>] >>

RECURSIVE balance_left(_)
balance_left(node) ==
  IF node.lchild = <<>> THEN <<node>>
  ELSE LET child == balance_left(node.lchild[1])
           balanced == [node EXCEPT !.lchild = child]
       IN IF child[1].priority > node.priority THEN rotate_right(balanced) ELSE <<balanced>>

RECURSIVE balance_right(_)
balance_right(node) ==
  IF node.rchild = <<>> THEN <<node>>
  ELSE LET child == balance_right(node.rchild[1])
           balanced == [node EXCEPT !.rchild = child]
       IN IF child[1].priority > node.priority THEN rotate_left(balanced) ELSE <<balanced>>

RECURSIVE merge(_, _)
merge(left, right) ==
  IF left = <<>> THEN right
  ELSE IF right = <<>> THEN left
  ELSE balance_right([left[1] EXCEPT !.rchild = merge(@, right)])

-----------------------------------------------------------------------------
(* Rope::insert, Rope::erase and Rope::copy on a Rep *)

RECURSIVE insert(_, _, _)

\* Deviation: the end of the new text is moved before the end of the buffer.
InsertHere_swapped(node, at, str) ==
  LET size == Len(str)
      overflow == Len(node.buffer) + size > BufferSize
      kept == IF overflow THEN Greater(BufferSize, at + size) - size ELSE Len(node.buffer)
      taken == IF at + size > BufferSize THEN BufferSize - at ELSE size
      moved == IF taken < size THEN insert(node.rchild, 0, Rest(str, taken))
               ELSE {node.rchild}
      spilt == IF overflow
               THEN UNION {insert(child, 0, Rest(node.buffer, kept)) : child \in moved}
               ELSE moved
      buffer == Prefix(node.buffer, at) \o Prefix(str, taken)
                \o SubSeq(node.buffer, at + 1, kept)
  IN {balance_right([node EXCEPT !.rchild = child, !.buffer = buffer]) : child \in spilt}

\* insert() at a place in the buffer of a Rep.  When it overflows, first the end
\* of the buffer and then the end of the new text move to the right child.
InsertHere(node, at, str) ==
  LET size == Len(str)
      overflow == Len(node.buffer) + size > BufferSize
      kept == IF overflow THEN Greater(BufferSize, at + size) - size ELSE Len(node.buffer)
      taken == IF at + size > BufferSize THEN BufferSize - at ELSE size
      moved == IF overflow THEN insert(node.rchild, 0, Rest(node.buffer, kept))
               ELSE {node.rchild}
      spilt == IF taken < size
               THEN UNION {insert(child, 0, Rest(str, taken)) : child \in moved}
               ELSE moved
      buffer == Prefix(node.buffer, at) \o Prefix(str, taken)
                \o SubSeq(node.buffer, at + 1, kept)
  IN {balance_right([node EXCEPT !.rchild = child, !.buffer = buffer]) : child \in spilt}

InsertInto(node, index, str) ==
  LET at == index - node.lsize
  IN IF index < node.lsize
     THEN {balance_left([node EXCEPT !.lchild = child, !.lsize = @ + Len(str)]) :
             child \in insert(node.lchild, index, str)}
     ELSE IF at > Len(node.buffer)
     THEN {balance_right([node EXCEPT !.rchild = child]) :
             child \in insert(node.rchild, at - Len(node.buffer), str)}
     ELSE InsertHere(node, at, str)

insert(tree, index, str) ==
  LET nodes == IF tree = <<>> THEN {NewRep(p) : p \in Priorities} ELSE {tree[1]}
  IN UNION {InsertInto(node, index, str) : node \in nodes}

\* What a range takes from a part of the text of the given length, before it
\* goes on behind the part: <<cells taken, rest of the range's index>>.
Part(index, size, length) ==
  IF index < length THEN <<Lesser(size, length - index), 0>> ELSE <<0, index - length>>

RECURSIVE erase(_, _, _)
erase(tree, index, size) ==
  LET node == tree[1]
      inLeft == Part(index, size, node.lsize)
      afterLeft == IF inLeft[1] = 0 THEN node
                   ELSE [node EXCEPT !.lchild = erase(@, index, inLeft[1]),
                                     !.lsize = @ - inLeft[1]]
      here == Part(inLeft[2], size - inLeft[1], Len(node.buffer))
      left == size - inLeft[1]
      afterHere == IF left = 0 \/ here[1] = 0 THEN afterLeft
                   ELSE [afterLeft EXCEPT !.buffer =
                           Prefix(@, inLeft[2]) \o Rest(@, inLeft[2] + here[1])]
      done == IF left = 0 \/ left = here[1] THEN afterHere
              ELSE [afterHere EXCEPT !.rchild = erase(@, here[2], left - here[1])]
  IN IF done.buffer = <<>> THEN merge(done.lchild, done.rchild) ELSE <<done>>

RECURSIVE copy(_, _, _)
copy(tree, index, size) ==
  LET node == tree[1]
      inLeft == Part(index, size, node.lsize)
      fromLeft == IF inLeft[1] = 0 THEN <<>> ELSE copy(node.lchild, index, inLeft[1])
      left == size - inLeft[1]
      here == Part(inLeft[2], left, Len(node.buffer))
      fromHere == SubSeq(node.buffer, inLeft[2] + 1, inLeft[2] + here[1])
  IN IF left = 0 THEN fromLeft
     ELSE fromLeft \o fromHere
          \o (IF left = here[1] THEN <<>> ELSE copy(node.rchild, here[2], left - here[1]))

-----------------------------------------------------------------------------
(* The rope *)

RopeInit == rep = <<>> /\ text = <<>>

Insert(index, str) ==
  /\ Len(text) + Len(str) <= MaxLength
  /\ rep' \in insert(rep, index, str)
  /\ text' = Prefix(text, index) \o str \o Rest(text, index)

Erase(index, size) ==
  /\ rep' = erase(rep, index, size)
  /\ text' = Prefix(text, index) \o Rest(text, index + size)

RopeNext ==
  \/ \E index \in 0..Len(text), str \in Strings : Insert(index, str)
  \/ \E index \in 0..(Len(text) - 1) :
       \E size \in 1..(Len(text) - index) : Erase(index, size)

-----------------------------------------------------------------------------
(* Properties *)

\* copy() of any part of the rope is that part of the text, after any insertions,
\* erasures, splits of buffers and rotations.
CopyRight ==
  \A index \in 0..(Len(text) - 1) : \A size \in 1..(Len(text) - index) :
    copy(rep, index, size) = SubSeq(text, index + 1, index + size)
=============================================================================
