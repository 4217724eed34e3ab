--------------------------------- MODULE Trie ---------------------------------
(***************************************************************************)
(* The trie of the forwarding service.  A node is known by its address,    *)
(* the segments that lead to it from the root, so a trie is a function     *)
(* from addresses to what is there: nothing, a branch, or the record of a  *)
(* terminal.  The root is always a branch and has no address here.         *)
(***************************************************************************)
EXTENDS Integers, Sequences

CONSTANTS
  Segments,        \* the segments of paths
  Addresses,       \* the addresses of nodes
  Records,         \* what terminals hold
  NoNode, Branch   \* the other two kinds of places

ASSUME TrieAssumption ==
  /\ Addresses \subseteq Seq(Segments) \ {<<>>}
  /\ \A a \in Addresses : \A n \in 1..Len(a) : SubSeq(a, 1, n) \in Addresses
  /\ NoNode # Branch /\ NoNode \notin Records /\ Branch \notin Records

Tries == [Addresses -> Records \union {NoNode, Branch}]

EmptyTrie == [a \in Addresses |-> NoNode]

\* p is q or above q.
Prefix(p, q) == Len(p) <= Len(q) /\ \A i \in 1..Len(p) : p[i] = q[i]

Beneath(q, p) == Prefix(p, q) /\ p # q

\* The walk down to p meets a terminal, which ignores what is registered below it.
Blocked(trie, p) == \E a \in Addresses : Beneath(p, a) /\ trie[a] \in Records

\* Mutation: the branches that a new terminal replaces stay.
RegisterKeepsSubtree(trie, p, record) ==
  IF Blocked(trie, p) THEN trie
  ELSE [a \in Addresses |-> IF a = p THEN record
                            ELSE IF Beneath(p, a) THEN Branch ELSE trie[a]]

\* The nodes on the way become branches, the terminal replaces whatever was there.
TrieRegister(trie, p, record) ==
  IF Blocked(trie, p) THEN trie
  ELSE [a \in Addresses |-> IF a = p THEN record
                            ELSE IF Beneath(p, a) THEN Branch
                            ELSE IF Beneath(a, p) THEN NoNode ELSE trie[a]]

\* Mutation: the branch that led to the node goes too.
UnregisterDropsBranch(trie, p) ==
  IF Blocked(trie, p) THEN trie
  ELSE [a \in Addresses |-> IF Prefix(SubSeq(p, 1, 1), a) THEN NoNode ELSE trie[a]]

\* The node goes with all that is below it; the branches above it stay.
TrieUnregister(trie, p) ==
  IF Blocked(trie, p) THEN trie
  ELSE [a \in Addresses |-> IF Prefix(p, a) THEN NoNode ELSE trie[a]]

\* Where the walk along a path may end.
Matches(trie, path) == {a \in Addresses : Prefix(a, path) /\ trie[a] \in Records}

\* "Terminals can only appear on ends of paths": what has nodes beneath it is a branch.
Shape(trie) ==
  \A a, b \in Addresses : Beneath(b, a) /\ trie[b] # NoNode => trie[a] = Branch
==============================================================================
