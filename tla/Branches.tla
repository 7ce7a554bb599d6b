------------------------------ MODULE Branches ------------------------------
(***************************************************************************)
(* Forks of sessions (src/session/fork.py), continued by the transcript    *)
(* that writes the same wire.jsonl (src/transcript), and the tree of       *)
(* sessions (src/session/tree.py).                                         *)
(***************************************************************************)
EXTENDS Naturals, Sequences, SequencesExt, FiniteSets

CONSTANTS
  Sessions,     \* sessions of the tree
  MaxLines,     \* bound: entries appended to all files
  MaxForks,     \* bound: calls of fork
  MaxTurn,      \* bound: turn_index
  MaxSecond,    \* bound: readings of the clock
  MaxUntidy     \* bound: sessions added again, or below one that is unknown

ASSUME BranchesAssumption ==
  {MaxLines, MaxForks, MaxTurn, MaxSecond, MaxUntidy} \subseteq Nat /\ "" \notin Sessions

VARIABLES
  wires,        \* per directory with a wire.jsonl, [lines, ended]: its lines,
                \* each a sequence of entries, and whether the last has its newline
  listed,       \* self._forks: per fork, its turn_count
  second,       \* int(time.time())
  forked,       \* history: the forks that were made, [id, at]
  own,          \* history: per directory, the entries appended to it
  nodes,        \* self._nodes: per session, [parent, children, depth]
  current,      \* self._current
  untidy        \* history: sessions added that were there, or below one that was not

forkVars == <<wires, listed, second, forked, own>>
treeVars == <<nodes, current, untidy>>
branchVars == <<forkVars, treeVars>>

\* A dict f with d[k] = v.
Extended(f, k, v) == [x \in DOMAIN f \cup {k} |-> IF x = k THEN v ELSE f[x]]

\* A directory is named by the forks that lead to it: <<>> is the original.
Original == <<>>
Appended == FoldFunction(LAMBDA s, n : Len(s) + n, 0, own)

BranchesInit ==
  /\ wires = [d \in {Original} |-> [lines |-> <<>>, ended |-> TRUE]]
  /\ listed = <<>> /\ second = 0 /\ forked = <<>> /\ own = [d \in {Original} |-> <<>>]
  /\ nodes = <<>> /\ current = "" /\ untidy = 0

-----------------------------------------------------------------------------
\* _append_wire of the transcript: after text without a newline the entry
\* comes to stand in the line of another.
Continue(d) ==
  LET nr == Appended + 1
      w == wires[d]
  IN /\ nr \in 1..MaxLines
     /\ wires' = [wires EXCEPT ![d] = [ended |-> TRUE, lines |->
          IF w.ended THEN Append(w.lines, <<nr>>)
          ELSE [w.lines EXCEPT ![Len(w.lines)] = Append(@, nr)]]]
     /\ own' = [own EXCEPT ![d] = Append(@, nr)]
     /\ UNCHANGED <<listed, second, forked, treeVars>>

\* Mutant of NameOf: the time is not part of the name.
NameTimeless(d, turn) == Append(d, <<turn, 0>>)

\* fork_id: the session, the turn and the second.
NameOf(d, turn) == Append(d, <<turn, second>>)

\* fork: two lines for each turn, joined without a newline at the end; a fork
\* of the same name is written over.  d may have no file: then none is made.
Fork(d, turn) ==
  LET id == NameOf(d, turn)
      lines == IF d \in DOMAIN wires
               THEN SubSeq(wires[d].lines, 1, IF 2 * turn < Len(wires[d].lines)
                                              THEN 2 * turn ELSE Len(wires[d].lines))
               ELSE <<>>
  IN /\ Len(forked) < MaxForks
     /\ wires' = IF d \in DOMAIN wires
                 THEN Extended(wires, id, [lines |-> lines, ended |-> lines = <<>>]) ELSE wires
     /\ own' = IF d \in DOMAIN wires /\ id \notin DOMAIN own THEN Extended(own, id, <<>>) ELSE own
     /\ listed' = Extended(listed, id, Len(lines) \div 2)
     /\ forked' = Append(forked, [id |-> id, at |-> second])
     /\ UNCHANGED <<second, treeVars>>

\* delete, of a fork in the index.
DeleteFork(id) ==
  /\ listed' = [i \in DOMAIN listed \ {id} |-> listed[i]]
  /\ wires' = [d \in DOMAIN wires \ {id} |-> wires[d]]
  /\ own' = [d \in DOMAIN own \ {id} |-> own[d]]
  /\ UNCHANGED <<second, forked, treeVars>>

\* The index is of the process.
NewProcess == listed' = <<>> /\ UNCHANGED <<wires, second, forked, own, treeVars>>
NextSecond == second < MaxSecond /\ second' = second + 1
              /\ UNCHANGED <<wires, listed, forked, own, treeVars>>

-----------------------------------------------------------------------------
Tidily(b) == (b \/ untidy < MaxUntidy) /\ untidy' = IF b THEN untidy ELSE untidy + 1

\* set_root: a node without a parent takes the place of any other.
SetRoot(s) ==
  /\ nodes' = Extended(nodes, s, [parent |-> "", children |-> <<>>, depth |-> 0])
  /\ current' = s
  /\ Tidily(nodes = <<>>)
  /\ UNCHANGED forkVars

\* add_child: likewise; a known parent lists it (once more), an unknown one
\* is remembered.
AddChild(p, s) ==
  LET known == p \in DOMAIN nodes
      node == [parent |-> p, children |-> <<>>, depth |-> IF known THEN nodes[p].depth + 1 ELSE 0]
  IN /\ nodes' = IF known /\ p # s
                 THEN Extended([nodes EXCEPT ![p].children = Append(@, s)], s, node)
                 ELSE Extended(nodes, s, node)
     /\ Tidily(known /\ s \notin DOMAIN nodes)
     /\ UNCHANGED <<current, forkVars>>

NavigateTo(s) == s \in DOMAIN nodes /\ current' = s /\ UNCHANGED <<nodes, untidy, forkVars>>

NavigateParent ==
  /\ current \in DOMAIN nodes /\ nodes[current].parent # ""
  /\ current' = nodes[current].parent
  /\ UNCHANGED <<nodes, untidy, forkVars>>

NavigateChild(i) ==
  /\ current \in DOMAIN nodes /\ i \in DOMAIN nodes[current].children
  /\ current' = nodes[current].children[i]
  /\ UNCHANGED <<nodes, untidy, forkVars>>

\* get_path, from the current session upwards: as far as parents are known.
IsPath(path) ==
  /\ \A k \in 2..Len(path) : path[k] = nodes[path[k - 1]].parent
  /\ nodes[Last(path)].parent \notin DOMAIN nodes

BranchesNext ==
  \/ \E d \in DOMAIN wires : Continue(d)
  \/ \E d \in DOMAIN wires \cup DOMAIN listed, t \in 0..MaxTurn : Fork(d, t)
  \/ \E id \in DOMAIN listed : DeleteFork(id)
  \/ NewProcess \/ NextSecond

TreeNext ==
  \/ \E s \in Sessions : SetRoot(s) \/ NavigateTo(s) \/ \E p \in Sessions : AddChild(p, s)
  \/ NavigateParent \/ \E i \in 1..Cardinality(Sessions) : NavigateChild(i)

-----------------------------------------------------------------------------
BranchesTypeOK ==
  /\ DOMAIN own = DOMAIN wires /\ second \in 0..MaxSecond
  /\ DOMAIN listed \cup DOMAIN wires \subseteq {f.id : f \in ToSet(forked)} \cup {Original}
  /\ current \in Sessions \cup {""} /\ DOMAIN nodes \subseteq Sessions

\* Two forks of one session and turn were made in one second.
Twice(id) ==
  \E i, j \in DOMAIN forked : i # j /\ forked[i] = forked[j] /\ forked[i].id = id

\* _load of the transcript: the lines before the first that cannot be parsed.
LoadedFrom(d) ==
  LET glued == {i \in DOMAIN wires[d].lines : Len(wires[d].lines[i]) > 1}
      upto == IF glued = {} THEN Len(wires[d].lines)
              ELSE (CHOOSE i \in glued : \A j \in glued : i <= j) - 1
  IN FlattenSeq(SubSeq(wires[d].lines, 1, upto))

\* A fork that is continued ends, at the next load, before its last copied
\* line: it and all that was appended after it are not read again.  The
\* original is read as it is.
ContinuedForkLosesItsTail ==
  \A d \in DOMAIN wires : ~ Twice(d) =>
    LET copied == Len(FlattenSeq(wires[d].lines)) - Len(own[d])
    IN /\ d = Original => LoadedFrom(d) = own[d]
       /\ copied > 0 /\ own[d] # <<>> => Len(LoadedFrom(d)) < copied

\* Unless a second fork of the same turn is made in the same second, a fork
\* holds what the session it was made from held, up to the turn, followed by
\* what it was continued with, whatever becomes of that session later.
ForkIsAPrefix ==
  \A d \in DOMAIN wires \ {Original} :
    Front(d) \in DOMAIN wires /\ ~ Twice(d) /\ ~ Twice(Front(d)) =>
      LET all == FlattenSeq(wires[d].lines)
      IN /\ IsSuffix(own[d], all)
         /\ IsPrefix(SubSeq(all, 1, Len(all) - Len(own[d])), FlattenSeq(wires[Front(d)].lines))
         /\ d \in DOMAIN listed => listed[d] <= Last(d)[1]

\* As long as sessions are added once, below a session that is there, the tree
\* is one: every session is listed by its parent, once and by no other, one
\* level below it, and the way up from the current one ends at the root.
TreeIsATree ==
  untidy = 0 => \A s \in DOMAIN nodes :
    /\ nodes[s].depth = 0 <=> nodes[s].parent = ""
    /\ \A p \in DOMAIN nodes :
         Cardinality({i \in DOMAIN nodes[p].children : nodes[p].children[i] = s})
           = (IF nodes[s].parent = p THEN 1 ELSE 0)
    /\ nodes[s].depth > 0 => nodes[nodes[s].parent].depth = nodes[s].depth - 1
    /\ \E path \in [1..(nodes[s].depth + 1) -> DOMAIN nodes] :
         path[1] = s /\ IsPath(path) /\ nodes[Last(path)].parent = ""

BranchesHold == ContinuedForkLosesItsTail /\ ForkIsAPrefix /\ TreeIsATree
=============================================================================
