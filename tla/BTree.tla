------------------------------- MODULE BTree -------------------------------
(***************************************************************************)
(* container/btree/btree.go: a B-tree whose clones share nodes until one   *)
(* of them writes, and a free list that all of them share.                 *)
(*                                                                         *)
(* s.h is the memory: s.h.node[n] is a node, s.h.free the free list.  Each *)
(* operation ends with a garbage collection, which numbers the nodes anew. *)
(* A copyOnWriteContext is a number, 0 for nil.  Indexes start at 1, so    *)
(* children[i] is to the left of items[i].  An item is <<key, version>>    *)
(* and Less compares keys; Nil is no item.                                 *)
(*                                                                         *)
(* ref.sets[i] is the set of items a caller expects in tree i, and         *)
(* ref.answered whether the last call returned the item they expected.     *)
(***************************************************************************)
EXTENDS Integers, Sequences, FiniteSets
LOCAL INSTANCE SequencesExt

CONSTANTS Keys, Versions, Degree, FreeListSize,
          MaxTrees,    \* bound on the trees
          CloneKeys    \* bound on the keys of trees that are cloned

VARIABLES s, ref

Nil == <<0, 0>>
Empty(c) == [items |-> <<>>, children |-> <<>>, cow |-> c]
Less(a, b) == a[1] < b[1]
maxItems == Degree * 2 - 1
minItems == Degree - 1

\* FreeList.newNode and freeNode, with the context's part of them.
newNode(h, c) ==
  IF h.free = <<>>
  THEN [h |-> [h EXCEPT !.node = Append(@, Empty(c))], n |-> Len(h.node) + 1]
  ELSE LET n == h.free[Len(h.free)]
       IN  [h |-> [h EXCEPT !.free = Front(@), !.node[n].cow = c], n |-> n]

Owned_always(h, n, c) == TRUE
Owned(h, n, c) == h.node[n].cow = c

freeNode(h, n, c) ==
  IF ~Owned(h, n, c) THEN [h |-> h, full |-> FALSE]
  ELSE LET room == Len(h.free) < FreeListSize
       IN  [h |-> [h EXCEPT !.node[n] = Empty(0),
                            !.free = IF room THEN Append(@, n) ELSE @],
            full |-> ~room]

mutableFor(h, n, c) ==
  IF Owned(h, n, c) THEN [h |-> h, n |-> n]
  ELSE LET new == newNode(h, c)
       IN  [h |-> [new.h EXCEPT !.node[new.n] = [h.node[n] EXCEPT !.cow = c]], n |-> new.n]

mutableChild(h, n, i) ==
  LET m == mutableFor(h, h.node[n].children[i], h.node[n].cow)
  IN  [h |-> [m.h EXCEPT !.node[n].children[i] = m.n], n |-> m.n]

\* items.find: the position of the item, or where it would be inserted.
find(items, item) ==
  LET i == Cardinality({j \in DOMAIN items : ~Less(item, items[j])}) + 1
  IN  IF i > 1 /\ ~Less(items[i - 1], item) THEN [i |-> i - 1, found |-> TRUE]
      ELSE [i |-> i, found |-> FALSE]

Leaf(h, n) == h.node[n].children = <<>>

split(h, n, i) ==
  LET new == newNode(h, h.node[n].cow)
      items == h.node[n].items
      kids == h.node[n].children
  IN  [item |-> items[i], n |-> new.n,
       h |-> [new.h EXCEPT
         !.node[new.n].items = SubSeq(items, i + 1, Len(items)),
         !.node[n].items = SubSeq(items, 1, i - 1),
         !.node[new.n].children = IF Leaf(h, n) THEN @ ELSE SubSeq(kids, i + 1, Len(kids)),
         !.node[n].children = IF Leaf(h, n) THEN @ ELSE SubSeq(kids, 1, i)]]

Middle == (maxItems \div 2) + 1

ShouldSplit(h, n, i) == Len(h.node[h.node[n].children[i]].items) >= maxItems

maybeSplitChild(h, n, i) ==
  IF ~ShouldSplit(h, n, i) THEN h
  ELSE LET first == mutableChild(h, n, i)
           two == split(first.h, first.n, Middle)
       IN  [two.h EXCEPT !.node[n].items = InsertAt(@, i, two.item),
                         !.node[n].children = InsertAt(@, i + 1, two.n)]

RECURSIVE insert(_, _, _)
insert(h, n, item) ==
  LET f == find(h.node[n].items, item)
      Replaced(g, i) == [h |-> [g EXCEPT !.node[n].items[i] = item], out |-> g.node[n].items[i]]
  IN  IF f.found THEN Replaced(h, f.i)
      ELSE IF Leaf(h, n)
      THEN [h |-> [h EXCEPT !.node[n].items = InsertAt(@, f.i, item)], out |-> Nil]
      ELSE LET g == maybeSplitChild(h, n, f.i)
               Below(i) == LET c == mutableChild(g, n, i) IN insert(c.h, c.n, item)
               inTree == g.node[n].items[f.i]
           IN  IF ~ShouldSplit(h, n, f.i) \/ Less(item, inTree) THEN Below(f.i)
               ELSE IF Less(inTree, item) THEN Below(f.i + 1)
               ELSE Replaced(g, f.i)

RECURSIVE get(_, _, _)
get(h, n, key) ==
  LET f == find(h.node[n].items, key)
  IN  IF f.found THEN h.node[n].items[f.i]
      ELSE IF Leaf(h, n) THEN Nil ELSE get(h, h.node[n].children[f.i], key)

RECURSIVE min(_, _)
min(h, n) ==
  IF n = 0 THEN Nil
  ELSE IF ~Leaf(h, n) THEN min(h, h.node[n].children[1])
  ELSE IF h.node[n].items = <<>> THEN Nil ELSE h.node[n].items[1]

RECURSIVE max(_, _)
max(h, n) ==
  IF n = 0 THEN Nil
  ELSE IF ~Leaf(h, n) THEN max(h, Last(h.node[n].children))
  ELSE IF h.node[n].items = <<>> THEN Nil ELSE Last(h.node[n].items)

StealLeft(h, n, i) ==
  LET c == mutableChild(h, n, i)
      f == mutableChild(c.h, n, i - 1)
      from == f.h.node[f.n]
  IN  [f.h EXCEPT
        !.node[f.n].items = Front(@),
        !.node[f.n].children = IF @ = <<>> THEN @ ELSE Front(@),
        !.node[c.n].items = <<f.h.node[n].items[i - 1]>> \o @,
        !.node[c.n].children = IF from.children = <<>> THEN @ ELSE <<Last(from.children)>> \o @,
        !.node[n].items[i - 1] = Last(from.items)]

StealRight(h, n, i) ==
  LET c == mutableChild(h, n, i)
      f == mutableChild(c.h, n, i + 1)
      from == f.h.node[f.n]
  IN  [f.h EXCEPT
        !.node[f.n].items = Tail(@),
        !.node[f.n].children = IF @ = <<>> THEN @ ELSE Tail(@),
        !.node[c.n].items = Append(@, f.h.node[n].items[i]),
        !.node[c.n].children = IF from.children = <<>> THEN @ ELSE Append(@, Head(from.children)),
        !.node[n].items[i] = Head(from.items)]

Merge(h, n, i) ==
  LET c == mutableChild(h, n, i)
      gone == c.h.node[n].children[i + 1]
      g == [c.h EXCEPT
             !.node[c.n].items = Append(@, c.h.node[n].items[i]) \o c.h.node[gone].items,
             !.node[c.n].children = @ \o c.h.node[gone].children,
             !.node[n].items = RemoveAt(@, i),
             !.node[n].children = RemoveAt(@, i + 1)]
  IN  freeNode(g, gone, g.node[n].cow).h

\* growChildAndRemove up to its call of remove.
growChild(h, n, i) ==
  LET items == h.node[n].items
      Spare(j) == Len(h.node[h.node[n].children[j]].items) > minItems
  IN  IF i > 1 /\ Spare(i - 1) THEN StealLeft(h, n, i)
      ELSE IF i <= Len(items) /\ Spare(i + 1) THEN StealRight(h, n, i)
      ELSE Merge(h, n, IF i > Len(items) THEN i - 1 ELSE i)

RECURSIVE remove(_, _, _, _)
remove(h, n, item, typ) ==
  LET items == h.node[n].items
      f == CASE typ = "max" -> [i |-> Len(items) + 1, found |-> FALSE]
             [] typ = "min" -> [i |-> 1, found |-> FALSE]
             [] typ = "item" -> find(items, item)
      at == IF typ = "max" THEN Len(items) ELSE f.i
  IN  IF Leaf(h, n)
      THEN IF typ = "item" /\ ~f.found THEN [h |-> h, out |-> Nil]
           ELSE [h |-> [h EXCEPT !.node[n].items = RemoveAt(@, at)], out |-> items[at]]
      ELSE IF Len(h.node[h.node[n].children[f.i]].items) <= minItems
      THEN remove(growChild(h, n, f.i), n, item, typ)
      ELSE LET c == mutableChild(h, n, f.i)
           IN  IF ~f.found THEN remove(c.h, c.n, item, typ)
               ELSE LET r == remove(c.h, c.n, Nil, "max")
                    IN  [h |-> [r.h EXCEPT !.node[n].items[f.i] = r.out], out |-> items[f.i]]

\* iterate: st is [hit, ok, out], out what iter was called with; iter returns
\* FALSE at its limit-th call.
Iter(st, item, limit) ==
  [hit |-> TRUE, out |-> Append(st.out, item), ok |-> Len(st.out) + 1 < limit]

RECURSIVE iterate(_, _, _, _, _, _, _, _)
iterate(h, dir, n, start, stop, includeStart, limit, st0) ==
  LET items == h.node[n].items
      Into(i, st) == IF Leaf(h, n) THEN st
                     ELSE iterate(h, dir, h.node[n].children[i], start, stop, includeStart, limit, st)
      Ascending(st, i) ==
        LET c == Into(i, st) IN
        IF ~st.ok \/ (start # Nil /\ Less(items[i], start)) THEN st
        ELSE IF ~c.ok THEN c
        ELSE IF ~includeStart /\ ~c.hit /\ start # Nil /\ ~Less(start, items[i])
        THEN [c EXCEPT !.hit = TRUE]
        ELSE IF stop # Nil /\ ~Less(items[i], stop) THEN [c EXCEPT !.hit = TRUE, !.ok = FALSE]
        ELSE Iter(c, items[i], limit)
      Descending(st, i) ==
        LET c == Into(i + 1, st) IN
        IF \/ ~st.ok
           \/ /\ start # Nil /\ ~Less(items[i], start)
              /\ ~includeStart \/ st.hit \/ Less(start, items[i])
        THEN st
        ELSE IF ~c.ok THEN c
        ELSE IF stop # Nil /\ ~Less(stop, items[i]) THEN [c EXCEPT !.ok = FALSE]
        ELSE Iter(c, items[i], limit)
      loop[k \in 0..Len(items)] ==
        IF k = 0 THEN st0
        ELSE IF dir = "ascend" THEN Ascending(loop[k - 1], k)
        ELSE Descending(loop[k - 1], Len(items) - k + 1)
      all == loop[Len(items)]
  IN  IF ~all.ok THEN all ELSE Into(IF dir = "ascend" THEN Len(items) + 1 ELSE 1, all)

Visited(t, dir, start, stop, includeStart, limit) ==
  IF t.root = 0 THEN <<>>
  ELSE iterate(s.h, dir, t.root, start, stop, includeStart, limit,
               [hit |-> FALSE, ok |-> TRUE, out |-> <<>>]).out

AscendRange(t, a, b, lim) == Visited(t, "ascend", a, b, TRUE, lim)
AscendLessThan(t, b, lim) == Visited(t, "ascend", Nil, b, FALSE, lim)
AscendGreaterOrEqual(t, a, lim) == Visited(t, "ascend", a, Nil, TRUE, lim)
Ascend(t, lim) == Visited(t, "ascend", Nil, Nil, FALSE, lim)
DescendRange(t, a, b, lim) == Visited(t, "descend", a, b, TRUE, lim)
DescendLessOrEqual(t, a, lim) == Visited(t, "descend", a, Nil, TRUE, lim)
DescendGreaterThan(t, b, lim) == Visited(t, "descend", Nil, b, FALSE, lim)
Descend(t, lim) == Visited(t, "descend", Nil, Nil, FALSE, lim)

Get(t, key) == IF t.root = 0 THEN Nil ELSE get(s.h, t.root, key)
Has(t, key) == Get(t, key) # Nil
MinItem(t) == min(s.h, t.root)
MaxItem(t) == max(s.h, t.root)

Once(q) == LET first == SelectSeq([j \in DOMAIN q |-> j], LAMBDA j : \A i \in 1..j - 1 : q[i] # q[j])
           IN  [j \in DOMAIN first |-> q[first[j]]]

RECURSIVE Below(_, _)
Below(h, n) == LET kids == h.node[n].children
               IN  <<n>> \o FlattenSeq([j \in DOMAIN kids |-> Below(h, kids[j])])
NodesOf(h, t) == IF t.root = 0 THEN <<>> ELSE Below(h, t.root)

\* The end of every operation on tree i; the runtime collects what is lost.
Return(i, t, h) ==
  \E g \in {h} :
  \E trees \in {[s.trees EXCEPT ![i] = t]} :
  \E live \in {Once(g.free \o FlattenSeq([j \in DOMAIN trees |-> NodesOf(g, trees[j])]))} :
  LET New(n) == IF n = 0 THEN 0 ELSE CHOOSE j \in DOMAIN live : live[j] = n
      Moved(q) == [j \in DOMAIN q |-> New(q[j])]
  IN  s' = [s EXCEPT !.trees = [j \in DOMAIN trees |-> [trees[j] EXCEPT !.root = New(@)]],
              !.h = [free |-> Moved(g.free),
                     node |-> [j \in DOMAIN live |-> [g.node[live[j]] EXCEPT !.children = Moved(@)]]]]

NewWithFreeList ==
  [h |-> [node |-> <<>>, free |-> <<>>], cows |-> 1,
   trees |-> <<[root |-> 0, length |-> 0, cow |-> 1]>>]

Init == s = NewWithFreeList /\ ref = [sets |-> <<{}>>, answered |-> TRUE]

InsertInto(t, item) ==
  IF t.root = 0
  THEN LET new == newNode(s.h, t.cow)
       IN  [h |-> [new.h EXCEPT !.node[new.n].items = Append(@, item)], root |-> new.n, out |-> Nil]
  ELSE LET m == mutableFor(s.h, t.root, t.cow)
           two == split(m.h, m.n, Middle)
           new == newNode(two.h, t.cow)
           g == [new.h EXCEPT !.node[new.n].items = Append(@, two.item),
                              !.node[new.n].children = @ \o <<m.n, two.n>>]
           full == Len(m.h.node[m.n].items) >= maxItems
           root == IF full THEN new.n ELSE m.n
           r == insert(IF full THEN g ELSE m.h, root, item)
       IN  [h |-> r.h, root |-> root, out |-> r.out]

Same(S, key) == {x \in S : x[1] = key}
OneOf(S) == IF S = {} THEN Nil ELSE CHOOSE x \in S : TRUE

ReplaceOrInsert(i, item) ==
  LET t == s.trees[i]
      old == Same(ref.sets[i], item[1])
  IN  \E r \in {InsertInto(t, item)} :
      /\ Return(i, [t EXCEPT !.root = r.root, !.length = IF r.out = Nil THEN @ + 1 ELSE @], r.h)
      /\ ref' = [ref EXCEPT !.sets[i] = (@ \ old) \cup {item}, !.answered = r.out = OneOf(old)]

\* An empty root gives way to its only child.
Lowered(h, n, c) ==
  IF h.node[n].items = <<>> /\ ~Leaf(h, n)
  THEN [root |-> h.node[n].children[1], h |-> freeNode(h, n, c).h]
  ELSE [root |-> n, h |-> h]

\* deleteItem on a tree that has items; a root left empty is freed.
RemoveFrom(t, item, typ) ==
  LET m == mutableFor(s.h, t.root, t.cow)
      r == remove(m.h, m.n, item, typ)
      low == Lowered(r.h, m.n, t.cow)
  IN  [h |-> low.h, root |-> low.root, out |-> r.out]

deleteItem(i, d) ==
  LET t == s.trees[i]
      empty == t.root = 0 \/ s.h.node[t.root].items = <<>>
  IN  \E r \in {IF empty THEN [h |-> s.h, root |-> t.root, out |-> Nil] ELSE RemoveFrom(t, d.item, d.typ)} :
      /\ Return(i, [t EXCEPT !.root = r.root, !.length = IF r.out = Nil THEN @ ELSE @ - 1], r.h)
      /\ ref' = [ref EXCEPT !.sets[i] = @ \ d.gone, !.answered = r.out = OneOf(d.gone)]

Lowest(S) == {x \in S : \A y \in S : x[1] <= y[1]}
Highest(S) == {x \in S : \A y \in S : x[1] >= y[1]}

\* What the three deletions pass to deleteItem, and what should be deleted.
Delete(i, key) == [item |-> <<key, 0>>, typ |-> "item", gone |-> Same(ref.sets[i], key)]
DeleteMin(i) == [item |-> Nil, typ |-> "min", gone |-> Lowest(ref.sets[i])]
DeleteMax(i) == [item |-> Nil, typ |-> "max", gone |-> Highest(ref.sets[i])]

Clone(i) ==
  /\ Len(s.trees) < MaxTrees /\ \A x \in ref.sets[i] : x[1] \in CloneKeys
  /\ s' = [s EXCEPT !.trees = Append([@ EXCEPT ![i].cow = s.cows + 1], [@[i] EXCEPT !.cow = s.cows + 2]),
                    !.cows = @ + 2]
  /\ ref' = [ref EXCEPT !.sets = Append(@, @[i])]

\* reset goes on until the free list is full.
RECURSIVE reset(_, _, _)
reset(h, n, c) ==
  LET all == FoldLeft(LAMBDA st, child : IF st.full THEN st ELSE reset(st.h, child, c),
                      [h |-> h, full |-> FALSE], h.node[n].children)
  IN  IF all.full THEN all ELSE freeNode(all.h, n, c)

Clear(i, addNodesToFreelist) ==
  LET t == s.trees[i] IN
  /\ Return(i, [t EXCEPT !.root = 0, !.length = 0],
            IF t.root # 0 /\ addNodesToFreelist THEN reset(s.h, t.root, t.cow).h ELSE s.h)
  /\ ref' = [ref EXCEPT !.sets[i] = {}, !.answered = TRUE]

BoundedKeys == IF Len(s.trees) = 1 THEN Keys ELSE CloneKeys

Next == \E i \in DOMAIN s.trees :
  \/ \E key \in BoundedKeys, v \in Versions : ReplaceOrInsert(i, <<key, v>>)
  \/ \E d \in {Delete(i, key) : key \in BoundedKeys} \cup {DeleteMin(i), DeleteMax(i)} : deleteItem(i, d)
  \/ Clone(i) \/ \E f \in BOOLEAN : Clear(i, f)

-----------------------------------------------------------------------------
RECURSIVE Depths(_, _)
Depths(h, n) == IF Leaf(h, n) THEN {1}
                ELSE {d + 1 : d \in UNION {Depths(h, c) : c \in ToSet(h.node[n].children)}}

Sorted(S) == SelectSeq([key \in BoundedKeys |-> OneOf(Same(S, key))], LAMBDA x : x # Nil)

(***************************************************************************)
(* Every clone is a sorted set of its own: all calls and all iterations,   *)
(* in both directions, over empty, short and long ranges, stopped early or *)
(* not, answer from what was put into this tree, although the trees share  *)
(* nodes, and a free list that takes back the nodes of one of them.        *)
(***************************************************************************)
ClonesAreSets ==
  /\ ref.answered
  /\ \A i \in DOMAIN s.trees :
       LET t == s.trees[i]
           S == ref.sets[i]
           sorted == Sorted(S)
           In(P(_)) == SelectSeq(sorted, P)
           Down(P(_)) == Reverse(In(P))
           Cut(q, lim) == SubSeq(q, 1, IF lim < Len(q) THEN lim ELSE Len(q))
           all == Cardinality(BoundedKeys) + 1
       IN /\ t.length = Cardinality(S)
          /\ MinItem(t) = OneOf(Lowest(S)) /\ MaxItem(t) = OneOf(Highest(S))
          /\ \A key \in BoundedKeys : Get(t, <<key, 0>>) = OneOf(Same(S, key))
          /\ \A lim \in {1, all} : /\ Ascend(t, lim) = Cut(sorted, lim)
                                   /\ Descend(t, lim) = Cut(Reverse(sorted), lim)
          /\ \A key \in BoundedKeys : LET a == <<key, 0>> IN
               /\ AscendGreaterOrEqual(t, a, all) = In(LAMBDA x : ~Less(x, a))
               /\ AscendLessThan(t, a, all) = In(LAMBDA x : Less(x, a))
               /\ DescendLessOrEqual(t, a, all) = Down(LAMBDA x : ~Less(a, x))
               /\ DescendGreaterThan(t, a, all) = Down(LAMBDA x : Less(a, x))
               /\ \A high \in BoundedKeys \cap {key - 1, key + 1, key + 3, key + 6} : LET b == <<high, 0>> IN
                    /\ AscendRange(t, a, b, all) = In(LAMBDA x : ~Less(x, a) /\ Less(x, b))
                    /\ DescendRange(t, b, a, all) = Down(LAMBDA x : ~Less(b, x) /\ Less(a, x))

(***************************************************************************)
(* The tree is balanced and its nodes are neither too full nor, below the  *)
(* root, too empty; a node that two trees can reach belongs to neither of  *)
(* their contexts, so neither writes to it, and no node of the free list   *)
(* can be reached.                                                         *)
(***************************************************************************)
NodesSound ==
  \A i \in DOMAIN s.trees :
    LET t == s.trees[i]
        mine == ToSet(NodesOf(s.h, t))
    IN /\ t.root # 0 => Cardinality(Depths(s.h, t.root)) = 1
       /\ \A n \in mine : LET d == s.h.node[n] IN
            /\ Len(d.items) <= maxItems /\ (n # t.root => Len(d.items) >= minItems)
            /\ d.children # <<>> => Len(d.children) = Len(d.items) + 1
            /\ \A j \in DOMAIN s.trees \ {i} : n \in ToSet(NodesOf(s.h, s.trees[j])) => d.cow # t.cow
       /\ IsInjective(NodesOf(s.h, t)) /\ mine \cap ToSet(s.h.free) = {} /\ IsInjective(s.h.free)
=============================================================================
