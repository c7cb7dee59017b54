----------------------------- MODULE Intervals -----------------------------
(***************************************************************************)
(* time/timespan: union and intersection of lists of time spans with open  *)
(* and closed ends.  Times are numbers; Open is 0 and Closed 1, as in the  *)
(* source, where the looser type is the greater.                           *)
(*                                                                         *)
(* The state is a list of spans that a caller builds, joins and            *)
(* intersects.  What a span means is the set of its points: 2t is the time *)
(* t, and 2t + 1 stands for the times between t and t + 1.                 *)
(***************************************************************************)
EXTENDS Integers, Sequences, FiniteSets
LOCAL INSTANCE SequencesExt

CONSTANTS MaxTime, MaxSpans

VARIABLES s, ref

Open == 0
Closed == 1
NewWithTypes(start, end, startType, endType) ==
  [start |-> start, end |-> end, startType |-> startType, endType |-> endType]
New(start, end) == NewWithTypes(start, end, Closed, IF start = end THEN Closed ELSE Open)
NewInstant(t) == New(t, t)

Less(x, y) == IF x < y THEN x ELSE y
getLoosestIntervalType(x, y) == IF x > y THEN x ELSE y
getTightestIntervalType(x, y) == Less(x, y)
getMin(a, b) == IF a[1] < b[1] THEN a ELSE b
getMax(a, b) == IF a[1] > b[1] THEN a ELSE b

IsInstant(a) == a.start = a.end
StartType(a) == IF IsInstant(a) THEN Closed ELSE a.startType
EndType(a) == IF IsInstant(a) THEN Closed ELSE a.endType

\* Of two spans, a is the one that does not start later.
SideBySide(a, b) ==
  IF a.start = b.start THEN StartType(a) # StartType(b)
  ELSE a.end = b.start /\ EndType(a) # StartType(b)

contiguous(a, b) ==
  /\ ~(IsInstant(a) /\ IsInstant(b))
  /\ IF b.start < a.start THEN SideBySide(b, a) ELSE SideBySide(a, b)

\* a begins after b has ended.
Beyond_touching(a, b) == a.start > b.end
Beyond(a, b) == a.start > b.end \/ (a.start = b.end /\ Open \in {StartType(a), EndType(b)})

overlap(a, b) == ~Beyond(a, b) /\ ~Beyond(b, a)

ByStart(spans) == SortSeq(spans, LAMBDA a, b : a.start < b.start)

\* The span from start to end; the types of ends at one time are given.
Joined(a, b, start, end, startType, endType) ==
  NewWithTypes(start[1], end[1],
               IF a.start = b.start THEN startType ELSE start[2],
               IF a.end = b.end THEN endType ELSE end[2])
StartOf(a) == <<a.start, a.startType>>
EndOf(a) == <<a.end, a.endType>>

MergeSpan(a, b) ==
  Joined(a, b, getMin(StartOf(a), StartOf(b)), getMax(EndOf(a), EndOf(b)),
         getLoosestIntervalType(a.startType, b.startType), getLoosestIntervalType(a.endType, b.endType))

Union(spans) ==
  LET sorted == ByStart(spans)
      Step(result, b) == LET a == Last(result)
                         IN  IF overlap(a, b) \/ contiguous(a, b)
                             THEN Front(result) \o <<MergeSpan(a, b)>> ELSE Append(result, b)
  IN  IF Len(spans) < 2 THEN spans ELSE FoldLeft(Step, <<sorted[1]>>, Tail(sorted))

IntersectionSpan(a, b) ==
  Joined(a, b, getMax(StartOf(a), StartOf(b)), getMin(EndOf(a), EndOf(b)),
         getTightestIntervalType(a.startType, b.startType), getTightestIntervalType(a.endType, b.endType))

\* An active span is dropped when a later one starts after its end.
Active(t, b) == (b.start = t.start /\ b.end = t.end) \/ ~(b.start > t.end)

\* Of an empty list it would take the first element: a panic.
Intersection(spans) ==
  LET sorted == ByStart(spans)
      Step(acc, b) ==
        LET actives == SelectSeq(acc.actives, LAMBDA t : Active(t, b))
            over == SelectSeq(actives, LAMBDA a : overlap(a, b))
        IN  [actives |-> Append(actives, b),
             found |-> acc.found \o [i \in DOMAIN over |-> IntersectionSpan(over[i], b)]]
  IN  FoldLeft(Step, [actives |-> <<sorted[1]>>, found |-> <<>>], Tail(sorted)).found

-----------------------------------------------------------------------------
Spans ==
  {NewInstant(t) : t \in 0..MaxTime} \cup
  {NewWithTypes(p[1], p[2], x, y) : p \in {q \in (0..MaxTime) \X (0..MaxTime) : q[1] < q[2]},
                                    x \in {Open, Closed}, y \in {Open, Closed}}

Points(a) ==
  {x \in 0..(2 * MaxTime) : \/ 2 * a.start < x /\ x < 2 * a.end
                            \/ x = 2 * a.start /\ a.startType = Closed
                            \/ x = 2 * a.end /\ a.endType = Closed}
Covered(spans) == UNION {Points(spans[i]) : i \in DOMAIN spans}

Init == s = <<>> /\ ref = {}
Next ==
  \/ \E a \in Spans : Len(s) < MaxSpans /\ s' = Append(s, a) /\ ref' = ref \cup Points(a)
  \/ s # Union(s) /\ s' = Union(s) /\ UNCHANGED ref
  \/ s # <<>> /\ s' = Intersection(s) /\ ref' = Covered(Intersection(s))

\* The sort does not order an open and a closed start at the same time.
TiedStarts == \E i, j \in DOMAIN s : s[i].start = s[j].start /\ StartType(s[i]) # StartType(s[j])

(***************************************************************************)
(* The union covers exactly what the spans cover, in spans that do not     *)
(* overlap, and are not side by side either unless the list had an open    *)
(* and a closed start at the same time, which are not sorted; two spans    *)
(* overlap if and only if they share a point; the intersection consists of *)
(* one span for each pair that overlaps and covers exactly what at least   *)
(* two spans cover.                                                        *)
(***************************************************************************)
SpansArePointSets ==
  /\ Covered(s) = ref
  /\ LET u == Union(s) IN
     /\ Covered(u) = ref
     /\ \A i, j \in DOMAIN u : i # j => ~overlap(u[i], u[j]) /\ (contiguous(u[i], u[j]) => TiedStarts)
  /\ \A i, j \in DOMAIN s : overlap(s[i], s[j]) <=> Points(s[i]) \cap Points(s[j]) # {}
  /\ s # <<>> =>
       LET x == Intersection(s)
           pairs == {p \in SUBSET (DOMAIN s) : Cardinality(p) = 2 /\ \A i, j \in p : overlap(s[i], s[j])}
       IN  /\ Len(x) = Cardinality(pairs)
           /\ Covered(x) = {q \in ref : Cardinality({i \in DOMAIN s : q \in Points(s[i])}) >= 2}
=============================================================================
