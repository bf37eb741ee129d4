------------------------ MODULE CacheCaptureRefinement ------------------------
(***************************************************************************)
(* CacheCapture implements CapturePromise, for any captures, Pods, nodes   *)
(* and bounds.                                                             *)
(*                                                                         *)
(* The argument is about the lines that a scanner has read and those it    *)
(* has still to read: they are the lines of one dump after the other, each *)
(* in the order of its parts, and a dump whose jobs come has had all its   *)
(* nodes.  What a scanner sends without an error is then one dump, whole,  *)
(* and begun after the capture had the lock.                               *)
(***************************************************************************)
EXTENDS CacheCaptureProofs

\* The nodes of a result that read all of dump d.
WholeOf(nodesAt, d) == [n \in Nodes |-> IF n \in nodesAt[d] THEN d ELSE 0]

\* What was read, by a scanner or in a result, is a dump begun after lo and done.
IsWhole(r, nodesAt, done, lo, hi) ==
    /\ r.dump \in lo + 1 .. hi
    /\ r.dump \in done
    /\ r.nodes = WholeOf(nodesAt, r.dump)

IsNode(line) == line.kind \in {"node", "badNode"}

\* The part of its dump that a line leads into.
PartAfter(line) == IF line.kind = "jobs" THEN "jobs"
                   ELSE IF line.kind = "end" THEN "none" ELSE "nodes"

\* A line that may follow in a part of dump d.
Follows(part, d, line) ==
    \/ line.kind = "start"
    \/ /\ line.dump = d
       /\ \/ /\ part = "nodes"
             /\ IsNode(line) \/ line.kind = "jobs"
          \/ /\ part = "jobs"
             /\ line.kind = "end"

\* The start of dump d was read by s, or is among the first k lines of u.
Started(s, u, d, k) ==
    \/ /\ s.section = "nodes"
       /\ s.dump = d
    \/ \E j \in 1 .. k : u[j].kind = "start" /\ u[j].dump = d

\* So is node n of it, or a line that cannot be read.
Covered(s, u, n, d, k) ==
    \/ /\ s.section = "nodes"
       /\ s.dump = d
       /\ s.nodes[n] = d \/ s.schema
    \/ \E j \in 1 .. k : IsNode(u[j]) /\ u[j].dump = d /\ u[j].node = n

\* The lines of a dump come in order, and the dumps one after the other.
InOrder(s, u) ==
    /\ \A i \in 1 .. Len(u) - 1 :
          Follows(PartAfter(u[i]), u[i].dump, u[i + 1])
    /\ s.section # "none" /\ u # <<>> => Follows(s.section, s.dump, u[1])

Rising(s, u) ==
    /\ \A i, j \in 1 .. Len(u) : i < j =>
          /\ u[i].dump <= u[j].dump
          /\ u[j].kind = "start" => u[i].dump < u[j].dump
    /\ s.section # "none" => \A j \in 1 .. Len(u) :
          /\ s.dump <= u[j].dump
          /\ u[j].kind = "start" => s.dump < u[j].dump

\* Each line says of its dump what is so.
Truthful(u, nodesAt, done, lo, hi) ==
    \A i \in 1 .. Len(u) :
        /\ u[i].dump \in 1 .. hi
        /\ u[i].kind = "start" => u[i].dump > lo
        /\ IsNode(u[i]) => u[i].node \in nodesAt[u[i].dump]
        /\ u[i].kind = "end" => u[i].dump \in done

\* The jobs of a dump come after all its nodes.
NodesFirst(s, u, nodesAt) ==
    \A k \in 1 .. Len(u) :
        /\ u[k].kind = "jobs"
        /\ Started(s, u, u[k].dump, k - 1)
        => \A n \in nodesAt[u[k].dump] : Covered(s, u, n, u[k].dump, k - 1)

\* What the scanner has read so far.
ReadSoFar(s, nodesAt, lo, hi) ==
    /\ ~s.err
    /\ s.section # "none" => s.dump \in lo + 1 .. hi
    /\ s.section = "nodes" => \A n \in Nodes :
          s.nodes[n] = 0 \/ (s.nodes[n] = s.dump /\ n \in nodesAt[s.dump])
    /\ s.section = "jobs" /\ ~s.schema => s.nodes = WholeOf(nodesAt, s.dump)

Consistent(s, u, nodesAt, done, lo, hi) ==
    /\ InOrder(s, u)
    /\ Rising(s, u)
    /\ Truthful(u, nodesAt, done, lo, hi)
    /\ NodesFirst(s, u, nodesAt)
    /\ ReadSoFar(s, nodesAt, lo, hi)

\* The scheduler goes on where the lines end.
Continues(s, u, w, nodesAt) ==
    w.part # "none" =>
        /\ u # <<>> => /\ PartAfter(u[Len(u)]) = w.part
                       /\ u[Len(u)].dump = w.dump
        /\ u = <<>> /\ s.section # "none" =>
              s.section = w.part /\ s.dump = w.dump
        /\ w.part = "nodes" /\ Started(s, u, w.dump, Len(u)) =>
              \A n \in nodesAt[w.dump] \ w.left : Covered(s, u, n, w.dump, Len(u))

Reading(c) == scanner[c].state \in {"starting", "scanning"}

ScanInvOf(c) ==
    /\ since[c] <= dumps
    /\ pc[c] \in {"idle", "leader", "open"} =>
          /\ scanner[c] = NoScanner
          /\ channel[c] = {}
          /\ unread[c] = <<>>
    /\ Reading(c) =>
          Consistent(scanner[c], unread[c], nodesOf, complete, since[c], dumps)
    /\ Reading(c) /\ stream[c] = "open" =>
          /\ pod[c] \in Pods
          /\ Continues(scanner[c], unread[c], writer[pod[c]], nodesOf)
    /\ scanner[c].state = "sending" /\ ~scanner[c].err /\ ~scanner[c].schema =>
          IsWhole(scanner[c], nodesOf, complete, since[c], dumps)
    /\ \A r \in channel[c] : ~r.err =>
          IsWhole(r, nodesOf, complete, since[c], dumps)
    /\ Accepted(c) => IsWhole(out[c], nodesOf, complete, since[c], dumps)

\* The dumps of the schedulers.
DumpsInv ==
    /\ complete \subseteq 1 .. dumps
    /\ \A p \in Pods : writer[p].part # "none" =>
          /\ writer[p].dump \in 1 .. dumps
          /\ writer[p].left \subseteq nodesOf[writer[p].dump]

ScanInv == DumpsInv /\ \A c \in Captures : ScanInvOf(c)

-----------------------------------------------------------------------------
(***************************************************************************)
(* A line is written                                                       *)
(***************************************************************************)
LEMMA LineTypes ==
    ASSUME NEW u \in Seq(Lines)
    PROVE  /\ Len(u) \in Nat
           /\ \A i \in 1 .. Len(u) : /\ u[i] \in Lines
                                     /\ u[i].dump \in Nat
                                     /\ u[i].dump \in Dumps
<1>1. \A i \in 1 .. Len(u) : u[i] \in Lines
  OBVIOUS
<1> QED
  BY <1>1, BoundsAssumption DEF Lines, Dumps

LEMMA Appended ==
    ASSUME NEW u \in Seq(Lines), NEW line \in Lines
    PROVE  /\ Len(u) \in Nat
           /\ Append(u, line) \in Seq(Lines)
           /\ Len(Append(u, line)) = Len(u) + 1
           /\ \A i \in 1 .. Len(u) : Append(u, line)[i] = u[i]
           /\ Append(u, line)[Len(u) + 1] = line
           /\ Append(u, line) # <<>>
BY AppendProperties

\* A line that goes on where the lines end keeps them consistent.
LEMMA AppendConsistent ==
    ASSUME NEW s \in Scanners, NEW u \in Seq(Lines), NEW line \in Lines,
           NEW nodesAt, NEW done, NEW lo \in Nat, NEW hi \in Nat,
           Consistent(s, u, nodesAt, done, lo, hi),
           u # <<>> => Follows(PartAfter(u[Len(u)]), u[Len(u)].dump, line),
           u = <<>> /\ s.section # "none" => Follows(s.section, s.dump, line),
           \A i \in 1 .. Len(u) :
              /\ u[i].dump <= line.dump
              /\ line.kind = "start" => u[i].dump < line.dump,
           s.section # "none" => /\ s.dump <= line.dump
                                 /\ line.kind = "start" => s.dump < line.dump,
           Truthful(<<line>>, nodesAt, done, lo, hi),
           line.kind = "jobs" /\ Started(s, u, line.dump, Len(u)) =>
              \A n \in nodesAt[line.dump] : Covered(s, u, n, line.dump, Len(u))
    PROVE  Consistent(s, Append(u, line), nodesAt, done, lo, hi)
<1> DEFINE v == Append(u, line)
           m == Len(u)
<1>1. /\ m \in Nat
      /\ Len(v) = m + 1
      /\ \A i \in 1 .. m : v[i] = u[i]
      /\ v[m + 1] = line
      /\ v # <<>>
  BY Appended
<1>2. u = <<>> <=> m = 0
  BY EmptySeq
<1>3. \A i \in 1 .. m + 1 : i \in 1 .. m \/ i = m + 1
  BY <1>1
<1>4. line.dump \in Nat /\ \A i \in 1 .. m : u[i].dump \in Nat
  <2>1. line.dump \in Nat
    BY BoundsAssumption DEF Lines, Dumps
  <2>2. \A i \in 1 .. Len(u) : u[i].dump \in Nat
    BY LineTypes
  <2> QED
    BY <2>1, <2>2
<1> HIDE DEF v, m
<1>5. InOrder(s, v)
  <2>1. ASSUME NEW i \in 1 .. Len(v) - 1
        PROVE  Follows(PartAfter(v[i]), v[i].dump, v[i + 1])
    <3>1. CASE i = m
      <4>1. v[i] = u[m] /\ v[i + 1] = line /\ u # <<>>
        BY <1>1, <1>2, <3>1
      <4> QED
        BY <4>1 DEF m
    <3>2. CASE i # m
      <4>1. i \in 1 .. m - 1 /\ v[i] = u[i] /\ v[i + 1] = u[i + 1]
        BY <1>1, <3>2
      <4> QED
        BY <4>1 DEF Consistent, InOrder, m
    <3> QED
      BY <3>1, <3>2
  <2>2. ASSUME s.section # "none"
        PROVE  Follows(s.section, s.dump, v[1])
    <3>1. CASE m = 0
      BY <1>1, <1>2, <2>2, <3>1
    <3>2. CASE m # 0
      <4>1. v[1] = u[1] /\ u # <<>>
        BY <1>1, <1>2, <3>2
      <4> QED
        BY <2>2, <4>1 DEF Consistent, InOrder
    <3> QED
      BY <3>1, <3>2
  <2> QED
    BY <2>1, <2>2 DEF InOrder
<1>6. Rising(s, v)
  <2>1. ASSUME NEW i \in 1 .. m + 1, NEW j \in 1 .. m + 1, i < j
        PROVE  /\ v[i].dump <= v[j].dump
               /\ v[j].kind = "start" => v[i].dump < v[j].dump
    <3>1. i \in 1 .. m /\ v[i] = u[i]
      BY <1>1, <2>1
    <3>2. CASE j = m + 1
      BY <1>1, <3>1, <3>2 DEF m
    <3>3. CASE j \in 1 .. m
      BY <1>1, <2>1, <3>1, <3>3 DEF Consistent, Rising, m
    <3> QED
      BY <1>3, <3>2, <3>3
  <2>2. ASSUME s.section # "none", NEW j \in 1 .. m + 1
        PROVE  /\ s.dump <= v[j].dump
               /\ v[j].kind = "start" => s.dump < v[j].dump
    <3>1. CASE j = m + 1
      BY <1>1, <2>2, <3>1
    <3>2. CASE j \in 1 .. m
      BY <1>1, <2>2, <3>2 DEF Consistent, Rising, m
    <3> QED
      BY <1>3, <3>1, <3>2
  <2> QED
    BY <1>1, <2>1, <2>2 DEF Rising
<1>7. Truthful(v, nodesAt, done, lo, hi)
  <2>1. Truthful(u, nodesAt, done, lo, hi)
    BY DEF Consistent
  <2>2. <<line>>[1] = line /\ Len(<<line>>) = 1
    OBVIOUS
  <2> QED
    BY <1>1, <1>3, <2>1, <2>2 DEF Truthful, m
<1>8. NodesFirst(s, v, nodesAt)
  <2>1. ASSUME NEW k \in 1 .. m + 1, v[k].kind = "jobs",
               Started(s, v, v[k].dump, k - 1), NEW n \in nodesAt[v[k].dump]
        PROVE  Covered(s, v, n, v[k].dump, k - 1)
    <3>1. \A j \in 1 .. k - 1 : v[j] = u[j]
      BY <1>1
    <3>2. Started(s, u, v[k].dump, k - 1)
      BY <2>1, <3>1 DEF Started
    <3>3. Covered(s, u, n, v[k].dump, k - 1)
      <4>1. CASE k = m + 1
        BY <1>1, <2>1, <3>2, <4>1 DEF m
      <4>2. CASE k \in 1 .. m
        BY <1>1, <2>1, <3>2, <4>2 DEF Consistent, NodesFirst, m
      <4> QED
        BY <1>3, <4>1, <4>2
    <3> QED
      BY <3>1, <3>3 DEF Covered
  <2> QED
    BY <1>1, <2>1 DEF NodesFirst
<1> QED
  BY <1>5, <1>6, <1>7, <1>8 DEF Consistent, v

\* So does what the scheduler that wrote the lines writes next.
LEMMA WriterGoesOn ==
    ASSUME NEW s \in Scanners, NEW u \in Seq(Lines), NEW line \in Lines, NEW w,
           NEW nodesAt, NEW done, NEW lo \in Nat, NEW hi \in Nat,
           Consistent(s, u, nodesAt, done, lo, hi),
           Continues(s, u, w, nodesAt),
           w.part # "none", line.dump = w.dump,
           \/ w.part = "nodes" /\ IsNode(line)
           \/ w.part = "nodes" /\ line.kind = "jobs" /\ w.left = {}
           \/ w.part = "jobs" /\ line.kind = "end",
           Truthful(<<line>>, nodesAt, done, lo, hi)
    PROVE  Consistent(s, Append(u, line), nodesAt, done, lo, hi)
<1>1. line.kind # "start"
  BY DEF IsNode
<1>2. Len(u) \in Nat /\ (u # <<>> => Len(u) \in 1 .. Len(u))
  BY EmptySeq
<1>3. u # <<>> => Follows(PartAfter(u[Len(u)]), u[Len(u)].dump, line)
  BY DEF Continues, Follows
<1>4. u = <<>> /\ s.section # "none" => Follows(s.section, s.dump, line)
  BY DEF Continues, Follows
<1>5. \A i \in 1 .. Len(u) : u[i].dump <= line.dump
  <2> SUFFICES ASSUME NEW i \in 1 .. Len(u) PROVE u[i].dump <= line.dump
    OBVIOUS
  <2>1. u # <<>>
    BY EmptySeq
  <2>2. u[Len(u)].dump = line.dump
    BY <2>1 DEF Continues
  <2>3. CASE i = Len(u)
    BY <2>2, <2>3, LineTypes
  <2>4. CASE i < Len(u)
    BY <1>2, <2>1, <2>2, <2>4 DEF Consistent, Rising
  <2> QED
    BY <1>2, <2>3, <2>4
<1>6. s.section # "none" => s.dump <= line.dump
  <2> SUFFICES ASSUME s.section # "none" PROVE s.dump <= line.dump
    OBVIOUS
  <2>1. CASE u = <<>>
    <3>1. s.dump \in Nat /\ s.dump = line.dump
      BY <2>1, BoundsAssumption DEF Continues, Scanners
    <3> QED
      BY <3>1
  <2>2. CASE u # <<>>
    BY <1>2, <2>2 DEF Continues, Consistent, Rising
  <2> QED
    BY <2>1, <2>2
<1>7. line.kind = "jobs" /\ Started(s, u, line.dump, Len(u)) =>
         \A n \in nodesAt[line.dump] : Covered(s, u, n, line.dump, Len(u))
  BY DEF Continues, IsNode
<1> QED
  BY <1>1, <1>3, <1>4, <1>5, <1>6, <1>7, AppendConsistent

\* The start of a new dump may always come.
LEMMA StartGoesOn ==
    ASSUME NEW s \in Scanners, NEW u \in Seq(Lines), NEW line \in Lines,
           NEW nodesAt, NEW done, NEW lo \in Nat, NEW hi \in Nat, NEW new \in Nat,
           Consistent(s, u, nodesAt, done, lo, hi),
           line.kind = "start", line.dump = new,
           \A i \in 1 .. Len(u) : u[i].dump < new,
           s.section # "none" => s.dump < new,
           Truthful(<<line>>, nodesAt, done, lo, hi)
    PROVE  Consistent(s, Append(u, line), nodesAt, done, lo, hi)
<1>1. \A i \in 1 .. Len(u) : u[i].dump \in Nat /\ u[i].dump <= line.dump
  BY LineTypes
<1>2. s.dump \in Nat
  BY BoundsAssumption DEF Scanners
<1>3. \A part, d : Follows(part, d, line)
  BY DEF Follows
<1> QED
  BY <1>1, <1>2, <1>3, AppendConsistent

LEMMA ContinuesStart ==
    ASSUME NEW s, NEW u \in Seq(Lines), NEW line \in Lines, NEW w, NEW nodesAt,
           line.kind = "start", w.dump = line.dump, w.part = "nodes",
           w.left = nodesAt[line.dump]
    PROVE  Continues(s, Append(u, line), w, nodesAt)
BY Appended DEF Continues, PartAfter

LEMMA ContinuesNode ==
    ASSUME NEW s, NEW u \in Seq(Lines), NEW line \in Lines, NEW w, NEW w2,
           NEW nodesAt,
           Continues(s, u, w, nodesAt),
           w.part = "nodes", IsNode(line), line.dump = w.dump,
           w2.part = "nodes", w2.dump = w.dump, w2.left = w.left \ {line.node}
    PROVE  Continues(s, Append(u, line), w2, nodesAt)
<1> DEFINE v == Append(u, line)
<1>1. /\ Len(u) \in Nat
      /\ Len(v) = Len(u) + 1
      /\ \A i \in 1 .. Len(u) : v[i] = u[i]
      /\ v[Len(u) + 1] = line
      /\ v # <<>>
  BY Appended
<1> HIDE DEF v
<1>2. PartAfter(line) = "nodes"
  BY DEF IsNode, PartAfter
<1>3. ASSUME Started(s, v, w.dump, Len(v)), NEW n \in nodesAt[w.dump] \ w2.left
      PROVE  Covered(s, v, n, w.dump, Len(v))
  <2>1. Started(s, u, w.dump, Len(u))
    <3>1. \A j \in 1 .. Len(v) : v[j].kind = "start" => j \in 1 .. Len(u)
      BY <1>1 DEF IsNode
    <3> QED
      BY <1>1, <1>3, <3>1 DEF Started
  <2>2. CASE n = line.node
    BY <1>1, <2>2 DEF Covered
  <2>3. CASE n # line.node
    <3>1. Covered(s, u, n, w.dump, Len(u))
      BY <1>3, <2>1, <2>3 DEF Continues
    <3>2. \A j \in 1 .. Len(u) : j \in 1 .. Len(v)
      BY <1>1
    <3> QED
      BY <1>1, <3>1, <3>2 DEF Covered
  <2> QED
    BY <2>2, <2>3
<1> QED
  BY <1>1, <1>2, <1>3 DEF Continues, v

LEMMA ContinuesJobs ==
    ASSUME NEW s, NEW u \in Seq(Lines), NEW line \in Lines, NEW w, NEW nodesAt,
           line.kind = "jobs", w.dump = line.dump, w.part = "jobs"
    PROVE  Continues(s, Append(u, line), w, nodesAt)
BY Appended DEF Continues, PartAfter

-----------------------------------------------------------------------------
(***************************************************************************)
(* Other dumps begin and end                                               *)
(***************************************************************************)
\* The dumps so far stay what they are.
Later(nodesAt, done, hi, nodesAt2, done2, hi2) ==
    /\ hi <= hi2
    /\ done \subseteq done2
    /\ \A d \in 1 .. hi : nodesAt2[d] = nodesAt[d]

LEMMA WholeLater ==
    ASSUME NEW r, NEW nodesAt, NEW done, NEW lo \in Nat, NEW hi \in Nat,
           NEW nodesAt2, NEW done2, NEW hi2 \in Nat,
           Later(nodesAt, done, hi, nodesAt2, done2, hi2),
           IsWhole(r, nodesAt, done, lo, hi)
    PROVE  IsWhole(r, nodesAt2, done2, lo, hi2)
BY DEF Later, IsWhole, WholeOf

LEMMA ConsistentLater ==
    ASSUME NEW s \in Scanners, NEW u \in Seq(Lines),
           NEW nodesAt, NEW done, NEW lo \in Nat, NEW hi \in Nat,
           NEW nodesAt2, NEW done2, NEW hi2 \in Nat,
           Later(nodesAt, done, hi, nodesAt2, done2, hi2),
           Consistent(s, u, nodesAt, done, lo, hi)
    PROVE  Consistent(s, u, nodesAt2, done2, lo, hi2)
<1> USE DEF Later, Consistent
<1>1. Truthful(u, nodesAt2, done2, lo, hi2)
  BY DEF Truthful
<1>2. NodesFirst(s, u, nodesAt2)
  BY DEF NodesFirst, Truthful
<1>3. ReadSoFar(s, nodesAt2, lo, hi2)
  BY DEF ReadSoFar, WholeOf
<1> QED
  BY <1>1, <1>2, <1>3

LEMMA ContinuesLater ==
    ASSUME NEW s, NEW u, NEW w, NEW nodesAt, NEW nodesAt2,
           w.part # "none" => nodesAt2[w.dump] = nodesAt[w.dump],
           Continues(s, u, w, nodesAt)
    PROVE  Continues(s, u, w, nodesAt2)
BY DEF Continues

-----------------------------------------------------------------------------
(***************************************************************************)
(* A line is read                                                          *)
(***************************************************************************)
LEMMA Shifted ==
    ASSUME NEW u \in Seq(Lines), u # <<>>
    PROVE  /\ Len(u) \in Nat \ {0}
           /\ Tail(u) \in Seq(Lines)
           /\ Len(Tail(u)) = Len(u) - 1
           /\ \A i \in 1 .. Len(u) - 1 : Tail(u)[i] = u[i + 1]
           /\ Tail(u) = <<>> <=> Len(u) = 1
           /\ Head(u) = u[1]
           /\ u[1] \in Lines
<1>1. Len(u) \in Nat \ {0} /\ Head(u) = u[1]
  BY EmptySeq
<1>2. /\ Tail(u) \in Seq(Lines)
      /\ Len(Tail(u)) = Len(u) - 1
      /\ \A i \in 1 .. Len(u) - 1 : Tail(u)[i] = u[i + 1]
  BY HeadTailProperties
<1>3. Tail(u) = <<>> <=> Len(Tail(u)) = 0
  BY <1>2, EmptySeq
<1> QED
  BY <1>1, <1>2, <1>3

\* What scanner t, which has read the first line of u, knows of that line.
HasRead(s, t, line) ==
    /\ t.section # "none" => t.section = PartAfter(line) /\ t.dump = line.dump
    /\ t.section = "nodes" /\ line.kind # "start" =>
          /\ s.section = "nodes"
          /\ s.dump = t.dump
          /\ \A n \in Nodes :
                \/ s.nodes[n] = t.dump
                \/ s.schema
                \/ IsNode(line) /\ line.node = n
                => t.nodes[n] = t.dump \/ t.schema

\* A dump that was started after the line was read had been before, and its nodes
\* that were covered still are.
LEMMA StillCovered ==
    ASSUME NEW s \in Scanners, NEW t \in Scanners, NEW u \in Seq(Lines), u # <<>>,
           Rising(s, u), HasRead(s, t, u[1]),
           NEW d \in Nat, NEW k \in 1 .. Len(u),
           Started(t, Tail(u), d, k - 1)
    PROVE  /\ Started(s, u, d, k)
           /\ \A n \in Nodes : Covered(s, u, n, d, k) =>
                                Covered(t, Tail(u), n, d, k - 1)
<1> DEFINE v == Tail(u)
<1>1. /\ Len(u) \in Nat \ {0}
      /\ Len(v) = Len(u) - 1
      /\ \A i \in 1 .. Len(u) - 1 : v[i] = u[i + 1]
  BY Shifted
<1>2. \A j \in 1 .. k - 1 : j + 1 \in 2 .. k /\ v[j] = u[j + 1]
  BY <1>1
<1>3. \A i \in 1 .. Len(u) : u[i].dump \in Nat
  BY LineTypes
<1>4. s.dump \in Nat
  BY BoundsAssumption DEF Scanners
<1> HIDE DEF v
\* The start was read with the line, or before, or is still to be read.
<1>5. \/ /\ t.section = "nodes" /\ t.dump = d
         /\ u[1].dump = d
         /\ u[1].kind = "start" \/ (s.section = "nodes" /\ s.dump = d)
      \/ \E j \in 2 .. k : u[j].kind = "start" /\ u[j].dump = d
  <2>1. CASE t.section = "nodes" /\ t.dump = d
    BY <2>1 DEF HasRead
  <2>2. CASE \E j \in 1 .. k - 1 : v[j].kind = "start" /\ v[j].dump = d
    BY <1>2, <2>2
  <2> QED
    BY <2>1, <2>2 DEF Started, v
<1>6. Started(s, u, d, k)
  <2>1. 1 \in 1 .. k /\ \A j \in 2 .. k : j \in 1 .. k
    BY <1>1
  <2> QED
    BY <1>5, <2>1 DEF Started
<1>7. ASSUME NEW n \in Nodes, Covered(s, u, n, d, k)
      PROVE  Covered(t, v, n, d, k - 1)
  <2>1. CASE \E j \in 2 .. k : IsNode(u[j]) /\ u[j].dump = d /\ u[j].node = n
    <3>1. PICK j \in 2 .. k : IsNode(u[j]) /\ u[j].dump = d /\ u[j].node = n
      BY <2>1
    <3>2. j - 1 \in 1 .. k - 1 /\ v[j - 1] = u[j]
      BY <1>1
    <3> QED
      BY <3>1, <3>2 DEF Covered
  <2>2. CASE /\ s.section = "nodes" /\ s.dump = d
             /\ s.nodes[n] = d \/ s.schema
    <3>1. \A j \in 1 .. Len(u) : u[j].kind = "start" => u[j].dump # d
      BY <1>3, <1>4, <2>2 DEF Rising
    <3>2. t.section = "nodes" /\ t.dump = d /\ u[1].kind # "start"
      BY <1>1, <1>5, <3>1
    <3> QED
      BY <2>2, <3>2 DEF HasRead, Covered
  <2>3. CASE IsNode(u[1]) /\ u[1].dump = d /\ u[1].node = n
    <3>1. \A j \in 2 .. k : ~(u[j].kind = "start" /\ u[j].dump = d)
      BY <1>1, <1>3, <2>3 DEF Rising
    <3>2. t.section = "nodes" /\ t.dump = d
      BY <1>5, <3>1
    <3>3. u[1].kind # "start"
      BY <2>3 DEF IsNode
    <3> QED
      BY <2>3, <3>2, <3>3 DEF HasRead, Covered
  <2>4. \A j \in 1 .. k : j = 1 \/ j \in 2 .. k
    BY <1>1
  <2> QED
    BY <1>7, <2>1, <2>2, <2>3, <2>4 DEF Covered
<1> QED
  BY <1>6, <1>7 DEF v

LEMMA ReadConsistent ==
    ASSUME NEW s \in Scanners, NEW t \in Scanners, NEW u \in Seq(Lines), u # <<>>,
           NEW nodesAt \in [Dumps -> SUBSET Nodes], NEW done,
           NEW lo \in Nat, NEW hi \in Nat,
           Consistent(s, u, nodesAt, done, lo, hi),
           HasRead(s, t, u[1]), ReadSoFar(t, nodesAt, lo, hi)
    PROVE  Consistent(t, Tail(u), nodesAt, done, lo, hi)
<1> DEFINE v == Tail(u)
<1>1. /\ Len(u) \in Nat \ {0}
      /\ Len(v) = Len(u) - 1
      /\ v \in Seq(Lines)
      /\ \A i \in 1 .. Len(u) - 1 : v[i] = u[i + 1]
      /\ v = <<>> <=> Len(u) = 1
  BY Shifted
<1>2. \A i \in 1 .. Len(v) : i + 1 \in 2 .. Len(u) /\ v[i] = u[i + 1]
  BY <1>1
<1> HIDE DEF v
<1>3. InOrder(t, v)
  <2>1. ASSUME NEW i \in 1 .. Len(v) - 1
        PROVE  Follows(PartAfter(v[i]), v[i].dump, v[i + 1])
    <3>1. v[i] = u[i + 1] /\ v[i + 1] = u[(i + 1) + 1] /\ i + 1 \in 1 .. Len(u) - 1
      BY <1>1, <1>2
    <3> QED
      BY <3>1 DEF Consistent, InOrder
  <2>2. ASSUME t.section # "none", v # <<>>
        PROVE  Follows(t.section, t.dump, v[1])
    <3>1. v[1] = u[1 + 1] /\ 1 \in 1 .. Len(u) - 1
      BY <1>1, <1>2, <2>2
    <3> QED
      BY <2>2, <3>1 DEF Consistent, InOrder, HasRead
  <2> QED
    BY <2>1, <2>2 DEF InOrder
<1>4. Rising(t, v)
  <2>1. \A i, j \in 1 .. Len(u) : i < j =>
           /\ u[i].dump <= u[j].dump
           /\ u[j].kind = "start" => u[i].dump < u[j].dump
    BY DEF Consistent, Rising
  <2>2. ASSUME NEW i \in 1 .. Len(v), NEW j \in 1 .. Len(v), i < j
        PROVE  /\ v[i].dump <= v[j].dump
               /\ v[j].kind = "start" => v[i].dump < v[j].dump
    <3>1. /\ i + 1 \in 1 .. Len(u) /\ j + 1 \in 1 .. Len(u) /\ i + 1 < j + 1
          /\ v[i] = u[i + 1] /\ v[j] = u[j + 1]
      BY <1>1, <1>2, <2>2
    <3> QED
      BY <2>1, <3>1
  <2>3. ASSUME t.section # "none", NEW j \in 1 .. Len(v)
        PROVE  /\ t.dump <= v[j].dump
               /\ v[j].kind = "start" => t.dump < v[j].dump
    <3>1. /\ 1 \in 1 .. Len(u) /\ j + 1 \in 1 .. Len(u) /\ 1 < j + 1
          /\ t.dump = u[1].dump /\ v[j] = u[j + 1]
      BY <1>1, <1>2, <2>3 DEF HasRead
    <3> QED
      BY <2>1, <3>1
  <2> QED
    BY <2>2, <2>3 DEF Rising
<1>5. Truthful(v, nodesAt, done, lo, hi)
  <2>1. \A i \in 1 .. Len(v) : v[i] = u[i + 1] /\ i + 1 \in 1 .. Len(u)
    BY <1>1, <1>2
  <2>2. Truthful(u, nodesAt, done, lo, hi)
    BY DEF Consistent
  <2> QED
    BY <2>1, <2>2 DEF Truthful
<1>6. NodesFirst(t, v, nodesAt)
  <2>1. ASSUME NEW k \in 1 .. Len(v), v[k].kind = "jobs",
               Started(t, v, v[k].dump, k - 1), NEW n \in nodesAt[v[k].dump]
        PROVE  Covered(t, v, n, v[k].dump, k - 1)
    <3>1. /\ v[k] = u[k + 1] /\ k + 1 \in 1 .. Len(u) /\ k \in 1 .. Len(u)
          /\ (k + 1) - 1 = k
      BY <1>1, <1>2
    <3>2. v[k].dump \in Nat /\ v[k].dump \in Dumps
      BY <1>1, LineTypes
    <3>3. n \in Nodes
      BY <3>2
    <3>4. Rising(s, u)
      BY DEF Consistent
    <3>5. Started(s, u, v[k].dump, k)
      BY <2>1, <3>1, <3>2, <3>4, StillCovered DEF v
    <3>6. Covered(s, u, n, v[k].dump, k)
      BY <2>1, <3>1, <3>5 DEF Consistent, NodesFirst
    <3> QED
      BY <2>1, <3>1, <3>2, <3>3, <3>4, <3>6, StillCovered DEF v
  <2> QED
    BY <2>1 DEF NodesFirst
<1> QED
  BY <1>3, <1>4, <1>5, <1>6 DEF Consistent, v

LEMMA ReadContinues ==
    ASSUME NEW s \in Scanners, NEW t \in Scanners, NEW u \in Seq(Lines), u # <<>>,
           NEW nodesAt \in [Dumps -> SUBSET Nodes], NEW w,
           w.part # "none" => w.dump \in Dumps,
           Rising(s, u), HasRead(s, t, u[1]),
           Continues(s, u, w, nodesAt)
    PROVE  Continues(t, Tail(u), w, nodesAt)
<1> DEFINE v == Tail(u)
<1>1. /\ Len(u) \in Nat \ {0}
      /\ Len(v) = Len(u) - 1
      /\ \A i \in 1 .. Len(u) - 1 : v[i] = u[i + 1]
      /\ v = <<>> <=> Len(u) = 1
  BY Shifted
<1> HIDE DEF v
<1> SUFFICES ASSUME w.part # "none" PROVE Continues(t, v, w, nodesAt)
  BY DEF Continues, v
<1>2. PartAfter(u[Len(u)]) = w.part /\ u[Len(u)].dump = w.dump
  BY DEF Continues
<1>3. v # <<>> => v[Len(v)] = u[Len(u)]
  BY <1>1
<1>4. v = <<>> /\ t.section # "none" => t.section = w.part /\ t.dump = w.dump
  BY <1>1, <1>2 DEF HasRead
<1>5. ASSUME w.part = "nodes", Started(t, v, w.dump, Len(v)),
             NEW n \in nodesAt[w.dump] \ w.left
      PROVE  Covered(t, v, n, w.dump, Len(v))
  <2>1. Len(u) \in 1 .. Len(u) /\ Len(v) = Len(u) - 1
    BY <1>1
  <2>2. w.dump \in Nat /\ n \in Nodes
    BY BoundsAssumption DEF Dumps
  <2>3. /\ Started(s, u, w.dump, Len(u))
        /\ Covered(s, u, n, w.dump, Len(u)) => Covered(t, v, n, w.dump, Len(v))
    BY <1>5, <2>1, <2>2, StillCovered DEF v
  <2>4. Covered(s, u, n, w.dump, Len(u))
    BY <1>5, <2>3 DEF Continues
  <2> QED
    BY <2>3, <2>4
<1> QED
  BY <1>2, <1>3, <1>4, <1>5 DEF Continues

\* One line read: the scanner goes on with the others, or has a whole dump to
\* send, unless there was a line of it that cannot be read.
LEMMA ScannedConsistent ==
    ASSUME NEW s \in Scanners, s.state = "scanning",
           NEW u \in Seq(Lines), u # <<>>,
           NEW nodesAt \in [Dumps -> SUBSET Nodes], NEW done,
           NEW lo \in Nat, NEW hi \in Nat,
           Consistent(s, u, nodesAt, done, lo, hi)
    PROVE  \/ /\ Scanned(s, Head(u)).state = "scanning"
              /\ HasRead(s, Scanned(s, Head(u)), u[1])
              /\ ReadSoFar(Scanned(s, Head(u)), nodesAt, lo, hi)
           \/ /\ Scanned(s, Head(u)).state = "sending"
              /\ ~Scanned(s, Head(u)).schema =>
                    IsWhole(Scanned(s, Head(u)), nodesAt, done, lo, hi)
<1> DEFINE line == u[1]
           t == Scanned(s, line)
           Reads == /\ t.state = "scanning"
                    /\ HasRead(s, t, line)
                    /\ ReadSoFar(t, nodesAt, lo, hi)
           Sends == /\ t.state = "sending"
                    /\ ~t.schema => IsWhole(t, nodesAt, done, lo, hi)
<1>1. /\ Head(u) = line
      /\ line \in Lines
      /\ line.dump \in Nat
      /\ 1 \in 1 .. Len(u)
  BY Shifted, LineTypes
<1> SUFFICES Reads \/ Sends
  BY <1>1
<1>2. /\ line.dump \in 1 .. hi
      /\ line.kind = "start" => line.dump > lo
      /\ IsNode(line) => line.node \in nodesAt[line.dump]
      /\ line.kind = "end" => line.dump \in done
  BY <1>1 DEF Consistent, Truthful
<1>3. s.section # "none" => Follows(s.section, s.dump, line)
  BY DEF Consistent, InOrder
<1>4. ReadSoFar(s, nodesAt, lo, hi)
  BY DEF Consistent
<1>5. line.dump \in Dumps /\ line.kind \in {"start", "node", "badNode", "jobs", "end"}
  BY <1>1 DEF Lines
<1>6. /\ s.section \in {"none", "nodes", "jobs"}
      /\ s.nodes \in [Nodes -> 0 .. MaxDumps]
      /\ s.dump \in Nat
  BY BoundsAssumption DEF Scanners, Found
\* A dump whose jobs come has had all its nodes.
<1>7. ASSUME s.section = "nodes", line.kind = "jobs", ~s.schema
      PROVE  s.nodes = WholeOf(nodesAt, s.dump)
  <2>1. s.dump = line.dump
    BY <1>3, <1>7 DEF Follows
  <2>2. Started(s, u, line.dump, 1 - 1)
    BY <1>7, <2>1 DEF Started
  <2>3. \A n \in nodesAt[line.dump] : Covered(s, u, n, line.dump, 1 - 1)
    BY <1>1, <1>7, <2>2 DEF Consistent, NodesFirst
  <2>4. \A n \in nodesAt[line.dump] : s.nodes[n] = line.dump
    BY <1>7, <2>3 DEF Covered
  <2>5. \A n \in Nodes : s.nodes[n] = 0 \/ (s.nodes[n] = s.dump /\ n \in nodesAt[s.dump])
    BY <1>4, <1>7 DEF ReadSoFar
  <2>6. \A n \in Nodes : s.nodes[n] = IF n \in nodesAt[s.dump] THEN s.dump ELSE 0
    BY <2>1, <2>4, <2>5
  <2> QED
    BY <1>6, <2>6 DEF WholeOf
<1> HIDE DEF line
<1>8. CASE line.kind = "start"
  <2>1. t = ScannedStart(s, line)
    BY <1>8 DEF Scanned
  <2>2. /\ t.state = "scanning" /\ t.section = "nodes" /\ t.dump = line.dump
        /\ t.nodes = NoNodes /\ ~t.err
    BY <1>4, <2>1 DEF ScannedStart, ReadSoFar, Scanners
  <2> HIDE DEF t
  <2>3. HasRead(s, t, line)
    BY <1>8, <2>2 DEF HasRead, PartAfter
  <2>4. ReadSoFar(t, nodesAt, lo, hi)
    BY <1>2, <1>8, <2>2 DEF ReadSoFar, NoNodes
  <2> QED
    BY <2>2, <2>3, <2>4 DEF t
<1>9. CASE line.kind = "node" /\ s.section = "nodes"
  <2>1. s.dump = line.dump /\ line.node \in nodesAt[line.dump]
    BY <1>2, <1>3, <1>9 DEF Follows, IsNode
  <2>2. t = [s EXCEPT !.nodes[line.node] = line.dump]
    BY <1>9 DEF Scanned
  <2>3. /\ t.state = "scanning" /\ t.section = "nodes" /\ t.dump = line.dump
        /\ t.nodes = [s.nodes EXCEPT ![line.node] = line.dump]
        /\ ~t.err /\ t.schema = s.schema
    BY <1>4, <1>9, <2>1, <2>2 DEF ReadSoFar, Scanners
  <2> HIDE DEF t
  <2>4. \A n \in Nodes : t.nodes[n] = IF n = line.node THEN line.dump ELSE s.nodes[n]
    BY <1>6, <2>3
  <2>5. HasRead(s, t, line)
    BY <1>9, <2>1, <2>3, <2>4 DEF HasRead, PartAfter
  <2>6. ReadSoFar(t, nodesAt, lo, hi)
    BY <1>4, <1>9, <2>1, <2>3, <2>4 DEF ReadSoFar
  <2> QED
    BY <2>3, <2>5, <2>6 DEF t
<1>10. CASE line.kind = "badNode" /\ s.section = "nodes"
  <2>1. s.dump = line.dump
    BY <1>3, <1>10 DEF Follows, IsNode
  <2>2. t = [s EXCEPT !.schema = TRUE]
    BY <1>10 DEF Scanned
  <2>3. /\ t.state = "scanning" /\ t.section = "nodes" /\ t.dump = line.dump
        /\ t.nodes = s.nodes /\ ~t.err /\ t.schema
    BY <1>4, <1>10, <2>1, <2>2 DEF ReadSoFar, Scanners
  <2> HIDE DEF t
  <2>4. HasRead(s, t, line)
    BY <1>10, <2>1, <2>3 DEF HasRead, PartAfter
  <2>5. ReadSoFar(t, nodesAt, lo, hi)
    BY <1>4, <1>10, <2>1, <2>3 DEF ReadSoFar
  <2> QED
    BY <2>3, <2>4, <2>5 DEF t
<1>11. CASE line.kind = "jobs" /\ s.section = "nodes"
  <2>1. s.dump = line.dump
    BY <1>3, <1>11 DEF Follows, IsNode
  <2>2. t = [s EXCEPT !.section = "jobs"]
    BY <1>11 DEF Scanned
  <2>3. /\ t.state = "scanning" /\ t.section = "jobs" /\ t.dump = s.dump
        /\ t.nodes = s.nodes /\ ~t.err /\ t.schema = s.schema
    BY <1>4, <2>2 DEF ReadSoFar, Scanners
  <2> HIDE DEF t
  <2>4. HasRead(s, t, line)
    BY <1>11, <2>1, <2>3 DEF HasRead, PartAfter
  <2>5. ReadSoFar(t, nodesAt, lo, hi)
    BY <1>4, <1>7, <1>11, <2>3 DEF ReadSoFar
  <2> QED
    BY <2>3, <2>4, <2>5 DEF t
<1>12. CASE line.kind = "end" /\ s.section = "jobs"
  <2>1. s.dump = line.dump /\ line.dump \in done
    BY <1>2, <1>3, <1>12 DEF Follows, IsNode
  <2>2. t = [s EXCEPT !.state = "sending"]
    BY <1>12 DEF Scanned
  <2>3. /\ t.state = "sending" /\ t.dump = s.dump /\ t.nodes = s.nodes
        /\ t.schema = s.schema
    BY <2>2 DEF Scanners
  <2> HIDE DEF t
  <2>4. ~t.schema => IsWhole(t, nodesAt, done, lo, hi)
    BY <1>4, <1>12, <2>1, <2>3 DEF IsWhole, ReadSoFar
  <2> QED
    BY <2>3, <2>4 DEF t
\* Lines before the first start are passed over.
<1>13. CASE line.kind # "start" /\ s.section = "none"
  <2>1. t = s
    BY <1>13 DEF Scanned
  <2> HIDE DEF t
  <2>2. HasRead(s, s, line)
    BY <1>13 DEF HasRead
  <2> QED
    BY <1>4, <2>1, <2>2 DEF t
<1>14. \/ line.kind = "start"
       \/ line.kind = "node" /\ s.section = "nodes"
       \/ line.kind = "badNode" /\ s.section = "nodes"
       \/ line.kind = "jobs" /\ s.section = "nodes"
       \/ line.kind = "end" /\ s.section = "jobs"
       \/ line.kind # "start" /\ s.section = "none"
  BY <1>3, <1>5, <1>6 DEF Follows, IsNode
<1> QED
  BY <1>8, <1>9, <1>10, <1>11, <1>12, <1>13, <1>14

-----------------------------------------------------------------------------
(***************************************************************************)
(* The invariant                                                           *)
(***************************************************************************)
\* A step that leaves a capture and its scanner alone, but for the lines that
\* wait, keeps the invariant of it.
LEMMA ScanInvLines ==
    ASSUME TypeInv, TypeInv', NEW c \in Captures, ScanInvOf(c),
           Later(nodesOf, complete, dumps, nodesOf', complete', dumps'),
           UNCHANGED <<pc[c], scanner[c], channel[c], stream[c], pod[c], out[c],
                       since[c]>>,
           Reading(c) => Consistent(scanner[c], unread'[c], nodesOf', complete',
                                    since[c], dumps'),
           Reading(c) /\ stream[c] = "open" =>
              Continues(scanner[c], unread'[c], writer'[pod[c]], nodesOf'),
           ~Reading(c) => unread'[c] = unread[c]
    PROVE  ScanInvOf(c)'
<1>1. since[c] \in Nat /\ dumps \in Nat /\ dumps' \in Nat
  BY BoundsAssumption DEF TypeInv, CaptureTypes, LogTypes
<1>2. since'[c] <= dumps'
  BY <1>1 DEF ScanInvOf, Later
<1>3. Reading(c)' <=> Reading(c)
  BY DEF Reading
<1>4. \A r : IsWhole(r, nodesOf, complete, since[c], dumps) =>
             IsWhole(r, nodesOf', complete', since'[c], dumps')
  BY <1>1, WholeLater
<1>5. pc'[c] \in {"idle", "leader", "open"} =>
         /\ scanner'[c] = NoScanner
         /\ channel'[c] = {}
         /\ unread'[c] = <<>>
  BY DEF ScanInvOf, Reading, NoScanner
<1>6. Accepted(c)' <=> Accepted(c)
  BY DEF Accepted
<1> QED
  BY <1>2, <1>3, <1>4, <1>5, <1>6 DEF ScanInvOf

LEMMA ScanInvQuiet ==
    ASSUME TypeInv, TypeInv', DumpsInv, NEW c \in Captures, ScanInvOf(c),
           Later(nodesOf, complete, dumps, nodesOf', complete', dumps'),
           UNCHANGED <<pc[c], scanner[c], channel[c], unread[c], stream[c],
                       pod[c], out[c], since[c]>>,
           Reading(c) /\ stream[c] = "open" => writer'[pod[c]] = writer[pod[c]]
    PROVE  ScanInvOf(c)'
<1>1. since[c] \in Nat /\ dumps \in Nat /\ dumps' \in Nat
  BY BoundsAssumption DEF TypeInv, CaptureTypes, LogTypes
<1>2. scanner[c] \in Scanners /\ unread[c] \in Seq(Lines)
  BY DEF TypeInv, ScanTypes, StreamTypes
<1>3. Reading(c) => Consistent(scanner[c], unread'[c], nodesOf', complete',
                               since[c], dumps')
  BY <1>1, <1>2, ConsistentLater DEF ScanInvOf
<1>4. ASSUME Reading(c), stream[c] = "open"
      PROVE  Continues(scanner[c], unread'[c], writer'[pod[c]], nodesOf')
  <2>1. pod[c] \in Pods /\ Continues(scanner[c], unread[c], writer[pod[c]], nodesOf)
    BY <1>4 DEF ScanInvOf
  <2>2. writer[pod[c]].part # "none" =>
           nodesOf'[writer[pod[c]].dump] = nodesOf[writer[pod[c]].dump]
    BY <2>1 DEF DumpsInv, Later
  <2> QED
    BY <1>4, <2>1, <2>2, ContinuesLater
<1> QED
  BY <1>3, <1>4, ScanInvLines

LEMMA LogsUnchanged ==
    ASSUME TypeInv, DumpsInv, UNCHANGED <<writer, dumps, nodesOf, complete>>
    PROVE  /\ DumpsInv'
           /\ Later(nodesOf, complete, dumps, nodesOf', complete', dumps')
BY BoundsAssumption DEF DumpsInv, Later, TypeInv, LogTypes

\* What a scheduler that writes a line to its log has to show of it.
LEMMA ScanInvWritten ==
    ASSUME TypeInv, TypeInv', DumpsInv, NEW p \in Pods, NEW line \in Lines,
           NEW c \in Captures, ScanInvOf(c),
           Written(p, line),
           UNCHANGED <<pc, scanner, channel, stream, pod, out, since>>,
           Later(nodesOf, complete, dumps, nodesOf', complete', dumps'),
           \A q \in Pods \ {p} : writer'[q] = writer[q],
           Reading(c) /\ stream[c] = "open" /\ pod[c] = p =>
              /\ Consistent(scanner[c], Append(unread[c], line), nodesOf', complete',
                            since[c], dumps')
              /\ Continues(scanner[c], Append(unread[c], line), writer'[p], nodesOf')
    PROVE  ScanInvOf(c)'
<1>1. CASE Reading(c) /\ stream[c] = "open" /\ pod[c] = p
  <2>1. unread'[c] = Append(unread[c], line)
    BY <1>1 DEF Written, Reading
  <2> QED
    BY <1>1, <2>1, ScanInvLines
<1>2. CASE ~(Reading(c) /\ stream[c] = "open" /\ pod[c] = p)
  <2>1. unread'[c] = unread[c]
    BY <1>2 DEF Written, Reading
  <2>2. Reading(c) /\ stream[c] = "open" => writer'[pod[c]] = writer[pod[c]]
    BY <1>2 DEF ScanInvOf
  <2> QED
    BY <2>1, <2>2, ScanInvQuiet
<1> QED
  BY <1>1, <1>2

LEMMA BeginDumpKeeps ==
    ASSUME TypeInv, TypeInv', ScanInv, NEW p \in Pods, BeginDump(p)
    PROVE  ScanInv'
<1> DEFINE line == [kind |-> "start", dump |-> dumps + 1, node |-> None]
<1>1. /\ dumps \in Nat
      /\ dumps + 1 \in Dumps
      /\ dumps' = dumps + 1
      /\ dumps' \in Nat
  BY BoundsAssumption DEF BeginDump, TypeInv, LogTypes, Dumps
<1>2. line \in Lines
  BY <1>1 DEF Lines
<1>3. PICK present \in SUBSET Nodes :
         /\ nodesOf' = [nodesOf EXCEPT ![dumps + 1] = present]
         /\ writer' = [writer EXCEPT ![p] = [dump |-> dumps + 1, part |-> "nodes",
                                            left |-> present]]
  BY DEF BeginDump
<1>4. /\ nodesOf'[dumps + 1] = present
      /\ \A d \in 1 .. dumps : nodesOf'[d] = nodesOf[d]
  BY <1>1, <1>3 DEF TypeInv, LogTypes, Dumps
<1>5. /\ writer'[p] = [dump |-> dumps + 1, part |-> "nodes", left |-> present]
      /\ \A q \in Pods \ {p} : writer'[q] = writer[q]
  BY <1>3 DEF TypeInv, LogTypes
<1>6. Later(nodesOf, complete, dumps, nodesOf', complete', dumps')
  BY <1>1, <1>4 DEF Later, BeginDump
<1>7. DumpsInv'
  <2>1. complete' \subseteq 1 .. dumps'
    BY <1>1 DEF BeginDump, ScanInv, DumpsInv
  <2>2. ASSUME NEW q \in Pods, writer'[q].part # "none"
        PROVE  /\ writer'[q].dump \in 1 .. dumps'
               /\ writer'[q].left \subseteq nodesOf'[writer'[q].dump]
    <3>1. CASE q = p
      BY <1>1, <1>4, <1>5, <3>1
    <3>2. CASE q # p
      BY <1>1, <1>4, <1>5, <2>2, <3>2 DEF ScanInv, DumpsInv
    <3> QED
      BY <3>1, <3>2
  <2> QED
    BY <2>1, <2>2 DEF DumpsInv
<1>8. ASSUME NEW c \in Captures
      PROVE  ScanInvOf(c)'
  <2>1. ScanInvOf(c) /\ DumpsInv
    BY DEF ScanInv
  <2>2. since[c] \in Nat /\ since[c] <= dumps
    BY <2>1, BoundsAssumption DEF ScanInvOf, TypeInv, CaptureTypes
  <2>3. scanner[c] \in Scanners /\ unread[c] \in Seq(Lines)
    BY DEF TypeInv, ScanTypes, StreamTypes
  <2>4. ASSUME Reading(c), stream[c] = "open", pod[c] = p
        PROVE  /\ Consistent(scanner[c], Append(unread[c], line), nodesOf',
                             complete', since[c], dumps')
               /\ Continues(scanner[c], Append(unread[c], line), writer'[p], nodesOf')
    <3>1. Consistent(scanner[c], unread[c], nodesOf, complete, since[c], dumps)
      BY <2>1, <2>4 DEF ScanInvOf
    <3>2. Consistent(scanner[c], unread[c], nodesOf', complete', since[c], dumps')
      BY <1>1, <1>6, <2>2, <2>3, <3>1, ConsistentLater
    <3>3. \A i \in 1 .. Len(unread[c]) : unread[c][i].dump < dumps + 1
      BY <1>1, <3>1 DEF Consistent, Truthful
    <3>4. scanner[c].section # "none" => scanner[c].dump < dumps + 1
      BY <1>1, <2>2, <3>1 DEF Consistent, ReadSoFar
    <3>5. Truthful(<<line>>, nodesOf', complete', since[c], dumps')
      <4>1. <<line>>[1] = line /\ Len(<<line>>) = 1
        OBVIOUS
      <4>2. line.dump \in 1 .. dumps' /\ line.dump > since[c] /\ line.kind = "start"
        BY <1>1, <2>2
      <4> HIDE DEF line
      <4> QED
        BY <4>1, <4>2 DEF Truthful, IsNode
    <3>6. line.kind = "start" /\ line.dump = dumps + 1
      OBVIOUS
    <3>7. dumps + 1 \in Nat
      BY <1>1
    <3> HIDE DEF line
    <3>8. Consistent(scanner[c], Append(unread[c], line), nodesOf', complete',
                     since[c], dumps')
      BY <1>1, <1>2, <2>2, <2>3, <3>2, <3>3, <3>4, <3>5, <3>6, <3>7, StartGoesOn
    <3>9. Continues(scanner[c], Append(unread[c], line), writer'[p], nodesOf')
      BY <1>2, <1>4, <1>5, <2>3, <3>6, ContinuesStart
    <3> QED
      BY <3>8, <3>9
  <2>5. UNCHANGED <<pc, scanner, channel, stream, pod, out, since>>
    BY DEF BeginDump, captureVars, scanVars
  <2>6. Written(p, line)
    BY DEF BeginDump
  <2> HIDE DEF line
  <2> QED
    BY <1>2, <1>5, <1>6, <2>1, <2>4, <2>5, <2>6, ScanInvWritten
<1> QED
  BY <1>7, <1>8 DEF ScanInv

\* A scheduler that goes on with its dump: a node, the jobs, or the end.
LEMMA WriterKeeps ==
    ASSUME TypeInv, TypeInv', ScanInv, NEW p \in Pods, NEW line \in Lines,
           Written(p, line),
           writer[p].part # "none", line.dump = writer[p].dump,
           UNCHANGED <<pc, scanner, channel, stream, pod, out, since, nodesOf,
                       dumps>>,
           \A q \in Pods \ {p} : writer'[q] = writer[q],
           \/ /\ writer[p].part = "nodes"
              /\ IsNode(line)
              /\ line.node \in writer[p].left
              /\ complete' = complete
              /\ writer'[p].part = "nodes"
              /\ writer'[p].dump = writer[p].dump
              /\ writer'[p].left = writer[p].left \ {line.node}
           \/ /\ writer[p].part = "nodes"
              /\ line.kind = "jobs"
              /\ writer[p].left = {}
              /\ complete' = complete
              /\ writer'[p].part = "jobs"
              /\ writer'[p].dump = writer[p].dump
              /\ writer'[p].left = {}
           \/ /\ writer[p].part = "jobs"
              /\ line.kind = "end"
              /\ complete' = complete \cup {writer[p].dump}
              /\ writer'[p].part = "none"
    PROVE  ScanInv'
<1>1. dumps \in Nat /\ dumps' = dumps
  BY BoundsAssumption DEF TypeInv, LogTypes
<1>2. /\ writer[p].dump \in 1 .. dumps
      /\ writer[p].left \subseteq nodesOf[writer[p].dump]
  BY DEF ScanInv, DumpsInv
<1>3. Later(nodesOf, complete, dumps, nodesOf', complete', dumps')
  BY <1>1 DEF Later
<1>4. DumpsInv'
  <2>1. complete' \subseteq 1 .. dumps'
    BY <1>1, <1>2 DEF ScanInv, DumpsInv
  <2>2. ASSUME NEW q \in Pods, writer'[q].part # "none"
        PROVE  /\ writer'[q].dump \in 1 .. dumps'
               /\ writer'[q].left \subseteq nodesOf'[writer'[q].dump]
    <3>1. CASE q = p
      BY <1>1, <1>2, <2>2, <3>1
    <3>2. CASE q # p
      BY <1>1, <2>2, <3>2 DEF ScanInv, DumpsInv
    <3> QED
      BY <3>1, <3>2
  <2> QED
    BY <2>1, <2>2 DEF DumpsInv
<1>5. ASSUME NEW c \in Captures
      PROVE  ScanInvOf(c)'
  <2>1. ScanInvOf(c) /\ DumpsInv
    BY DEF ScanInv
  <2>2. since[c] \in Nat
    BY BoundsAssumption DEF TypeInv, CaptureTypes
  <2>3. scanner[c] \in Scanners /\ unread[c] \in Seq(Lines)
    BY DEF TypeInv, ScanTypes, StreamTypes
  <2>4. ASSUME Reading(c), stream[c] = "open", pod[c] = p
        PROVE  /\ Consistent(scanner[c], Append(unread[c], line), nodesOf',
                             complete', since[c], dumps')
               /\ Continues(scanner[c], Append(unread[c], line), writer'[p], nodesOf')
    <3>1. Consistent(scanner[c], unread[c], nodesOf', complete', since[c], dumps')
      BY <1>1, <1>3, <2>1, <2>2, <2>3, <2>4, ConsistentLater DEF ScanInvOf
    <3>2. Continues(scanner[c], unread[c], writer[p], nodesOf')
      BY <2>1, <2>4 DEF ScanInvOf
    <3>3. Truthful(<<line>>, nodesOf', complete', since[c], dumps')
      <4>1. <<line>>[1] = line /\ Len(<<line>>) = 1
        OBVIOUS
      <4>2. /\ line.dump \in 1 .. dumps'
            /\ line.kind # "start"
            /\ IsNode(line) => line.node \in nodesOf'[line.dump]
            /\ line.kind = "end" => line.dump \in complete'
        BY <1>1, <1>2 DEF IsNode
      <4> QED
        BY <4>1, <4>2 DEF Truthful
    <3>4. Consistent(scanner[c], Append(unread[c], line), nodesOf', complete',
                     since[c], dumps')
      BY <1>1, <2>2, <2>3, <3>1, <3>2, <3>3, WriterGoesOn
    <3>5. Continues(scanner[c], Append(unread[c], line), writer'[p], nodesOf')
      <4>1. CASE IsNode(line)
        BY <2>3, <3>2, <4>1, ContinuesNode DEF IsNode
      <4>2. CASE line.kind = "jobs"
        BY <2>3, <4>2, ContinuesJobs DEF IsNode
      <4>3. CASE line.kind = "end"
        BY <4>3 DEF Continues, IsNode
      <4> QED
        BY <4>1, <4>2, <4>3
    <3> QED
      BY <3>4, <3>5
  <2> QED
    BY <1>3, <2>1, <2>4, ScanInvWritten
<1> QED
  BY <1>4, <1>5 DEF ScanInv

LEMMA EnvironmentKeeps ==
    ASSUME TypeInv, TypeInv', ScanInv, Environment
    PROVE  ScanInv'
<1> USE DEF captureVars, scanVars, logVars, leaderVars
<1>1. ASSUME UNCHANGED <<pc, scanner, channel, unread, stream, pod, out, since,
                         writer, dumps, nodesOf, complete>>
      PROVE  ScanInv'
  BY <1>1, LogsUnchanged, ScanInvQuiet DEF ScanInv
<1>2. ASSUME NEW c \in Captures, StreamBreaks(c)
      PROVE  ScanInv'
  <2>1. /\ DumpsInv'
        /\ Later(nodesOf, complete, dumps, nodesOf', complete', dumps')
    BY <1>2, LogsUnchanged DEF StreamBreaks, ScanInv
  <2>2. ASSUME NEW d \in Captures
        PROVE  ScanInvOf(d)'
    <3>1. CASE d = c
      <4>1. stream'[d] # "open"
        BY <1>2, <3>1 DEF StreamBreaks, TypeInv, StreamTypes
      <4>2. ScanInvOf(d)
        BY DEF ScanInv
      <4> QED
        BY <1>2, <4>1, <4>2 DEF StreamBreaks, ScanInvOf, Reading, Accepted
    <3>2. CASE d # c
      BY <1>2, <2>1, <3>2, ScanInvQuiet DEF StreamBreaks, ScanInv, TypeInv, StreamTypes
    <3> QED
      BY <3>1, <3>2
  <2> QED
    BY <2>1, <2>2 DEF ScanInv
<1>3. ASSUME NEW p \in Pods, WriteNode(p)
      PROVE  ScanInv'
  <2>1. PICK n \in writer[p].left, kind \in {"node", "badNode"} :
           /\ writer' = [writer EXCEPT ![p].left = @ \ {n}]
           /\ Written(p, [kind |-> kind, dump |-> writer[p].dump, node |-> n])
    BY <1>3 DEF WriteNode
  <2> DEFINE line == [kind |-> kind, dump |-> writer[p].dump, node |-> n]
  <2>2. /\ line \in Lines /\ IsNode(line) /\ line.node = n
        /\ line.dump = writer[p].dump
    BY <1>3 DEF WriteNode, TypeInv, WriterInv, LogTypes, Lines, IsNode
  <2>3. /\ writer'[p].part = writer[p].part
        /\ writer'[p].dump = writer[p].dump
        /\ writer'[p].left = writer[p].left \ {n}
        /\ \A q \in Pods \ {p} : writer'[q] = writer[q]
    BY <2>1 DEF TypeInv, LogTypes
  <2>4. Written(p, line)
    BY <2>1
  <2> HIDE DEF line
  <2> QED
    BY <1>3, <2>2, <2>3, <2>4, WriterKeeps DEF WriteNode
<1>4. ASSUME NEW p \in Pods, WriteJobs(p)
      PROVE  ScanInv'
  <2> DEFINE line == [kind |-> "jobs", dump |-> writer[p].dump, node |-> None]
  <2>1. line \in Lines /\ line.kind = "jobs" /\ line.dump = writer[p].dump
    BY <1>4 DEF WriteJobs, TypeInv, WriterInv, LogTypes, Lines
  <2>2. /\ writer'[p].part = "jobs"
        /\ writer'[p].dump = writer[p].dump
        /\ writer'[p].left = {}
        /\ \A q \in Pods \ {p} : writer'[q] = writer[q]
    BY <1>4 DEF WriteJobs, TypeInv, LogTypes
  <2>3. Written(p, line)
    BY <1>4 DEF WriteJobs
  <2> HIDE DEF line
  <2> QED
    BY <1>4, <2>1, <2>2, <2>3, WriterKeeps DEF WriteJobs
<1>5. ASSUME NEW p \in Pods, WriteEnd(p)
      PROVE  ScanInv'
  <2> DEFINE line == [kind |-> "end", dump |-> writer[p].dump, node |-> None]
  <2>1. line \in Lines /\ line.kind = "end" /\ line.dump = writer[p].dump
    BY <1>5 DEF WriteEnd, TypeInv, WriterInv, LogTypes, Lines
  <2>2. /\ writer'[p].part = "none"
        /\ \A q \in Pods \ {p} : writer'[q] = writer[q]
    BY <1>5 DEF WriteEnd, TypeInv, LogTypes, NoWriter
  <2>3. Written(p, line)
    BY <1>5 DEF WriteEnd
  <2> HIDE DEF line
  <2> QED
    BY <1>5, <2>1, <2>2, <2>3, WriterKeeps DEF WriteEnd
<1>6. CASE LeaderChanges
  BY <1>1, <1>6 DEF LeaderChanges
<1>7. ASSUME NEW c \in Captures, Expire(c)
      PROVE  ScanInv'
  BY <1>1, <1>7 DEF Expire
<1>8. ASSUME NEW p \in Pods, ForeignSignal(p)
      PROVE  ScanInv'
  BY <1>1, <1>8 DEF ForeignSignal
<1> QED
  BY <1>2, <1>3, <1>4, <1>5, <1>6, <1>7, <1>8, BeginDumpKeeps DEF Environment

LEMMA ScanKeeps ==
    ASSUME TypeInv, TypeInv', ScanInv, NEW c \in Captures, Scan(c)
    PROVE  ScanInv'
<1>1. UNCHANGED <<pc, stream, pod, out, since, writer, dumps, nodesOf, complete>>
  BY DEF Scan, ScanStarts, ScanLine, ScanBreaksOff, ScanSends, captureVars, logVars
<1>2. /\ DumpsInv'
      /\ Later(nodesOf, complete, dumps, nodesOf', complete', dumps')
  BY <1>1, LogsUnchanged DEF ScanInv
<1>3. ASSUME NEW d \in Captures, d # c
      PROVE  ScanInvOf(d)'
  <2>1. UNCHANGED <<scanner[d], channel[d], unread[d]>>
    BY <1>3 DEF Scan, ScanStarts, ScanLine, ScanBreaksOff, ScanSends, TypeInv,
       ScanTypes, StreamTypes
  <2> QED
    BY <1>1, <1>2, <2>1, ScanInvQuiet DEF ScanInv
<1>4. ScanInvOf(c)'
  <2>1. ScanInvOf(c) /\ DumpsInv
    BY DEF ScanInv
  <2>2. /\ scanner[c] \in Scanners /\ unread[c] \in Seq(Lines)
        /\ since[c] \in Nat /\ dumps \in Nat
        /\ nodesOf \in [Dumps -> SUBSET Nodes]
    BY BoundsAssumption DEF TypeInv, ScanTypes, StreamTypes, CaptureTypes, LogTypes
  <2>3. scanner'[c] \in Scanners
    BY DEF TypeInv, ScanTypes
  <2>4. pc[c] \notin {"idle", "leader", "open"}
    BY <2>1 DEF Scan, ScanStarts, ScanLine, ScanBreaksOff, ScanSends, ScanInvOf,
       NoScanner
  <2>5. CASE ScanStarts(c)
    <3>1. /\ scanner'[c] = [scanner[c] EXCEPT !.state = "scanning"]
          /\ UNCHANGED <<unread, channel>>
      BY <2>5 DEF ScanStarts, TypeInv, ScanTypes
    <3>2. Reading(c) /\ Reading(c)' /\ scanner'[c].state = "scanning"
      BY <2>2, <2>5, <3>1 DEF ScanStarts, Reading, Scanners
    <3>3. /\ scanner'[c].section = scanner[c].section
          /\ scanner'[c].dump = scanner[c].dump
          /\ scanner'[c].nodes = scanner[c].nodes
          /\ scanner'[c].schema = scanner[c].schema
          /\ scanner'[c].err = scanner[c].err
      BY <2>2, <3>1 DEF Scanners
    <3>4. Consistent(scanner[c], unread[c], nodesOf, complete, since[c], dumps) =>
          Consistent(scanner'[c], unread[c], nodesOf, complete, since[c], dumps)
      BY <3>3 DEF Consistent, InOrder, Rising, NodesFirst, ReadSoFar, Started,
         Covered
    <3>5. \A w : Continues(scanner[c], unread[c], w, nodesOf) =>
                 Continues(scanner'[c], unread[c], w, nodesOf)
      BY <3>3 DEF Continues, Started, Covered
    <3> QED
      BY <1>1, <2>1, <2>4, <3>1, <3>2, <3>4, <3>5 DEF ScanInvOf, Accepted
  <2>6. CASE ScanLine(c)
    <3> DEFINE t == Scanned(scanner[c], Head(unread[c]))
    <3>1. /\ scanner'[c] = t
          /\ unread'[c] = Tail(unread[c])
          /\ unread[c] # <<>>
          /\ scanner[c].state = "scanning"
          /\ channel' = channel
      BY <2>6 DEF ScanLine, TypeInv, ScanTypes, StreamTypes
    <3>2. Consistent(scanner[c], unread[c], nodesOf, complete, since[c], dumps)
      BY <2>1, <3>1 DEF ScanInvOf, Reading
    <3>3. \/ /\ t.state = "scanning"
             /\ HasRead(scanner[c], t, unread[c][1])
             /\ ReadSoFar(t, nodesOf, since[c], dumps)
          \/ /\ t.state = "sending"
             /\ ~t.schema => IsWhole(t, nodesOf, complete, since[c], dumps)
      BY <2>2, <3>1, <3>2, ScannedConsistent
    <3> HIDE DEF t
    <3>4. CASE t.state = "sending"
      <4>1. ~Reading(c)'
        BY <3>1, <3>4 DEF Reading
      <4>2. ~t.schema => IsWhole(t, nodesOf, complete, since[c], dumps)
        BY <3>3, <3>4
      <4> QED
        BY <1>1, <2>1, <2>4, <3>1, <4>1, <4>2 DEF ScanInvOf, Accepted
    <3>5. CASE t.state = "scanning"
      <4>1. /\ HasRead(scanner[c], t, unread[c][1])
            /\ ReadSoFar(t, nodesOf, since[c], dumps)
        BY <3>3, <3>5
      <4>2. t \in Scanners
        BY <2>3, <3>1
      <4>3. Consistent(t, Tail(unread[c]), nodesOf, complete, since[c], dumps)
        BY <2>2, <3>1, <3>2, <4>1, <4>2, ReadConsistent
      <4>4. ASSUME stream[c] = "open"
            PROVE  /\ pod[c] \in Pods
                   /\ Continues(t, Tail(unread[c]), writer[pod[c]], nodesOf)
        <5>1. pod[c] \in Pods /\ Continues(scanner[c], unread[c], writer[pod[c]], nodesOf)
          BY <2>1, <3>1, <4>4 DEF ScanInvOf, Reading
        <5>2. writer[pod[c]].part # "none" => writer[pod[c]].dump \in Dumps
          BY <5>1 DEF TypeInv, WriterInv
        <5>3. Rising(scanner[c], unread[c])
          BY <3>2 DEF Consistent
        <5> QED
          BY <2>2, <3>1, <4>1, <4>2, <5>1, <5>2, <5>3, ReadContinues
      <4> QED
        BY <1>1, <2>1, <2>4, <3>1, <3>5, <4>3, <4>4 DEF ScanInvOf, Accepted, Reading
    <3> QED
      BY <3>3, <3>4, <3>5
  <2>7. CASE ScanBreaksOff(c)
    <3>1. /\ scanner'[c].state = "sending" /\ scanner'[c].err
          /\ UNCHANGED <<unread, channel>>
      BY <2>2, <2>7 DEF ScanBreaksOff, TypeInv, ScanTypes, Scanners
    <3> QED
      BY <1>1, <2>1, <2>4, <3>1 DEF ScanInvOf, Accepted, Reading
  <2>8. CASE ScanSends(c)
    <3>1. /\ scanner'[c].state = "ended"
          /\ channel'[c] = {[dump |-> scanner[c].dump, nodes |-> scanner[c].nodes,
                             err |-> scanner[c].err \/ scanner[c].schema]}
          /\ scanner[c].state = "sending"
      BY <2>8 DEF ScanSends, TypeInv, ScanTypes, NoScanner
    <3>2. ASSUME NEW r \in channel'[c], ~r.err
          PROVE  IsWhole(r, nodesOf, complete, since[c], dumps)
      <4>1. /\ r.dump = scanner[c].dump
            /\ r.nodes = scanner[c].nodes
            /\ r.err = (scanner[c].err \/ scanner[c].schema)
        BY <3>1
      <4>2. ~scanner[c].err /\ ~scanner[c].schema
        BY <3>2, <4>1, Zenon
      <4> QED
        BY <2>1, <3>1, <4>1, <4>2 DEF ScanInvOf, IsWhole
    <3> QED
      BY <1>1, <2>1, <2>4, <3>1, <3>2 DEF ScanInvOf, Accepted, Reading
  <2> QED
    BY <2>5, <2>6, <2>7, <2>8 DEF Scan
<1> QED
  BY <1>2, <1>3, <1>4 DEF ScanInv

\* A capture that returns takes what its scanner sent, if it takes anything.
LEMMA ReturnKeeps ==
    ASSUME TypeInv, TypeInv', ScanInv, NEW c \in Captures, NEW result \in Results,
           pc[c] \in Locked,
           ReturnFrom(c, result),
           ~result.err => \E sent \in channel[c] : /\ ~sent.err
                                                   /\ sent.dump = result.dump
                                                   /\ sent.nodes = result.nodes,
           UNCHANGED <<scanner, writer, dumps, nodesOf, complete>>,
           channel' = channel \/ channel' = [channel EXCEPT ![c] = {}]
    PROVE  ScanInv'
<1>1. /\ DumpsInv'
      /\ Later(nodesOf, complete, dumps, nodesOf', complete', dumps')
  BY LogsUnchanged DEF ScanInv
<1>2. ASSUME NEW d \in Captures, d # c
      PROVE  ScanInvOf(d)'
  <2>1. UNCHANGED <<pc[d], scanner[d], channel[d], unread[d], stream[d], pod[d],
                    out[d], since[d]>>
    BY <1>2 DEF ReturnFrom, TypeInv, CaptureTypes, StreamTypes, ScanTypes
  <2> QED
    BY <1>1, <2>1, ScanInvQuiet DEF ScanInv
<1>3. ScanInvOf(c)'
  <2>1. ScanInvOf(c)
    BY DEF ScanInv
  <2>2. /\ pc'[c] = "done" /\ out'[c] = result /\ stream'[c] # "open"
        /\ UNCHANGED <<pod, unread, since>>
    BY DEF ReturnFrom, TypeInv, CaptureTypes, StreamTypes
  <2>3. channel'[c] \subseteq channel[c]
    BY DEF TypeInv, ScanTypes
  <2>4. ~result.err => IsWhole(result, nodesOf, complete, since[c], dumps)
    BY <2>1 DEF ScanInvOf, IsWhole
  <2> QED
    BY <2>1, <2>2, <2>3, <2>4 DEF ScanInvOf, Reading, Accepted
<1> QED
  BY <1>1, <1>2, <1>3 DEF ScanInv

LEMMA CaptureKeeps ==
    ASSUME TypeInv, TypeInv', ScanInv, NEW c \in Captures, Capture(c)
    PROVE  ScanInv'
<1> DEFINE Returns == \/ FindLeaderFails(c)
                      \/ OpenStreamFails(c)
                      \/ ScannerReads(c) /\ channel[c] # {}
                      \/ ScannerDoesNotStart(c)
                      \/ RecheckLeaderFails(c)
                      \/ SignalFails(c)
                      \/ AwaitResult(c)
                      \/ CloseWaitPasses(c)
<1>1. CASE Returns
  <2>1. PICK result \in Results :
           /\ pc[c] \in Locked
           /\ ReturnFrom(c, result)
           /\ ~result.err => \E sent \in channel[c] : /\ ~sent.err
                                                      /\ sent.dump = result.dump
                                                      /\ sent.nodes = result.nodes
    BY <1>1, ReturningSteps
  <2>2. /\ UNCHANGED <<scanner, writer, dumps, nodesOf, complete>>
        /\ channel' = channel \/ channel' = [channel EXCEPT ![c] = {}]
    BY <1>1 DEF FindLeaderFails, OpenStreamFails, ScannerReads,
       ScannerDoesNotStart, RecheckLeaderFails, SignalFails, AwaitResult,
       CloseWaitPasses, Return, scanVars, logVars
  <2> QED
    BY <2>1, <2>2, ReturnKeeps
<1>2. CASE ~Returns
  <2>1. UNCHANGED <<writer, dumps, nodesOf, complete, unread, channel, out>>
    BY <1>2 DEF Capture, Lock, FindLeader, OpenStream, ScannerReads,
       RecheckLeader, SignalScheduler, AwaitExpires, scanVars, logVars
  <2>2. /\ DumpsInv'
        /\ Later(nodesOf, complete, dumps, nodesOf', complete', dumps')
    BY <2>1, LogsUnchanged DEF ScanInv
  <2>3. ASSUME NEW d \in Captures, d # c
        PROVE  ScanInvOf(d)'
    <3>1. UNCHANGED <<pc[d], scanner[d], stream[d], pod[d], since[d]>>
      BY <1>2, <2>3 DEF Capture, Lock, FindLeader, OpenStream, ScannerReads,
         RecheckLeader, SignalScheduler, AwaitExpires, scanVars, logVars, TypeInv,
         CaptureTypes, StreamTypes, ScanTypes
    <3> QED
      BY <2>1, <2>2, <3>1, ScanInvQuiet DEF ScanInv
  <2>4. ScanInvOf(c)'
    <3>1. ScanInvOf(c)
      BY DEF ScanInv
    <3>2. CASE Lock(c)
      <4>1. /\ pc[c] = "idle" /\ pc'[c] = "leader" /\ since'[c] = dumps
            /\ UNCHANGED scanner
        BY <3>2 DEF Lock, TypeInv, CaptureTypes, scanVars
      <4>2. dumps <= dumps'
        BY <2>1, BoundsAssumption DEF TypeInv, LogTypes
      <4> QED
        BY <2>1, <3>1, <4>1, <4>2 DEF ScanInvOf, Reading, Accepted, NoScanner
    <3>3. CASE FindLeader(c)
      <4>1. /\ pc[c] = "leader" /\ pc'[c] = "open"
            /\ UNCHANGED <<scanner, since>>
        BY <3>3 DEF FindLeader, TypeInv, CaptureTypes, scanVars
      <4> QED
        BY <2>1, <3>1, <4>1 DEF ScanInvOf, Reading, Accepted, NoScanner
    <3>4. CASE OpenStream(c)
      <4>1. /\ pc[c] = "open" /\ pc'[c] = "start"
            /\ scanner'[c] = [NoScanner EXCEPT !.state = "starting"]
            /\ UNCHANGED <<since, pod>>
        BY <3>1, <3>4 DEF OpenStream, TypeInv, CaptureTypes, ScanTypes, ScanInvOf
      <4>2. pod[c] \in Pods
        BY <4>1 DEF TypeInv, CaptureTypes, Locked, Steps
      <4>3. /\ scanner'[c].state = "starting" /\ scanner'[c].section = "none"
            /\ ~scanner'[c].err
        BY <4>1 DEF NoScanner
      <4>4. unread'[c] = <<>> /\ channel'[c] = {}
        BY <2>1, <3>1, <4>1 DEF ScanInvOf
      <4>5. Len(<<>>) = 0 /\ 1 .. 0 = {}
        OBVIOUS
      <4>6. Consistent(scanner'[c], <<>>, nodesOf, complete, since[c], dumps)
        BY <4>3, <4>5 DEF Consistent, InOrder, Rising, Truthful, NodesFirst,
           ReadSoFar
      <4>7. \A w : Continues(scanner'[c], <<>>, w, nodesOf)
        BY <4>3, <4>5 DEF Continues, Started
      <4> QED
        BY <2>1, <3>1, <4>1, <4>2, <4>3, <4>4, <4>6, <4>7
           DEF ScanInvOf, Reading, Accepted
    <3>5. CASE \/ ScannerReads(c) /\ channel[c] = {}
               \/ RecheckLeader(c)
               \/ SignalScheduler(c)
               \/ AwaitExpires(c)
      <4>1. /\ pc[c] \notin {"idle", "leader", "open", "done"}
            /\ pc'[c] \notin {"idle", "leader", "open", "done"}
            /\ stream'[c] = stream[c] \/ stream'[c] # "open"
            /\ UNCHANGED <<scanner, since, pod>>
        BY <3>5 DEF ScannerReads, RecheckLeader, SignalScheduler, AwaitExpires,
           TypeInv, CaptureTypes, StreamTypes, scanVars
      <4> QED
        BY <2>1, <3>1, <4>1 DEF ScanInvOf, Reading, Accepted
    <3> QED
      BY <1>2, <3>2, <3>3, <3>4, <3>5 DEF Capture
  <2> QED
    BY <2>2, <2>3, <2>4 DEF ScanInv
<1> QED
  BY <1>1, <1>2

LEMMA ScanInvariance == Spec => [](TypeInv /\ ScanInv)
<1>1. Init => ScanInv
  <2> SUFFICES ASSUME Init PROVE ScanInv
    OBVIOUS
  <2>1. DumpsInv
    BY DEF Init, DumpsInv, NoWriter
  <2>2. ASSUME NEW c \in Captures PROVE ScanInvOf(c)
    BY DEF Init, ScanInvOf, Reading, Accepted, NoScanner
  <2> QED
    BY <2>1, <2>2 DEF ScanInv
<1>2. TypeInv /\ TypeInv' /\ ScanInv /\ [Next]_vars => ScanInv'
  <2> SUFFICES ASSUME TypeInv, TypeInv', ScanInv, [Next]_vars PROVE ScanInv'
    OBVIOUS
  <2>1. CASE UNCHANGED vars
    BY <2>1 DEF vars, ScanInv, DumpsInv, ScanInvOf, Reading, Accepted
  <2> QED
    BY <2>1, CaptureKeeps, ScanKeeps, EnvironmentKeeps DEF Next
<1> QED
  BY <1>1, <1>2, TypeInvariance, PTL DEF Spec

-----------------------------------------------------------------------------
(***************************************************************************)
(* The refinement                                                          *)
(***************************************************************************)
\* The variables of CapturePromise.
FreshNow == IF lock = None THEN {} ELSE Fresh(lock)
StatusOf == [c \in Captures |-> IF pc[c] # "done" THEN "waiting"
                                ELSE IF out[c].err THEN "failed" ELSE "served"]
AnswerOf == [c \in Captures |-> IF Accepted(c) THEN DumpOf(c) ELSE None]

\* A capture without an error has all of the dump it names.
LEMMA AcceptedDump ==
    TypeInv /\ ScanInv =>
       \A c \in Captures : Accepted(c) =>
          /\ DumpOf(c) = out[c].dump
          /\ out[c].dump \in Fresh(c) \cap complete
<1> SUFFICES ASSUME TypeInv, ScanInv, NEW c \in Captures, Accepted(c)
             PROVE  /\ DumpOf(c) = out[c].dump
                    /\ out[c].dump \in Fresh(c) \cap complete
  OBVIOUS
<1>1. IsWhole(out[c], nodesOf, complete, since[c], dumps)
  BY DEF ScanInv, ScanInvOf
<1>2. since[c] \in Nat
  BY BoundsAssumption DEF TypeInv, CaptureTypes
<1>3. out[c].dump # 0 /\ out[c].nodes = Whole(out[c].dump)
  BY <1>1, <1>2 DEF IsWhole, WholeOf, Whole
<1> QED
  BY <1>1, <1>3 DEF DumpOf, IsWhole, Fresh

LEMMA AcceptedDumpNext ==
    TypeInv' /\ ScanInv' =>
       \A c \in Captures : Accepted(c)' =>
          /\ DumpOf(c)' = out'[c].dump
          /\ out'[c].dump \in Fresh(c)' \cap complete'
<1>1. (TypeInv /\ ScanInv =>
         \A c \in Captures : Accepted(c) =>
            /\ DumpOf(c) = out[c].dump
            /\ out[c].dump \in Fresh(c) \cap complete)'
  BY AcceptedDump, PTL
<1> QED
  BY <1>1

\* A step in which no capture returns changes neither status nor answer.
LEMMA NoneReturns ==
    ASSUME TypeInv, TypeInv', ScanInv, ScanInv', out' = out,
           \A c \in Captures : pc'[c] = "done" <=> pc[c] = "done"
    PROVE  UNCHANGED <<StatusOf, AnswerOf>>
<1>1. \A c \in Captures : Accepted(c)' <=> Accepted(c)
  BY DEF Accepted
<1>2. \A c \in Captures : Accepted(c) => DumpOf(c) = out[c].dump
  BY AcceptedDump
<1>3. \A c \in Captures : Accepted(c)' => DumpOf(c)' = out'[c].dump
  BY AcceptedDumpNext
<1>4. AnswerOf' = AnswerOf
  BY <1>1, <1>2, <1>3 DEF AnswerOf
<1>5. StatusOf' = StatusOf
  BY DEF StatusOf
<1> QED
  BY <1>4, <1>5

\* A step that begins no dump and ends none leaves the rest as well.
LEMMA Stutter ==
    ASSUME TypeInv, TypeInv', ScanInv, ScanInv',
           UNCHANGED <<lock, out, since, dumps, complete>>,
           \A c \in Captures : pc'[c] = "done" <=> pc[c] = "done"
    PROVE  UNCHANGED <<lock, FreshNow, complete, StatusOf, AnswerOf>>
BY NoneReturns DEF FreshNow, Fresh

LEMMA LockTakes ==
    ASSUME TypeInv, TypeInv', ScanInv, ScanInv', NEW c \in Captures, Lock(c)
    PROVE  Promise!Take(c)
<1>1. /\ lock = None /\ lock' = c /\ c # None
      /\ pc[c] = "idle" /\ pc' = [pc EXCEPT ![c] = "leader"]
      /\ since'[c] = dumps /\ dumps' = dumps
      /\ UNCHANGED <<complete, out>>
  BY NoneAssumption DEF Lock, LockFree, TypeInv, CaptureTypes, logVars
<1>2. \A d \in Captures : pc'[d] = "done" <=> pc[d] = "done"
  BY <1>1 DEF TypeInv, CaptureTypes
<1>3. UNCHANGED <<StatusOf, AnswerOf>>
  BY <1>1, <1>2, NoneReturns
<1>4. FreshNow' = {}
  <2>1. dumps \in Nat /\ dumps + 1 .. dumps = {}
    BY BoundsAssumption DEF TypeInv, LogTypes
  <2> QED
    BY <1>1, <2>1 DEF FreshNow, Fresh
<1>5. StatusOf[c] = "waiting"
  BY <1>1 DEF StatusOf
<1> QED
  BY <1>1, <1>3, <1>4, <1>5 DEF Promise!Take, FreshNow, StatusOf, AnswerOf

LEMMA BeginBegins ==
    ASSUME TypeInv, TypeInv', ScanInv, ScanInv', NEW p \in Pods, BeginDump(p)
    PROVE  \/ \E d \in Dumps : Promise!Begin(d)
           \/ UNCHANGED <<lock, FreshNow, complete, StatusOf, AnswerOf>>
<1>1. /\ dumps \in Nat /\ dumps + 1 \in Dumps /\ dumps' = dumps + 1
      /\ UNCHANGED <<lock, pc, out, since, complete>>
  BY BoundsAssumption DEF BeginDump, TypeInv, LogTypes, Dumps, captureVars
<1>2. UNCHANGED <<StatusOf, AnswerOf>>
  BY <1>1, NoneReturns
<1>3. CASE lock = None
  BY <1>1, <1>2, <1>3 DEF FreshNow
<1>4. CASE lock # None
  <2>1. lock \in Captures /\ since[lock] \in Nat /\ since[lock] <= dumps
    BY <1>4, BoundsAssumption DEF TypeInv, CaptureTypes, ScanInv, ScanInvOf
  <2>2. since[lock] + 1 .. dumps + 1 = (since[lock] + 1 .. dumps) \cup {dumps + 1}
    BY <1>1, <2>1
  <2>3. FreshNow' = FreshNow \cup {dumps + 1}
    BY <1>1, <1>4, <2>2 DEF FreshNow, Fresh
  <2>4. dumps + 1 \notin FreshNow \cup complete
    BY <1>1, <1>4 DEF FreshNow, Fresh, ScanInv, DumpsInv
  <2>5. Promise!Begin(dumps + 1)
    BY <1>1, <1>2, <1>4, <2>3, <2>4 DEF Promise!Begin, FreshNow, StatusOf, AnswerOf
  <2> QED
    BY <1>1, <2>5
<1> QED
  BY <1>3, <1>4

LEMMA EndCompletes ==
    ASSUME TypeInv, TypeInv', ScanInv, ScanInv', NEW p \in Pods, WriteEnd(p)
    PROVE  \/ \E d \in Dumps : Promise!Complete(d)
           \/ UNCHANGED <<lock, FreshNow, complete, StatusOf, AnswerOf>>
<1>1. /\ writer[p].dump \in Dumps
      /\ complete' = complete \cup {writer[p].dump}
      /\ UNCHANGED <<lock, pc, out, since, dumps>>
  BY DEF WriteEnd, TypeInv, WriterInv, captureVars
<1>2. UNCHANGED <<FreshNow, StatusOf, AnswerOf>>
  BY <1>1, NoneReturns DEF FreshNow, Fresh
<1>3. CASE writer[p].dump \in complete
  BY <1>1, <1>2, <1>3
<1>4. CASE writer[p].dump \notin complete
  <2>1. Promise!Complete(writer[p].dump)
    BY <1>1, <1>2, <1>4 DEF Promise!Complete, FreshNow, StatusOf, AnswerOf
  <2> QED
    BY <1>1, <2>1
<1> QED
  BY <1>3, <1>4

LEMMA ReturnReleases ==
    ASSUME TypeInv, TypeInv', ScanInv, ScanInv', NEW c \in Captures,
           NEW result \in Results, pc[c] \in Locked, ReturnFrom(c, result),
           UNCHANGED <<dumps, complete>>
    PROVE  Promise!Fail(c) \/ Promise!Serve(c)
<1>1. /\ lock = c /\ lock' = None /\ c # None
      /\ pc' = [pc EXCEPT ![c] = "done"] /\ pc[c] # "done"
      /\ out' = [out EXCEPT ![c] = result]
      /\ since' = since
  BY NoneAssumption DEF ReturnFrom, Unlocked, TypeInv, CaptureTypes, Locked
<1>2. /\ pc'[c] = "done" /\ out'[c] = result
      /\ \A d \in Captures \ {c} : pc'[d] = pc[d] /\ out'[d] = out[d]
  BY <1>1 DEF TypeInv, CaptureTypes
<1>3. \A d \in Captures \ {c} : AnswerOf'[d] = AnswerOf[d] /\ StatusOf'[d] = StatusOf[d]
  <2> SUFFICES ASSUME NEW d \in Captures \ {c}
               PROVE  AnswerOf'[d] = AnswerOf[d] /\ StatusOf'[d] = StatusOf[d]
    OBVIOUS
  <2>1. Accepted(d)' <=> Accepted(d)
    BY <1>2 DEF Accepted
  <2>2. Accepted(d) => DumpOf(d) = out[d].dump
    BY AcceptedDump
  <2>3. Accepted(d)' => DumpOf(d)' = out'[d].dump
    BY AcceptedDumpNext
  <2>4. AnswerOf'[d] = AnswerOf[d]
    BY <1>2, <2>1, <2>2, <2>3 DEF AnswerOf
  <2>5. StatusOf'[d] = StatusOf[d]
    BY <1>2 DEF StatusOf
  <2> QED
    BY <2>4, <2>5
<1>4. FreshNow' = {} /\ FreshNow = Fresh(c)
  BY <1>1 DEF FreshNow
<1>5. AnswerOf[c] = None
  BY <1>1 DEF AnswerOf, Accepted
<1>6. Promise!Release(c)
  BY <1>1, <1>4 DEF Promise!Release, FreshNow
<1>7. CASE result.err
  <2>1. AnswerOf'[c] = None /\ StatusOf'[c] = "failed"
    BY <1>2, <1>7 DEF AnswerOf, StatusOf, Accepted
  <2>2. AnswerOf' = AnswerOf
    BY <1>3, <1>5, <2>1 DEF AnswerOf
  <2>3. StatusOf' = [StatusOf EXCEPT ![c] = "failed"]
    BY <1>3, <2>1 DEF StatusOf
  <2>4. Promise!Fail(c)
    BY <1>6, <2>2, <2>3 DEF Promise!Fail, StatusOf, AnswerOf
  <2> QED
    BY <2>4
<1>8. CASE ~result.err
  <2>1. Accepted(c)' /\ StatusOf'[c] = "served"
    BY <1>2, <1>8 DEF Accepted, StatusOf
  <2>2. DumpOf(c)' = out'[c].dump /\ out'[c].dump \in Fresh(c)' \cap complete'
    BY <2>1, AcceptedDumpNext
  <2>3. AnswerOf'[c] = result.dump /\ result.dump \in Fresh(c) \cap complete
    BY <1>1, <1>2, <2>1, <2>2 DEF AnswerOf, Fresh
  <2>4. AnswerOf' = [AnswerOf EXCEPT ![c] = result.dump]
    BY <1>3, <2>3 DEF AnswerOf
  <2>5. StatusOf' = [StatusOf EXCEPT ![c] = "served"]
    BY <1>3, <2>1 DEF StatusOf
  <2>6. Promise!Serve(c)
    BY <1>4, <1>6, <2>3, <2>4, <2>5 DEF Promise!Serve, FreshNow, StatusOf, AnswerOf
  <2> QED
    BY <2>6
<1> QED
  BY <1>7, <1>8

\* Only the steps of a capture that return move it to "done".
LEMMA OthersStutter ==
    ASSUME TypeInv, TypeInv', ScanInv, ScanInv', NEW c \in Captures,
           \/ FindLeader(c) \/ OpenStream(c) \/ RecheckLeader(c)
           \/ SignalScheduler(c) \/ AwaitExpires(c)
           \/ (ScannerReads(c) /\ channel[c] = {})
    PROVE  UNCHANGED <<lock, FreshNow, complete, StatusOf, AnswerOf>>
<1>1. /\ pc[c] # "done" /\ \E s \in Steps \ {"done"} : pc' = [pc EXCEPT ![c] = s]
      /\ UNCHANGED <<lock, out, since, dumps, complete>>
  BY DEF FindLeader, OpenStream, RecheckLeader, SignalScheduler, AwaitExpires,
     ScannerReads, scanVars, logVars, Steps
<1>2. \A d \in Captures : pc'[d] = "done" <=> pc[d] = "done"
  BY <1>1 DEF TypeInv, CaptureTypes
<1> QED
  BY <1>1, <1>2, Stutter

LEMMA StepRefines ==
    ASSUME TypeInv, TypeInv', ScanInv, ScanInv', [Next]_vars
    PROVE  [Promise!Next]_<<lock, FreshNow, complete, StatusOf, AnswerOf>>
<1> DEFINE Kept == UNCHANGED <<lock, FreshNow, complete, StatusOf, AnswerOf>>
<1>1. CASE UNCHANGED vars
  <2>1. Kept
    BY <1>1, Stutter DEF vars
  <2> QED
    BY <2>1
<1>2. ASSUME NEW c \in Captures, Capture(c) PROVE Promise!Next \/ Kept
  <2>1. CASE Lock(c)
    BY <2>1, LockTakes DEF Promise!Next
  <2>2. CASE \/ FindLeaderFails(c)
             \/ OpenStreamFails(c)
             \/ ScannerReads(c) /\ channel[c] # {}
             \/ ScannerDoesNotStart(c)
             \/ RecheckLeaderFails(c)
             \/ SignalFails(c)
             \/ AwaitResult(c)
             \/ CloseWaitPasses(c)
    <3>1. PICK result \in Results : pc[c] \in Locked /\ ReturnFrom(c, result)
      BY <2>2, ReturningSteps
    <3>2. UNCHANGED <<dumps, complete>>
      BY <2>2 DEF FindLeaderFails, OpenStreamFails, ScannerReads,
         ScannerDoesNotStart, RecheckLeaderFails, SignalFails, AwaitResult,
         CloseWaitPasses, Return, logVars
    <3> QED
      BY <3>1, <3>2, ReturnReleases DEF Promise!Next
  <2>3. CASE \/ FindLeader(c) \/ OpenStream(c) \/ RecheckLeader(c)
             \/ SignalScheduler(c) \/ AwaitExpires(c)
             \/ (ScannerReads(c) /\ channel[c] = {})
    BY <2>3, OthersStutter
  <2> QED
    BY <1>2, <2>1, <2>2, <2>3 DEF Capture
<1>3. ASSUME NEW c \in Captures, Scan(c) PROVE Kept
  BY <1>3, Stutter DEF Scan, ScanStarts, ScanLine, ScanBreaksOff, ScanSends,
     captureVars, logVars
<1>4. CASE Environment
  <2>1. ASSUME NEW p \in Pods, BeginDump(p) PROVE Promise!Next \/ Kept
    BY <2>1, BeginBegins DEF Promise!Next
  <2>2. ASSUME NEW p \in Pods, WriteEnd(p) PROVE Promise!Next \/ Kept
    BY <2>2, EndCompletes DEF Promise!Next
  <2>3. CASE \/ LeaderChanges
             \/ \E c \in Captures : Expire(c) \/ StreamBreaks(c)
             \/ \E p \in Pods : ForeignSignal(p) \/ WriteNode(p) \/ WriteJobs(p)
    BY <2>3, Stutter DEF LeaderChanges, Expire, StreamBreaks, ForeignSignal,
       WriteNode, WriteJobs, captureVars, logVars
  <2> QED
    BY <1>4, <2>1, <2>2, <2>3 DEF Environment
<1> QED
  BY <1>1, <1>2, <1>3, <1>4 DEF Next

LEMMA InitRefines == Init => Promise!Init
<1> SUFFICES ASSUME Init PROVE Promise!Init
  OBVIOUS
<1>1. StatusOf = [c \in Captures |-> "waiting"]
  BY DEF StatusOf, Init
<1>2. AnswerOf = [c \in Captures |-> None]
  BY DEF AnswerOf, Accepted, Init
<1>3. FreshNow = {} /\ lock = None /\ complete = {}
  BY DEF FreshNow, Init
<1> QED
  BY <1>1, <1>2, <1>3 DEF Promise!Init, StatusOf, AnswerOf, FreshNow

\* CaptureCacheDump keeps its promise (CapturePromise): captures take place one
\* at a time, and what one returns without an error is all of one dump, with
\* none of its lines lost or taken from another, that a scheduler began after
\* the capture had the lock and wrote to its end.
THEOREM PromiseKeptHolds == Spec => PromiseKept
<1>1. TypeInv /\ ScanInv /\ TypeInv' /\ ScanInv' /\ [Next]_vars =>
         [Promise!Next]_<<lock, FreshNow, complete, StatusOf, AnswerOf>>
  BY StepRefines
<1>2. Spec => Promise!Init
  BY InitRefines DEF Spec
<1>3. Spec => [][Promise!Next]_<<lock, FreshNow, complete, StatusOf, AnswerOf>>
  BY <1>1, ScanInvariance, PTL DEF Spec
<1> QED
  BY <1>2, <1>3, PTL DEF PromiseKept, Promise!Spec, FreshNow, StatusOf, AnswerOf
=============================================================================
