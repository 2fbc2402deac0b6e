-------------------------- MODULE ChunkIndex_proofs --------------------------
(***************************************************************************)
(* For any number of versions, runs, saves and threads, the index holds a  *)
(* version once unless runs overlapped, and does not lose it.              *)
(***************************************************************************)
EXTENDS ChunkIndex, TLAPS

Underway == {"embedding", "retiring", "written"}

(* Two runs of a version that are under way know of each other.            *)
Meeting ==
    \A q, r \in Run :
        q # r /\ Active(q) /\ Active(r) /\ run[q].v = run[r].v => r \in run[q].meets

(* Only a run that has ended has node rows or chunks committed.            *)
WrittenByEnded ==
    /\ \A v \in Version : \A r \in nodes[v] \cap Run :
          run[r] \in Progress /\ run[r].v = v /\ run[r].step \in {"indexed", "error"}
    /\ \A g \in Run : chunks[g] \in {"current", "retired"} =>
          run[g] \in Progress /\ run[g].step = "indexed"

(* What a run retires is there, and what it does not retire came while it  *)
(* was under way.                                                          *)
RetiresOrMeets ==
    \A r \in Run : Active(r) /\ run[r].step # "embedding" =>
        /\ \A g \in run[r].retires :
              run[g] \in Progress /\ run[g].step = "indexed" /\ run[g].v = run[r].v
        /\ \A g \in Current(run[r].v) \ run[r].retires :
              g \in run[r].meets /\ r \in run[g].meets

(* A run that writes node rows met whoever else has written some.          *)
CopiesMeet ==
    \A r \in Run : Active(r) /\ run[r].wrote =>
        \A x \in nodes[run[r].v] :
            /\ x \in run[r].meets
            /\ x \in Run => r \in run[x].meets

(* Unless a save fell into it, a run keeps node rows to refer to, and      *)
(* inserts if its INSERTs do not fail.                                     *)
KeepsItsCopies ==
    \A r \in Run : Active(r) /\ run[r].meets \cap Save = {} =>
        /\ run[r].step # "written" =>
               run[r].copies # {} /\ run[r].copies \subseteq Visible(r)
        /\ run[r].step = "written" => run[r].failed \/ run[r].inserts

(* Only a run that inserts its chunks writes vectors, after it inserted    *)
(* them.                                                                   *)
Vectored(p) ==
    /\ p \in Progress /\ p.step \in {"written"} \cup Ended
    /\ p.step = "written" => p.inserts
VectorsInserted == \A r \in vectors : Vectored(run[r])

IndexInv ==
    /\ Meeting /\ WrittenByEnded /\ RetiresOrMeets /\ CopiesMeet /\ KeepsItsCopies
    /\ VectorsInserted
    /\ OneGenerationUnlessTogether /\ OneCopyUnlessTogether

IInv == TypeOK /\ IndexInv

-----------------------------------------------------------------------------
(* The fields of a run.                                                    *)
LEMMA RunTyping ==
    ASSUME TypeOK, NEW r \in Run, Begun(r)
    PROVE  /\ run[r] \in Progress
           /\ run[r].v \in Version
           /\ run[r].copies \subseteq Run \cup Save
           /\ run[r].wrote \in BOOLEAN
           /\ run[r].retires \subseteq Run
           /\ run[r].inserts \in BOOLEAN /\ run[r].failed \in BOOLEAN
           /\ run[r].meets \subseteq Run \cup Save
           /\ run[r].step \in {"queued"} \cup Underway \cup Ended
BY DEF TypeOK, Begun, Progress, Underway

(* Begun and under way, by the record of the run.                          *)
Shape ==
    \A r \in Run :
        /\ Begun(r) <=> run[r] \in Progress
        /\ Active(r) <=> run[r] \in Progress /\ run[r].step \in Underway

LEMMA Shapes == TypeOK => Shape
BY RunTyping, NoneIsNoValue DEF Shape, Active, Begun, Ended, Underway, TypeOK

LEMMA ShapesNext == TypeOK' => Shape'
BY Shapes, PTL

LEMMA QueuedTyping ==
    ASSUME NEW v \in Version, NEW kind \in {"auto", "request"}
    PROVE  /\ Queued(kind, v) \in Progress
           /\ Queued(kind, v).step = "queued"
BY DEF Queued, Progress

(* One run goes on, and the others stay.                                   *)
LEMMA SetTyping ==
    ASSUME TypeOK, NEW r \in Run, NEW p \in Progress, Set(r, p)
    PROVE  /\ run' \in [Run -> Progress \cup {None}]
           /\ run'[r] = p
           /\ \A q \in Run : q # r => run'[q] = run[q]
BY DEF TypeOK, Set

-----------------------------------------------------------------------------
(* What every step keeps of the runs: a run goes on for its version, it    *)
(* forgets nobody it met, and one that has ended well or raised stays so.  *)
Follows ==
    \A q \in Run : run[q] \in Progress =>
        /\ run'[q] \in Progress
        /\ run'[q].v = run[q].v
        /\ run[q].step # "queued" => run[q].meets \subseteq run'[q].meets
        /\ run[q].step \in {"indexed", "error"} => run'[q].step = run[q].step

(* What every step but Start keeps: no run becomes active, nor changes     *)
(* what it has written.                                                    *)
NoneStarts ==
    \A q \in Run : Active(q)' => /\ Active(q)
                                 /\ run'[q].wrote = run[q].wrote

(* What most steps keep of a run that has begun to retire.                 *)
KeepsRetiring ==
    \A q \in Run : Active(q)' /\ run'[q].step # "embedding" =>
        Active(q) /\ run[q].step # "embedding" /\ run'[q].retires = run[q].retires

(* Node rows that are there stay.                                          *)
NodesGrow == \A v \in Version : nodes[v] \subseteq nodes'[v]

LEMMA CurrentKept ==
    ASSUME TypeOK, TypeOK', WrittenByEnded, Follows, UNCHANGED chunks
    PROVE  \A v \in Version : Current(v)' = Current(v)
<1>1. \A g \in Run : chunks[g] = "current" =>
          /\ run[g] \in Progress /\ run'[g] \in Progress
          /\ run'[g].v = run[g].v
  BY DEF WrittenByEnded, Follows
<1>2. \A g \in Run : chunks[g] = "current" => Begun(g) /\ Begun(g)'
  BY <1>1, Shapes, ShapesNext DEF Shape
<1> QED
  BY <1>1, <1>2 DEF Current, Of

LEMMA MeetingKept ==
    ASSUME TypeOK, Meeting, Follows, NoneStarts
    PROVE  Meeting'
BY Shapes DEF Meeting, Follows, NoneStarts, Shape, Underway

LEMMA WrittenKept ==
    ASSUME WrittenByEnded, Follows, UNCHANGED <<nodes, chunks>>
    PROVE  WrittenByEnded'
BY DEF WrittenByEnded, Follows

LEMMA RetiresKept ==
    ASSUME TypeOK, TypeOK', WrittenByEnded, RetiresOrMeets, Follows,
           KeepsRetiring, UNCHANGED chunks
    PROVE  RetiresOrMeets'
<1> SUFFICES ASSUME NEW q \in Run, Active(q)', run'[q].step # "embedding"
             PROVE  /\ \A g \in run'[q].retires :
                          run'[g] \in Progress /\ run'[g].step = "indexed" /\ run'[g].v = run'[q].v
                    /\ \A g \in Current(run[q].v)' \ run'[q].retires :
                          g \in run'[q].meets /\ q \in run'[g].meets
  BY DEF RetiresOrMeets
<1>1. /\ Active(q) /\ run[q].step # "embedding" /\ run'[q].retires = run[q].retires
      /\ run[q] \in Progress /\ run[q].step # "queued"
  BY Shapes DEF KeepsRetiring, Shape, Underway
<1>2. /\ run'[q].v = run[q].v /\ run[q].meets \subseteq run'[q].meets
      /\ run[q].v \in Version
  BY <1>1 DEF Follows, Progress
<1>3. \A g \in run'[q].retires :
          run'[g] \in Progress /\ run'[g].step = "indexed" /\ run'[g].v = run'[q].v
  <2>1. run[q].retires \subseteq Run
    BY <1>1 DEF Progress
  <2> QED
    BY <1>1, <1>2, <2>1 DEF RetiresOrMeets, Follows
<1>4. ASSUME NEW g \in Current(run[q].v)' \ run'[q].retires
      PROVE  g \in run'[q].meets /\ q \in run'[g].meets
  <2>1. g \in Current(run[q].v) \ run[q].retires
    BY <1>1, <1>2, CurrentKept DEF Current, Of
  <2>2. g \in Run /\ run[g] \in Progress /\ run[g].step = "indexed"
    BY <2>1 DEF Current, Of, WrittenByEnded
  <2>3. run[g].meets \subseteq run'[g].meets
    BY <2>2 DEF Follows
  <2> QED
    BY <1>1, <1>2, <2>1, <2>3 DEF RetiresOrMeets
<1> QED
  BY <1>3, <1>4

LEMMA CopiesMeetKept ==
    ASSUME TypeOK, WrittenByEnded, CopiesMeet, Follows, NoneStarts, UNCHANGED nodes
    PROVE  CopiesMeet'
<1> SUFFICES ASSUME NEW q \in Run, Active(q)', run'[q].wrote,
                    NEW x \in nodes'[run'[q].v]
             PROVE  /\ x \in run'[q].meets
                    /\ x \in Run => q \in run'[x].meets
  BY DEF CopiesMeet
<1>1. /\ Active(q) /\ run[q].wrote /\ run[q] \in Progress /\ run[q].step # "queued"
  BY Shapes DEF NoneStarts, Shape, Underway
<1>2. /\ run'[q].v = run[q].v /\ run[q].meets \subseteq run'[q].meets
      /\ run[q].v \in Version
  BY <1>1 DEF Follows, Progress
<1>3. x \in Run => run[x].meets \subseteq run'[x].meets
  BY <1>2 DEF WrittenByEnded, Follows
<1> QED
  BY <1>1, <1>2, <1>3 DEF CopiesMeet

LEMMA OneGenerationKept ==
    ASSUME TypeOK, TypeOK', WrittenByEnded, OneGenerationUnlessTogether, Follows,
           UNCHANGED chunks
    PROVE  OneGenerationUnlessTogether'
<1>1. \A v \in Version : \A g \in Current(v) : run[g].meets \subseteq run'[g].meets
  BY DEF Current, Of, WrittenByEnded, Follows
<1> QED
  BY <1>1, CurrentKept DEF OneGenerationUnlessTogether

LEMMA OneCopyKept ==
    ASSUME WrittenByEnded, OneCopyUnlessTogether, Follows, UNCHANGED nodes
    PROVE  OneCopyUnlessTogether'
<1>1. \A v \in Version : \A r \in nodes[v] \cap Run :
          run[r].meets \subseteq run'[r].meets /\ run'[r].v = run[r].v /\ run[r].v = v
  BY DEF WrittenByEnded, Follows
<1> QED
  BY <1>1 DEF OneCopyUnlessTogether, Of, Begun

(* What most steps keep of the rows a run refers to.                       *)
KeepsCopies ==
    \A q \in Run : Active(q)' =>
        /\ run'[q].step = "written" <=> run[q].step = "written"
        /\ run'[q].copies = run[q].copies /\ run'[q].failed = run[q].failed
        /\ run'[q].inserts = run[q].inserts

LEMMA KeepsItsCopiesKept ==
    ASSUME TypeOK, KeepsItsCopies, Follows, NoneStarts, NodesGrow, KeepsCopies
    PROVE  KeepsItsCopies'
<1> SUFFICES ASSUME NEW q \in Run, Active(q)', run'[q].meets \cap Save = {}
             PROVE  /\ run'[q].step # "written" =>
                           run'[q].copies # {} /\ run'[q].copies \subseteq Visible(q)'
                    /\ run'[q].step = "written" => run'[q].failed \/ run'[q].inserts
  BY DEF KeepsItsCopies
<1>1. /\ Active(q) /\ run[q] \in Progress /\ run[q].step # "queued"
      /\ run'[q].wrote = run[q].wrote
  BY Shapes DEF NoneStarts, Shape, Underway
<1>2. /\ run'[q].v = run[q].v /\ run[q].v \in Version
      /\ run[q].meets \subseteq run'[q].meets
  BY <1>1 DEF Follows, Progress
<1>3. /\ run[q].step # "written" =>
             run[q].copies # {} /\ run[q].copies \subseteq Visible(q)
      /\ run[q].step = "written" => run[q].failed \/ run[q].inserts
  BY <1>1, <1>2 DEF KeepsItsCopies
<1>4. Visible(q) \subseteq Visible(q)'
  BY <1>1, <1>2 DEF Visible, NodesGrow
<1> QED
  BY <1>3, <1>4 DEF KeepsCopies

(* What every step keeps of the runs with vectors.                         *)
KeepsVectors == \A q \in Run : Vectored(run[q]) => Vectored(run'[q])

LEMMA VectorsKept ==
    ASSUME TypeOK, VectorsInserted, KeepsVectors, UNCHANGED vectors
    PROVE  VectorsInserted'
BY DEF TypeOK, VectorsInserted, KeepsVectors, Vectored

-----------------------------------------------------------------------------
(* One run under way goes on, for its version and with those it met.       *)
Onward(r, p) ==
    /\ Active(r) /\ p \in Progress /\ Set(r, p)
    /\ p.v = run[r].v /\ p.meets = run[r].meets /\ p.wrote = run[r].wrote
    /\ p.step # "queued"

LEMMA OnwardStep ==
    ASSUME TypeOK, NEW r \in Run, NEW p, Onward(r, p)
    PROVE  /\ run' \in [Run -> Progress \cup {None}] /\ run'[r] = p
           /\ \A q \in Run : q # r => run'[q] = run[q]
           /\ Follows /\ NoneStarts
<1>1. /\ run' \in [Run -> Progress \cup {None}] /\ run'[r] = p
      /\ \A q \in Run : q # r => run'[q] = run[q]
  BY SetTyping DEF Onward
<1>2. run[r] \in Progress /\ run[r].step \in Underway
  BY Shapes DEF Onward, Shape
<1>3. Follows
  BY <1>1, <1>2 DEF Follows, Onward, Underway
<1>4. NoneStarts
  BY <1>1 DEF NoneStarts, Onward, Active, Begun
<1> QED
  BY <1>1, <1>3, <1>4

(* A run that ends leaves the node rows it wrote: whoever has written some *)
(* and whoever still may have met it.                                      *)
LEMMA LeavesNodes ==
    ASSUME IInv, NEW r \in Run, NEW p, Onward(r, p), p.step \in {"indexed", "error"},
           nodes' = [nodes EXCEPT ![run[r].v] = Visible(r)]
    PROVE  /\ nodes' \in [Version -> SUBSET (Run \cup Save)]
           /\ \A v \in Version : \A q \in nodes'[v] \cap Run :
                 run'[q] \in Progress /\ run'[q].v = v /\ run'[q].step \in {"indexed", "error"}
           /\ CopiesMeet' /\ OneCopyUnlessTogether' /\ NodesGrow
<1> DEFINE w == run[r].v
<1>1. /\ run'[r] = p /\ \A q \in Run : q # r => run'[q] = run[q]
      /\ Follows /\ NoneStarts
  BY OnwardStep DEF IInv
<1>2. /\ run[r] \in Progress /\ run[r].step \in Underway /\ w \in Version
      /\ p \in Progress /\ p.v = w /\ p.meets = run[r].meets
  BY Shapes DEF IInv, Shape, Onward, Progress
<1>3. /\ \A v \in Version : v # w => nodes'[v] = nodes[v]
      /\ nodes'[w] = nodes[w] \cup (IF run[r].wrote THEN {r} ELSE {})
      /\ nodes \in [Version -> SUBSET (Run \cup Save)]
  BY <1>2 DEF IInv, TypeOK, Visible
<1>4. r \notin nodes[w]
  BY <1>2 DEF IInv, IndexInv, WrittenByEnded, Underway
<1>5. run[r].wrote => \A x \in nodes[w] : /\ x \in run[r].meets
                                          /\ x \in Run => r \in run[x].meets
  BY DEF Onward, IInv, IndexInv, CopiesMeet
<1>6. nodes' \in [Version -> SUBSET (Run \cup Save)]
  BY <1>2, <1>3
<1>7. \A v \in Version : \A q \in nodes'[v] \cap Run :
          run'[q] \in Progress /\ run'[q].v = v /\ run'[q].step \in {"indexed", "error"}
  BY <1>1, <1>2, <1>3 DEF IInv, IndexInv, WrittenByEnded, Follows
<1>8. CopiesMeet'
  <2> SUFFICES ASSUME NEW q \in Run, Active(q)', run'[q].wrote,
                      NEW x \in nodes'[run'[q].v]
               PROVE  /\ x \in run'[q].meets
                      /\ x \in Run => q \in run'[x].meets
    BY DEF CopiesMeet
  <2>1. q # r
    BY <1>1, <1>2 DEF Active, Ended
  <2>2. run'[q] = run[q] /\ Active(q) /\ run[q].wrote
    BY <1>1, <2>1 DEF NoneStarts
  <2>3. CASE x = r
    <3>1. run[q].v = w
      <4>1. run[q].v \in Version
        BY <2>2, Shapes DEF IInv, Shape, Progress
      <4> QED
        BY <1>3, <2>2, <2>3, <4>1 DEF IInv, IndexInv, WrittenByEnded
    <3>2. r \in run[q].meets /\ q \in run[r].meets
      BY <2>1, <2>2, <3>1 DEF Onward, IInv, IndexInv, Meeting
    <3> QED
      BY <1>1, <1>2, <2>2, <2>3, <3>2
  <2>4. CASE x # r
    <3>1. x \in nodes[run[q].v]
      BY <1>3, <2>2, <2>4, Shapes DEF IInv, Shape, Progress
    <3>2. /\ x \in run[q].meets
          /\ x \in Run => q \in run[x].meets
      BY <2>2, <3>1 DEF IInv, IndexInv, CopiesMeet
    <3> QED
      BY <1>1, <2>2, <2>4, <3>2
  <2> QED
    BY <2>3, <2>4
<1>9. OneCopyUnlessTogether'
  <2> SUFFICES ASSUME NEW v \in Version, NEW q \in nodes'[v] \cap Run,
                      NEW x \in nodes'[v] \ {q}
               PROVE  x \in run'[q].meets
    BY DEF OneCopyUnlessTogether
  <2>1. CASE v # w
    BY <1>1, <1>2, <1>3, <2>1 DEF IInv, IndexInv, OneCopyUnlessTogether, WrittenByEnded
  <2>2. CASE v = w /\ q = r
    BY <1>1, <1>2, <1>3, <1>4, <1>5, <2>2
  <2>3. CASE v = w /\ q # r
    BY <1>1, <1>3, <1>5, <2>3 DEF IInv, IndexInv, OneCopyUnlessTogether
  <2> QED
    BY <2>1, <2>2, <2>3
<1>10. NodesGrow
  BY <1>3 DEF NodesGrow
<1> QED
  BY <1>6, <1>7, <1>8, <1>9, <1>10

-----------------------------------------------------------------------------
(* Each step keeps the invariant.                                          *)
LEMMA EmbedRaisesStep ==
    ASSUME IInv, NEW r \in Run, EmbedRaises(r)
    PROVE  IInv' /\ Follows
<1> DEFINE p == [run[r] EXCEPT !.step = "error"]
<1>1. /\ TypeOK /\ Meeting /\ WrittenByEnded /\ RetiresOrMeets /\ CopiesMeet
      /\ KeepsItsCopies /\ VectorsInserted
      /\ OneGenerationUnlessTogether /\ OneCopyUnlessTogether
  BY DEF IInv, IndexInv
<1>2. run[r] \in Progress /\ run[r].step = "embedding" /\ Active(r)
  BY <1>1, Shapes DEF EmbedRaises, At, Shape, Underway
<1>3. /\ p \in Progress /\ p.step = "error"
      /\ p.v = run[r].v /\ p.meets = run[r].meets /\ p.wrote = run[r].wrote
  BY <1>2 DEF Progress, Ended
<1>4. /\ Set(r, p) /\ nodes' = [nodes EXCEPT ![run[r].v] = Visible(r)]
      /\ UNCHANGED <<status, chunks, vectors, saved>>
  BY DEF EmbedRaises
<1> HIDE DEF p
<1>5. Onward(r, p)
  BY <1>2, <1>3, <1>4 DEF Onward
<1>6. /\ run' \in [Run -> Progress \cup {None}] /\ run'[r] = p
      /\ \A q \in Run : q # r => run'[q] = run[q]
      /\ Follows /\ NoneStarts
  BY <1>1, <1>5, OnwardStep
<1>7. /\ nodes' \in [Version -> SUBSET (Run \cup Save)]
      /\ \A v \in Version : \A q \in nodes'[v] \cap Run :
            run'[q] \in Progress /\ run'[q].v = v /\ run'[q].step \in {"indexed", "error"}
      /\ CopiesMeet' /\ OneCopyUnlessTogether' /\ NodesGrow
  BY <1>3, <1>4, <1>5, LeavesNodes
<1>8. TypeOK'
  BY <1>1, <1>4, <1>6, <1>7 DEF TypeOK
<1>9. ~Active(r)'
  BY <1>3, <1>6 DEF Active, Ended
<1>10. Meeting'
  BY <1>1, <1>6, MeetingKept
<1>11. WrittenByEnded'
  BY <1>1, <1>4, <1>6, <1>7 DEF WrittenByEnded, Follows
<1>12. RetiresOrMeets'
  <2>1. KeepsRetiring
    BY <1>6, <1>9 DEF KeepsRetiring, NoneStarts
  <2> QED
    BY <1>1, <1>4, <1>6, <1>8, <2>1, RetiresKept
<1>13. KeepsItsCopies'
  <2>1. KeepsCopies
    BY <1>6, <1>9 DEF KeepsCopies
  <2> QED
    BY <1>1, <1>6, <1>7, <2>1, KeepsItsCopiesKept
<1>14. OneGenerationUnlessTogether'
  BY <1>1, <1>4, <1>6, <1>8, OneGenerationKept
<1>15. VectorsInserted'
  <2>1. KeepsVectors
    BY <1>2, <1>6 DEF KeepsVectors, Vectored, Ended
  <2> QED
    BY <1>1, <1>4, <2>1, VectorsKept
<1> QED
  BY <1>6, <1>7, <1>8, <1>10, <1>11, <1>12, <1>13, <1>14, <1>15 DEF IInv, IndexInv

LEMMA RolledBackStep ==
    ASSUME IInv, NEW r \in Run, RolledBack(r)
    PROVE  IInv' /\ Follows
<1> DEFINE p == [run[r] EXCEPT !.step = "error"]
<1>1. /\ TypeOK /\ Meeting /\ WrittenByEnded /\ RetiresOrMeets /\ CopiesMeet
      /\ KeepsItsCopies /\ VectorsInserted
      /\ OneGenerationUnlessTogether /\ OneCopyUnlessTogether
  BY DEF IInv, IndexInv
<1>2. run[r] \in Progress /\ run[r].step \in Underway /\ Active(r)
  BY <1>1, Shapes DEF RolledBack, At, Shape, Underway
<1>3. /\ p \in Progress /\ p.step = "error"
      /\ p.v = run[r].v /\ p.meets = run[r].meets /\ p.wrote = run[r].wrote
  BY <1>2 DEF Progress, Ended
<1>4. Set(r, p) /\ UNCHANGED <<status, nodes, chunks, vectors, saved>>
  BY DEF RolledBack
<1> HIDE DEF p
<1>5. /\ run' \in [Run -> Progress \cup {None}] /\ run'[r] = p
      /\ \A q \in Run : q # r => run'[q] = run[q]
      /\ Follows /\ NoneStarts
  BY <1>1, <1>2, <1>3, <1>4, OnwardStep DEF Onward
<1>6. ~Active(r)'
  BY <1>3, <1>5 DEF Active, Ended
<1>7. TypeOK'
  BY <1>1, <1>4, <1>5 DEF TypeOK
<1>8. KeepsRetiring /\ KeepsCopies /\ NodesGrow
  BY <1>4, <1>5, <1>6 DEF KeepsRetiring, NoneStarts, KeepsCopies, NodesGrow
<1>9. KeepsVectors
  BY <1>3, <1>5 DEF KeepsVectors, Vectored, Ended
<1> QED
  BY <1>1, <1>4, <1>5, <1>7, <1>8, <1>9, MeetingKept, WrittenKept, RetiresKept,
     CopiesMeetKept, KeepsItsCopiesKept, VectorsKept, OneGenerationKept, OneCopyKept
     DEF IInv, IndexInv

LEMMA RetireStep ==
    ASSUME IInv, NEW r \in Run, Retire(r)
    PROVE  IInv' /\ Follows
<1> DEFINE p == [run[r] EXCEPT !.step = "retiring", !.retires = Current(run[r].v)]
<1>1. /\ TypeOK /\ Meeting /\ WrittenByEnded /\ RetiresOrMeets /\ CopiesMeet
      /\ KeepsItsCopies /\ VectorsInserted
      /\ OneGenerationUnlessTogether /\ OneCopyUnlessTogether
  BY DEF IInv, IndexInv
<1>2. run[r] \in Progress /\ run[r].step = "embedding" /\ Active(r)
  BY <1>1, Shapes DEF Retire, At, Shape, Underway
<1>3. /\ p \in Progress /\ p.step = "retiring" /\ p.retires = Current(run[r].v)
      /\ p.v = run[r].v /\ p.meets = run[r].meets /\ p.wrote = run[r].wrote
      /\ p.copies = run[r].copies /\ p.failed = run[r].failed
      /\ p.inserts = run[r].inserts
  BY <1>2 DEF Progress, Current, Of
<1>4. Set(r, p) /\ UNCHANGED <<status, nodes, chunks, vectors, saved>>
  BY DEF Retire
<1> HIDE DEF p
<1>5. /\ run' \in [Run -> Progress \cup {None}] /\ run'[r] = p
      /\ \A q \in Run : q # r => run'[q] = run[q]
      /\ Follows /\ NoneStarts
  BY <1>1, <1>2, <1>3, <1>4, OnwardStep DEF Onward
<1>6. TypeOK'
  BY <1>1, <1>4, <1>5 DEF TypeOK
<1>7. KeepsCopies /\ NodesGrow
  BY <1>2, <1>3, <1>4, <1>5 DEF KeepsCopies, NodesGrow
<1>8. RetiresOrMeets'
  <2> SUFFICES ASSUME NEW q \in Run, Active(q)', run'[q].step # "embedding"
               PROVE  /\ \A g \in run'[q].retires :
                            run'[g] \in Progress /\ run'[g].step = "indexed" /\ run'[g].v = run[q].v
                      /\ \A g \in Current(run[q].v)' \ run'[q].retires :
                            g \in run'[q].meets /\ q \in run'[g].meets
    BY <1>3, <1>5 DEF RetiresOrMeets
  <2>1. Active(q) /\ run[q].v \in Version
    BY <1>1, <1>5, Shapes DEF NoneStarts, Shape, Progress
  <2>2. Current(run[q].v)' = Current(run[q].v)
    BY <1>1, <1>3, <1>4, <1>5, <1>6, <2>1, CurrentKept DEF Current, Of
  <2>3. \A g \in Current(run[q].v) : /\ run[g] \in Progress /\ run[g].step = "indexed" /\ run[g].v = run[q].v
                                     /\ g # r /\ g \in Run
    BY <1>1, <1>2 DEF Current, Of, WrittenByEnded
  <2>4. CASE q = r
    BY <1>3, <1>5, <2>2, <2>3, <2>4
  <2>5. CASE q # r
    <3>1. \A g \in run[q].retires : /\ run[g] \in Progress /\ run[g].step = "indexed" /\ run[g].v = run[q].v
                                    /\ g # r /\ g \in Run
      BY <1>1, <1>2, <1>5, <2>1, <2>5, Shapes DEF RetiresOrMeets, Shape, Progress
    <3> QED
      BY <1>1, <1>5, <2>1, <2>2, <2>3, <2>5, <3>1 DEF RetiresOrMeets
  <2> QED
    BY <2>4, <2>5
<1>9. KeepsVectors
  BY <1>2, <1>5 DEF KeepsVectors, Vectored, Ended
<1> QED
  BY <1>1, <1>4, <1>5, <1>6, <1>7, <1>8, <1>9, MeetingKept, WrittenKept,
     CopiesMeetKept, KeepsItsCopiesKept, VectorsKept, OneGenerationKept, OneCopyKept
     DEF IInv, IndexInv

LEMMA WriteStep ==
    ASSUME IInv, NEW r \in Run, NEW vec \in BOOLEAN, NEW ok \in BOOLEAN, Write(r, vec, ok)
    PROVE  IInv' /\ Follows
<1> DEFINE kept == IF ok THEN run[r].copies \cap Visible(r) ELSE {}
           p == [run[r] EXCEPT !.step = "written", !.copies = kept,
                               !.inserts = kept # {}, !.failed = ~ok,
                               !.retires = run[r].retires \cap Current(run[r].v)]
<1>1. /\ TypeOK /\ Meeting /\ WrittenByEnded /\ RetiresOrMeets /\ CopiesMeet
      /\ KeepsItsCopies /\ VectorsInserted
      /\ OneGenerationUnlessTogether /\ OneCopyUnlessTogether
  BY DEF IInv, IndexInv
<1>2. run[r] \in Progress /\ run[r].step = "retiring" /\ Active(r)
  BY <1>1, Shapes DEF Write, At, Shape, Underway
<1>3. /\ p \in Progress /\ p.step = "written"
      /\ p.retires = run[r].retires \cap Current(run[r].v)
      /\ p.v = run[r].v /\ p.meets = run[r].meets /\ p.wrote = run[r].wrote
      /\ p.copies = kept /\ p.inserts = (kept # {}) /\ p.failed = ~ok
  BY <1>2 DEF Progress
<1>4. /\ Set(r, p) /\ UNCHANGED <<status, nodes, chunks, saved>>
      /\ vectors' \subseteq vectors \cup {r}
      /\ r \in vectors' => kept # {} \/ r \in vectors
  BY <1>2 DEF Write
<1> HIDE DEF p
<1>5. /\ run' \in [Run -> Progress \cup {None}] /\ run'[r] = p
      /\ \A q \in Run : q # r => run'[q] = run[q]
      /\ Follows /\ NoneStarts
  BY <1>1, <1>2, <1>3, <1>4, OnwardStep DEF Onward
<1>6. TypeOK'
  BY <1>1, <1>4, <1>5 DEF TypeOK
<1>7. RetiresOrMeets'
  <2> SUFFICES ASSUME NEW q \in Run, Active(q)', run'[q].step # "embedding"
               PROVE  /\ \A g \in run'[q].retires :
                            run'[g] \in Progress /\ run'[g].step = "indexed" /\ run'[g].v = run[q].v
                      /\ \A g \in Current(run[q].v)' \ run'[q].retires :
                            g \in run'[q].meets /\ q \in run'[g].meets
    BY <1>3, <1>5 DEF RetiresOrMeets
  <2>1. /\ Active(q) /\ run[q].v \in Version /\ run[q].step # "embedding"
        /\ run[q].retires \subseteq Run
    BY <1>1, <1>2, <1>5, Shapes DEF NoneStarts, Shape, Progress
  <2>2. Current(run[q].v)' = Current(run[q].v)
    BY <1>1, <1>3, <1>4, <1>5, <1>6, <2>1, CurrentKept DEF Current, Of
  <2>3. \A g \in Current(run[q].v) : /\ run[g] \in Progress /\ run[g].step = "indexed" /\ run[g].v = run[q].v
                                     /\ g # r /\ g \in Run
    BY <1>1, <1>2 DEF Current, Of, WrittenByEnded
  <2>4. \A g \in run[q].retires : /\ run[g] \in Progress /\ run[g].step = "indexed" /\ run[g].v = run[q].v
                                  /\ g # r /\ g \in Run
    BY <1>1, <1>2, <2>1 DEF RetiresOrMeets
  <2>5. /\ run'[q].retires \subseteq run[q].retires
        /\ Current(run[q].v) \ run'[q].retires = Current(run[q].v) \ run[q].retires
        /\ run'[q].meets = run[q].meets
    BY <1>3, <1>5
  <2> QED
    BY <1>1, <1>5, <2>1, <2>2, <2>3, <2>4, <2>5 DEF RetiresOrMeets
<1>8. KeepsItsCopies'
  <2> SUFFICES ASSUME NEW q \in Run, Active(q)', run'[q].meets \cap Save = {}
               PROVE  /\ run'[q].step # "written" =>
                             run'[q].copies # {} /\ run'[q].copies \subseteq Visible(q)'
                      /\ run'[q].step = "written" => run'[q].failed \/ run'[q].inserts
    BY DEF KeepsItsCopies
  <2>1. Active(q) /\ run[q].meets \cap Save = {}
    BY <1>3, <1>5 DEF NoneStarts
  <2>2. /\ run[q].step # "written" =>
               run[q].copies # {} /\ run[q].copies \subseteq Visible(q)
        /\ run[q].step = "written" => run[q].failed \/ run[q].inserts
    BY <1>1, <2>1 DEF KeepsItsCopies
  <2>3. Visible(q)' = Visible(q)
    BY <1>3, <1>4, <1>5 DEF Visible
  <2> QED
    BY <1>2, <1>3, <1>5, <2>2, <2>3
<1>9. VectorsInserted'
  BY <1>1, <1>2, <1>3, <1>4, <1>5 DEF VectorsInserted, Vectored, Ended, TypeOK
<1> QED
  BY <1>1, <1>4, <1>5, <1>6, <1>7, <1>8, <1>9, MeetingKept, WrittenKept,
     CopiesMeetKept, OneGenerationKept, OneCopyKept
     DEF IInv, IndexInv

LEMMA CommitStep ==
    ASSUME IInv, NEW r \in Run, Commit(r)
    PROVE  IInv' /\ Follows
<1> DEFINE p == [run[r] EXCEPT !.step = "indexed"]
           w == run[r].v
<1>1. /\ TypeOK /\ Meeting /\ WrittenByEnded /\ RetiresOrMeets /\ CopiesMeet
      /\ KeepsItsCopies /\ VectorsInserted
      /\ OneGenerationUnlessTogether /\ OneCopyUnlessTogether
  BY DEF IInv, IndexInv
<1>2. run[r] \in Progress /\ run[r].step = "written" /\ Active(r) /\ w \in Version
  BY <1>1, Shapes DEF Commit, At, Shape, Underway, Progress
<1>3. /\ p \in Progress /\ p.step = "indexed"
      /\ p.v = run[r].v /\ p.meets = run[r].meets /\ p.wrote = run[r].wrote
  BY <1>2 DEF Progress, Ended
<1>4. /\ Set(r, p) /\ nodes' = [nodes EXCEPT ![run[r].v] = Visible(r)]
      /\ chunks' = [g \in Run |-> CASE g \in run[r].retires -> "retired"
                                    [] g = r /\ run[r].inserts -> "current"
                                    [] OTHER -> chunks[g]]
      /\ UNCHANGED <<status, vectors, saved>>
  BY DEF Commit
<1> HIDE DEF p
<1>5. Onward(r, p)
  BY <1>2, <1>3, <1>4 DEF Onward
<1>6. /\ run' \in [Run -> Progress \cup {None}] /\ run'[r] = p
      /\ \A q \in Run : q # r => run'[q] = run[q]
      /\ Follows /\ NoneStarts
  BY <1>1, <1>5, OnwardStep
<1>7. /\ nodes' \in [Version -> SUBSET (Run \cup Save)]
      /\ \A v \in Version : \A q \in nodes'[v] \cap Run :
            run'[q] \in Progress /\ run'[q].v = v /\ run'[q].step \in {"indexed", "error"}
      /\ CopiesMeet' /\ OneCopyUnlessTogether' /\ NodesGrow
  BY <1>3, <1>4, <1>5, LeavesNodes
<1>8. \A g \in run[r].retires :
          g \in Run /\ run[g] \in Progress /\ run[g].step = "indexed" /\ run[g].v = w
  BY <1>1, <1>2 DEF RetiresOrMeets, Progress
<1>9. \A g \in Run : chunks'[g] = IF g \in run[r].retires THEN "retired"
                                  ELSE IF g = r /\ run[r].inserts THEN "current"
                                  ELSE chunks[g]
  <2>1. r \notin run[r].retires
    BY <1>2, <1>8
  <2> QED
    BY <1>4, <2>1
<1>10. chunks' \in [Run -> {"current", "retired", None}]
  BY <1>1, <1>4, <1>9 DEF TypeOK
<1>11. TypeOK'
  BY <1>1, <1>4, <1>6, <1>7, <1>10 DEF TypeOK
<1>12. ~Active(r)'
  BY <1>3, <1>6 DEF Active, Ended
<1>13. Meeting'
  BY <1>1, <1>6, MeetingKept
<1>14. \A g \in Run : chunks'[g] \in {"current", "retired"} =>
           run'[g] \in Progress /\ run'[g].step = "indexed"
  BY <1>1, <1>3, <1>6, <1>9, <1>8 DEF WrittenByEnded, Follows
<1>15. WrittenByEnded'
  BY <1>7, <1>14 DEF WrittenByEnded
<1>16. \A v \in Version : \A g \in Current(v)' :
           /\ g \in Run /\ run'[g] \in Progress /\ run'[g].v = v
           /\ g # r => g \in Current(v) /\ run'[g] = run[g]
           /\ v = w => g \notin run[r].retires
  <2> SUFFICES ASSUME NEW v \in Version, NEW g \in Current(v)'
               PROVE  /\ g \in Run /\ run'[g] \in Progress /\ run'[g].v = v
                      /\ g # r => g \in Current(v) /\ run'[g] = run[g]
                      /\ v = w => g \notin run[r].retires
    OBVIOUS
  <2>1. g \in Run /\ run'[g].v = v /\ chunks'[g] = "current"
    BY DEF Current, Of
  <2>2. run'[g] \in Progress /\ g \notin run[r].retires
    BY <1>9, <1>14, <2>1
  <2>3. ASSUME g # r PROVE g \in Current(v) /\ run'[g] = run[g]
    <3>1. run'[g] = run[g] /\ chunks[g] = "current"
      BY <1>6, <1>9, <2>1, <2>2, <2>3
    <3>2. Begun(g)
      BY <1>1, <2>1, <2>2, <3>1, Shapes DEF Shape
    <3> QED
      BY <2>1, <3>1, <3>2 DEF Current, Of
  <2> QED
    BY <2>1, <2>2, <2>3
<1>17. RetiresOrMeets'
  <2> SUFFICES ASSUME NEW q \in Run, Active(q)', run'[q].step # "embedding"
               PROVE  /\ \A g \in run'[q].retires :
                            run'[g] \in Progress /\ run'[g].step = "indexed" /\ run'[g].v = run[q].v
                      /\ \A g \in Current(run[q].v)' \ run'[q].retires :
                            g \in run'[q].meets /\ q \in run'[g].meets
    BY <1>3, <1>6 DEF RetiresOrMeets
  <2>1. q # r /\ run'[q] = run[q] /\ Active(q)
    BY <1>6, <1>12 DEF NoneStarts
  <2>2. run[q].v \in Version /\ run[q].retires \subseteq Run
    BY <1>1, <2>1, Shapes DEF Shape, Progress
  <2>3. \A g \in run'[q].retires :
            run'[g] \in Progress /\ run'[g].step = "indexed" /\ run'[g].v = run[q].v
    BY <1>1, <1>6, <2>1, <2>2 DEF RetiresOrMeets, Follows
  <2>4. ASSUME NEW g \in Current(run[q].v)' \ run'[q].retires
        PROVE  g \in run'[q].meets /\ q \in run'[g].meets
    <3>1. /\ g \in Run /\ run'[g].v = run[q].v
          /\ g # r => g \in Current(run[q].v) /\ run'[g] = run[g]
      BY <1>16, <2>1, <2>2 DEF Current, Of
    <3>2. CASE g = r
      BY <1>1, <1>2, <1>3, <1>6, <2>1, <3>1, <3>2 DEF Meeting
    <3>3. CASE g # r
      BY <1>1, <2>1, <2>4, <3>1, <3>3 DEF RetiresOrMeets
    <3> QED
      BY <3>2, <3>3
  <2> QED
    BY <2>3, <2>4
<1>18. KeepsItsCopies'
  <2>1. KeepsCopies
    BY <1>6, <1>12 DEF KeepsCopies
  <2> QED
    BY <1>1, <1>6, <1>7, <2>1, KeepsItsCopiesKept
<1>19. OneGenerationUnlessTogether'
  <2> SUFFICES ASSUME NEW v \in Version, NEW g \in Current(v)', NEW h \in Current(v)',
                      g # h
               PROVE  h \in run'[g].meets
    BY DEF OneGenerationUnlessTogether
  <2>1. CASE g # r /\ h # r
    BY <1>1, <1>16, <2>1 DEF OneGenerationUnlessTogether
  <2>2. CASE g = r
    <3>1. v = w /\ h \in Current(w) \ run[r].retires
      BY <1>3, <1>6, <1>16, <2>2
    <3> QED
      BY <1>1, <1>2, <1>3, <1>6, <2>2, <3>1 DEF RetiresOrMeets
  <2>3. CASE h = r
    <3>1. v = w /\ g \in Current(w) \ run[r].retires /\ run'[g] = run[g]
      BY <1>3, <1>6, <1>16, <2>3
    <3> QED
      BY <1>1, <1>2, <2>3, <3>1 DEF RetiresOrMeets
  <2> QED
    BY <2>1, <2>2, <2>3
<1>20. VectorsInserted'
  <2>1. KeepsVectors
    BY <1>3, <1>6 DEF KeepsVectors, Vectored, Ended
  <2> QED
    BY <1>1, <1>4, <2>1, VectorsKept
<1> QED
  BY <1>6, <1>7, <1>11, <1>13, <1>15, <1>17, <1>18, <1>19, <1>20 DEF IInv, IndexInv

LEMMA SaveDraftStep ==
    ASSUME IInv, NEW v \in Version, NEW k \in Save, SaveDraft(v, k)
    PROVE  IInv' /\ Follows
<1>1. /\ TypeOK /\ Meeting /\ WrittenByEnded /\ RetiresOrMeets /\ CopiesMeet
      /\ KeepsItsCopies /\ VectorsInserted
      /\ OneGenerationUnlessTogether /\ OneCopyUnlessTogether
  BY DEF IInv, IndexInv
<1>2. /\ nodes' = [nodes EXCEPT ![v] = {k}] /\ saved' = saved \cup {k}
      /\ UNCHANGED <<status, chunks, vectors>> /\ k \notin Run
  BY SavesAreNoRuns DEF SaveDraft
<1>3. \A q \in Run : run[q] \in Progress =>
          /\ run'[q] \in Progress
          /\ run'[q].v = run[q].v /\ run'[q].step = run[q].step
          /\ run'[q].wrote = run[q].wrote /\ run'[q].copies = run[q].copies
          /\ run'[q].retires = run[q].retires /\ run'[q].inserts = run[q].inserts
          /\ run'[q].failed = run[q].failed
          /\ run[q].meets \subseteq run'[q].meets
          /\ Active(q) /\ run[q].v = v => k \in run'[q].meets
  <2> SUFFICES ASSUME NEW q \in Run, run[q] \in Progress
               PROVE  /\ run'[q] \in Progress
                      /\ run'[q].v = run[q].v /\ run'[q].step = run[q].step
                      /\ run'[q].wrote = run[q].wrote /\ run'[q].copies = run[q].copies
                      /\ run'[q].retires = run[q].retires
                      /\ run'[q].inserts = run[q].inserts /\ run'[q].failed = run[q].failed
                      /\ run[q].meets \subseteq run'[q].meets
                      /\ Active(q) /\ run[q].v = v => k \in run'[q].meets
    OBVIOUS
  <2>1. CASE q \in Of(v) /\ Active(q)
    <3> DEFINE p == [run[q] EXCEPT !.meets = run[q].meets \cup {k}]
    <3>1. run'[q] = p
      BY <2>1 DEF SaveDraft
    <3>2. /\ p \in Progress /\ p.v = run[q].v /\ p.step = run[q].step
          /\ p.wrote = run[q].wrote /\ p.copies = run[q].copies
          /\ p.retires = run[q].retires /\ p.inserts = run[q].inserts
          /\ p.failed = run[q].failed
          /\ p.meets = run[q].meets \cup {k}
      BY DEF Progress
    <3> HIDE DEF p
    <3> QED
      BY <3>1, <3>2
  <2>2. CASE ~(q \in Of(v) /\ Active(q))
    <3>1. run'[q] = run[q]
      BY <2>2 DEF SaveDraft
    <3> QED
      BY <2>2, <3>1 DEF Of, Active
  <2> QED
    BY <2>1, <2>2
<1>4. \A q \in Run : run[q] = None => run'[q] = None
  BY DEF SaveDraft, Of, Begun
<1>5. TypeOK'
  <2>1. run' \in [Run -> Progress \cup {None}]
    <3>1. run' = [q \in Run |-> run'[q]]
      BY DEF SaveDraft
    <3> QED
      BY <1>1, <1>3, <1>4, <3>1 DEF TypeOK
  <2> QED
    BY <1>1, <1>2, <2>1 DEF TypeOK
<1>6. Follows
  BY <1>3 DEF Follows
<1>7. \A q \in Run : Active(q)' => Active(q) /\ run[q] \in Progress /\ run[q].v \in Version
  BY <1>1, <1>3, <1>4, <1>5, Shapes, ShapesNext, NoneIsNoValue, SMTT(30) DEF Shape, TypeOK, Progress
<1>8. NoneStarts /\ KeepsRetiring
  BY <1>3, <1>7 DEF NoneStarts, KeepsRetiring
<1>9. /\ nodes'[v] = {k} /\ \A u \in Version : u # v => nodes'[u] = nodes[u]
  BY <1>1, <1>2 DEF TypeOK
<1>10. WrittenByEnded'
  BY <1>1, <1>2, <1>6, <1>9 DEF WrittenByEnded, Follows
<1>11. CopiesMeet'
  <2> SUFFICES ASSUME NEW q \in Run, Active(q)', run'[q].wrote,
                      NEW x \in nodes'[run[q].v]
               PROVE  /\ x \in run'[q].meets
                      /\ x \in Run => q \in run'[x].meets
    BY <1>3, <1>7 DEF CopiesMeet
  <2>1. CASE run[q].v = v
    BY <1>2, <1>3, <1>7, <1>9, <2>1
  <2>2. CASE run[q].v # v
    <3>1. x \in nodes[run[q].v] /\ Active(q) /\ run[q].wrote
      BY <1>3, <1>7, <1>9, <2>2
    <3>2. x \in Run => run[x].meets \subseteq run'[x].meets
      BY <1>1, <1>3, <1>7, <3>1 DEF WrittenByEnded
    <3> QED
      BY <1>1, <1>3, <1>7, <3>1, <3>2 DEF CopiesMeet
  <2> QED
    BY <2>1, <2>2
<1>12. KeepsItsCopies'
  <2> SUFFICES ASSUME NEW q \in Run, Active(q)', run'[q].meets \cap Save = {}
               PROVE  /\ run'[q].step # "written" =>
                             run'[q].copies # {} /\ run'[q].copies \subseteq Visible(q)'
                      /\ run'[q].step = "written" => run'[q].failed \/ run'[q].inserts
    BY DEF KeepsItsCopies
  <2>1. run[q].v # v /\ run[q].meets \cap Save = {}
    BY <1>3, <1>7
  <2>2. Visible(q)' = Visible(q)
    BY <1>3, <1>7, <1>9, <2>1 DEF Visible
  <2> QED
    BY <1>1, <1>3, <1>7, <2>1, <2>2 DEF KeepsItsCopies
<1>13. OneCopyUnlessTogether'
  <2> SUFFICES ASSUME NEW u \in Version, NEW q \in nodes'[u] \cap Run,
                      NEW x \in nodes'[u] \ {q}
               PROVE  x \in run'[q].meets
    BY DEF OneCopyUnlessTogether
  <2>1. u # v
    BY <1>2, <1>9
  <2> QED
    BY <1>1, <1>3, <1>9, <2>1 DEF OneCopyUnlessTogether, WrittenByEnded
<1>14. KeepsVectors
  BY <1>3 DEF KeepsVectors, Vectored
<1> QED
  BY <1>1, <1>2, <1>5, <1>6, <1>8, <1>10, <1>11, <1>12, <1>13, <1>14, MeetingKept,
     RetiresKept, VectorsKept, OneGenerationKept DEF IInv, IndexInv

LEMMA SubmitStep ==
    ASSUME IInv, NEW v \in Version, NEW r \in Run, Publish(v, r) \/ Reindex(v, r)
    PROVE  IInv' /\ Follows
<1>1. /\ TypeOK /\ Meeting /\ WrittenByEnded /\ RetiresOrMeets /\ CopiesMeet
      /\ KeepsItsCopies /\ VectorsInserted
      /\ OneGenerationUnlessTogether /\ OneCopyUnlessTogether
  BY DEF IInv, IndexInv
<1>2. PICK p \in Progress : p.step = "queued" /\ Set(r, p)
  BY QueuedTyping DEF Publish, Reindex
<1>3. /\ UNCHANGED <<nodes, chunks, vectors, saved>>
      /\ status' \in [Version -> {"draft", "published"}]
  BY <1>1 DEF Publish, Reindex, TypeOK
<1>4. run[r] \notin Progress
  BY <1>1, Shapes DEF Publish, Reindex, Fresh, Shape
<1>5. /\ run' \in [Run -> Progress \cup {None}] /\ run'[r] = p
      /\ \A q \in Run : q # r => run'[q] = run[q]
  BY <1>1, <1>2, SetTyping
<1>6. TypeOK'
  BY <1>1, <1>3, <1>5 DEF TypeOK
<1>7. ~Active(r)'
  BY <1>2, <1>5 DEF Active
<1>8. Follows
  BY <1>4, <1>5 DEF Follows
<1>9. \A q \in Run : Active(q)' => run'[q] = run[q] /\ Active(q)
  BY <1>5, <1>7 DEF Active, Begun
<1>10. NoneStarts /\ KeepsRetiring /\ KeepsCopies /\ NodesGrow
  BY <1>3, <1>9 DEF NoneStarts, KeepsRetiring, KeepsCopies, NodesGrow
<1>11. KeepsVectors
  BY <1>4, <1>5 DEF KeepsVectors, Vectored
<1> QED
  BY <1>1, <1>3, <1>6, <1>8, <1>10, <1>11, MeetingKept, WrittenKept, RetiresKept,
     CopiesMeetKept, KeepsItsCopiesKept, VectorsKept, OneGenerationKept, OneCopyKept
     DEF IInv, IndexInv

LEMMA StartStep ==
    ASSUME IInv, NEW r \in Run, Start(r)
    PROVE  IInv' /\ Follows
<1> DEFINE v == run[r].v
           bare == nodes[v] = {}
           meets == {q \in Of(v) : Active(q)}
           p == [run[r] EXCEPT !.step = "embedding", !.meets = meets, !.wrote = bare,
                               !.copies = IF bare THEN {r} ELSE nodes[v]]
<1>1. /\ TypeOK /\ Meeting /\ WrittenByEnded /\ RetiresOrMeets /\ CopiesMeet
      /\ KeepsItsCopies /\ VectorsInserted
      /\ OneGenerationUnlessTogether /\ OneCopyUnlessTogether
  BY DEF IInv, IndexInv
<1>2. /\ run[r] \in Progress /\ run[r].step = "queued" /\ v \in Version
      /\ nodes[v] \subseteq Run \cup Save /\ meets \subseteq Run \ {r}
  BY <1>1, Shapes DEF Start, At, Shape, Progress, TypeOK, Of, Active
<1>3. /\ p \in Progress /\ p.step = "embedding" /\ p.v = v
      /\ p.wrote = bare /\ p.copies = (IF bare THEN {r} ELSE nodes[v])
      /\ p.meets = meets
  BY <1>2 DEF Progress
<1>4. UNCHANGED <<status, nodes, chunks, vectors, saved>>
  BY DEF Start
<1>5. run'[r] = p
  BY <1>2 DEF Start
<1>6. \A q \in Run : q \in meets => run'[q] = [run[q] EXCEPT !.meets = run[q].meets \cup {r}]
  BY <1>2 DEF Start
<1>7. \A q \in Run : q # r /\ q \notin meets => run'[q] = run[q]
  BY DEF Start
<1>8. \A q \in Run : q # r /\ run[q] \in Progress =>
          /\ run'[q] \in Progress
          /\ run'[q].v = run[q].v /\ run'[q].step = run[q].step
          /\ run'[q].wrote = run[q].wrote /\ run'[q].copies = run[q].copies
          /\ run'[q].retires = run[q].retires /\ run'[q].inserts = run[q].inserts
          /\ run'[q].failed = run[q].failed
          /\ run[q].meets \subseteq run'[q].meets
          /\ run'[q].meets \cap Save = run[q].meets \cap Save
          /\ q \in meets => r \in run'[q].meets
  <2> SUFFICES ASSUME NEW q \in Run, q # r, run[q] \in Progress
               PROVE  /\ run'[q] \in Progress
                      /\ run'[q].v = run[q].v /\ run'[q].step = run[q].step
                      /\ run'[q].wrote = run[q].wrote /\ run'[q].copies = run[q].copies
                      /\ run'[q].retires = run[q].retires
                      /\ run'[q].inserts = run[q].inserts /\ run'[q].failed = run[q].failed
                      /\ run[q].meets \subseteq run'[q].meets
                      /\ run'[q].meets \cap Save = run[q].meets \cap Save
                      /\ q \in meets => r \in run'[q].meets
    OBVIOUS
  <2> DEFINE o == [run[q] EXCEPT !.meets = run[q].meets \cup {r}]
  <2>1. /\ o \in Progress /\ o.v = run[q].v /\ o.step = run[q].step
        /\ o.wrote = run[q].wrote /\ o.copies = run[q].copies
        /\ o.retires = run[q].retires /\ o.inserts = run[q].inserts
        /\ o.failed = run[q].failed
        /\ o.meets = run[q].meets \cup {r}
    BY DEF Progress
  <2>2. CASE q \in meets
    <3>1. run'[q] = o
      BY <1>6, <2>2
    <3> HIDE DEF o, meets
    <3> QED
      BY <2>1, <3>1, SavesAreNoRuns
  <2>3. CASE q \notin meets
    <3>1. run'[q] = run[q]
      BY <1>7, <2>3
    <3> HIDE DEF meets
    <3> QED
      BY <2>3, <3>1
  <2> QED
    BY <2>2, <2>3
<1>9. \A q \in Run : q \in meets <=> Active(q) /\ run[q].v = v
  BY DEF Of, Active
<1>10. \A q \in Run : run[q] = None => run'[q] = None
  BY <1>1, <1>2, <1>7, NoneIsNoValue DEF Active, Begun
<1> DEFINE F(q) == CASE q = r -> p
                     [] q \in meets -> [run[q] EXCEPT !.meets = run[q].meets \cup {r}]
                     [] OTHER -> run[q]
<1>11. run' = [q \in Run |-> F(q)]
  BY DEF Start
<1> HIDE DEF p, meets, F
<1>12. TypeOK'
  <2>1. run' = [q \in Run |-> run'[q]]
    BY <1>11
  <2>2. \A q \in Run : run[q] \in Progress \/ run[q] = None
    BY <1>1 DEF TypeOK
  <2>3. \A q \in Run : run'[q] \in Progress \cup {None}
    BY <1>3, <1>5, <1>8, <1>10, <2>2
  <2> QED
    BY <1>1, <1>4, <2>1, <2>3 DEF TypeOK
<1>13. Follows
  BY <1>2, <1>3, <1>5, <1>8 DEF Follows
<1>14. \A q \in Run : Active(q)' /\ q # r => /\ Active(q) /\ run[q] \in Progress
                                            /\ run[q].v \in Version
  <2> SUFFICES ASSUME NEW q \in Run, Active(q)', q # r
               PROVE  Active(q) /\ run[q] \in Progress /\ run[q].v \in Version
    OBVIOUS
  <2>1. run'[q] \in Progress /\ run'[q].step \in Underway
    BY <1>12, ShapesNext DEF Shape
  <2>2. run[q] \in Progress
    BY <1>1, <1>10, <2>1, NoneIsNoValue DEF TypeOK
  <2>3. run[q].step \in Underway /\ run[q].v \in Version
    BY <1>8, <2>1, <2>2 DEF Progress
  <2> QED
    BY <1>1, <2>2, <2>3, Shapes DEF Shape
<1>15. KeepsRetiring
  BY <1>3, <1>5, <1>8, <1>14 DEF KeepsRetiring
<1>16. Meeting'
  <2> SUFFICES ASSUME NEW q \in Run, NEW s \in Run, q # s, Active(q)', Active(s)',
                      run'[q].v = run'[s].v
               PROVE  s \in run'[q].meets
    BY DEF Meeting
  <2>1. CASE q # r /\ s # r
    BY <1>1, <1>8, <1>14, <2>1 DEF Meeting
  <2>2. CASE q = r
    BY <1>3, <1>5, <1>8, <1>9, <1>14, <2>2
  <2>3. CASE s = r
    BY <1>3, <1>5, <1>8, <1>9, <1>14, <2>3
  <2> QED
    BY <2>1, <2>2, <2>3
<1>17. CopiesMeet'
  <2> SUFFICES ASSUME NEW q \in Run, Active(q)', run'[q].wrote,
                      NEW x \in nodes[run'[q].v]
               PROVE  /\ x \in run'[q].meets
                      /\ x \in Run => q \in run'[x].meets
    BY <1>4 DEF CopiesMeet
  <2>1. q # r
    BY <1>3, <1>5
  <2>2. x \in Run => x # r /\ run[x] \in Progress
    BY <1>1, <1>2, <1>8, <1>14, <2>1 DEF WrittenByEnded
  <2> QED
    BY <1>1, <1>8, <1>14, <2>1, <2>2 DEF CopiesMeet
<1>18. KeepsItsCopies'
  <2> SUFFICES ASSUME NEW q \in Run, Active(q)', run'[q].meets \cap Save = {}
               PROVE  /\ run'[q].step # "written" =>
                             run'[q].copies # {} /\ run'[q].copies \subseteq Visible(q)'
                      /\ run'[q].step = "written" => run'[q].failed \/ run'[q].inserts
    BY DEF KeepsItsCopies
  <2>1. CASE q = r
    BY <1>3, <1>4, <1>5, <2>1 DEF Visible
  <2>2. CASE q # r
    BY <1>1, <1>4, <1>8, <1>14, <2>2 DEF KeepsItsCopies, Visible
  <2> QED
    BY <2>1, <2>2
<1>19. KeepsVectors
  BY <1>2, <1>8 DEF KeepsVectors, Vectored, Ended
<1> QED
  BY <1>1, <1>4, <1>12, <1>13, <1>15, <1>16, <1>17, <1>18, <1>19, WrittenKept,
     RetiresKept, VectorsKept, OneGenerationKept, OneCopyKept DEF IInv, IndexInv

LEMMA CrashStep ==
    ASSUME IInv, Crash
    PROVE  IInv' /\ Follows
<1>1. /\ TypeOK /\ Meeting /\ WrittenByEnded /\ RetiresOrMeets /\ CopiesMeet
      /\ KeepsItsCopies /\ VectorsInserted
      /\ OneGenerationUnlessTogether /\ OneCopyUnlessTogether
  BY DEF IInv, IndexInv
<1>2. UNCHANGED <<status, nodes, chunks, vectors, saved>>
  BY DEF Crash
<1>3. \A q \in Run :
          run'[q] = IF Begun(q) /\ run[q].step \notin Ended
                    THEN [run[q] EXCEPT !.step = "lost"] ELSE run[q]
  BY DEF Crash
<1>4. \A q \in Run : run[q] \in Progress =>
          LET p == [run[q] EXCEPT !.step = "lost"]
          IN  /\ p \in Progress /\ p.v = run[q].v /\ p.meets = run[q].meets
              /\ p.step = "lost"
  BY DEF Progress, Ended
<1>5. TypeOK'
  <2>1. run' \in [Run -> Progress \cup {None}]
    <3>1. run' = [q \in Run |-> run'[q]]
      BY DEF Crash
    <3> QED
      BY <1>1, <1>3, <1>4, <3>1, Shapes DEF Shape, TypeOK
  <2> QED
    BY <1>1, <1>2, <2>1 DEF TypeOK
<1>6. Follows
  BY <1>3, <1>4 DEF Follows, Ended
<1>7. \A q \in Run : ~Active(q)'
  <2> SUFFICES ASSUME NEW q \in Run, Active(q)' PROVE FALSE
    OBVIOUS
  <2>1. run'[q] # None /\ run'[q].step \notin Ended
    BY DEF Active, Begun
  <2>2. CASE Begun(q) /\ run[q].step \notin Ended
    BY <1>1, <1>3, <1>4, <2>1, <2>2, Shapes DEF Shape, Ended
  <2>3. CASE ~(Begun(q) /\ run[q].step \notin Ended)
    BY <1>3, <2>1, <2>3 DEF Begun
  <2> QED
    BY <2>2, <2>3
<1>8. NoneStarts /\ KeepsRetiring /\ KeepsCopies /\ NodesGrow
  BY <1>2, <1>7 DEF NoneStarts, KeepsRetiring, KeepsCopies, NodesGrow
<1>9. KeepsVectors
  BY <1>3, <1>4 DEF KeepsVectors, Vectored, Ended
<1> QED
  BY <1>1, <1>2, <1>5, <1>6, <1>8, <1>9, MeetingKept, WrittenKept, RetiresKept,
     CopiesMeetKept, KeepsItsCopiesKept, VectorsKept, OneGenerationKept, OneCopyKept
     DEF IInv, IndexInv

LEMMA CleanupStep ==
    ASSUME IInv, NEW S \in SUBSET Run, Cleanup(S)
    PROVE  IInv' /\ Follows
<1>1. /\ UNCHANGED <<status, nodes, run, vectors, saved>>
      /\ \A g \in Run : chunks'[g] = IF g \in S THEN None ELSE chunks[g]
      /\ \A g \in S : chunks[g] = "retired"
  BY DEF Cleanup
<1>2. TypeOK'
  BY DEF IInv, TypeOK, Cleanup
<1>3. \A g \in Run : /\ chunks'[g] = "current" <=> chunks[g] = "current"
                     /\ chunks'[g] = "retired" => chunks[g] = "retired"
  BY <1>1, NoneIsNoValue
<1>4. \A v : Current(v)' = Current(v)
  BY <1>1, <1>3 DEF Current, Of, Begun
<1>5. /\ Meeting' /\ CopiesMeet' /\ KeepsItsCopies' /\ VectorsInserted'
      /\ OneCopyUnlessTogether'
  BY <1>1 DEF IInv, IndexInv, Meeting, CopiesMeet, KeepsItsCopies, VectorsInserted,
     OneCopyUnlessTogether, Active, Begun, Visible
<1>6. RetiresOrMeets'
  BY <1>1, <1>4 DEF IInv, IndexInv, RetiresOrMeets, Active, Begun
<1>7. WrittenByEnded'
  BY <1>1, <1>3 DEF IInv, IndexInv, WrittenByEnded
<1>8. OneGenerationUnlessTogether'
  BY <1>1, <1>4 DEF IInv, IndexInv, OneGenerationUnlessTogether
<1>9. Follows
  BY <1>1 DEF Follows
<1> QED
  BY <1>2, <1>5, <1>6, <1>7, <1>8, <1>9 DEF IInv, IndexInv

LEMMA InvariantInit == Init => IInv
<1> SUFFICES ASSUME Init PROVE IInv
  OBVIOUS
<1>1. PICK first \in [Version \ Bare -> Save] :
          /\ nodes = [v \in Version |-> IF v \in Bare THEN {} ELSE {first[v]}]
          /\ saved = {first[v] : v \in Version \ Bare}
  BY DEF Init
<1>2. /\ status = [v \in Version |-> "draft"]
      /\ run = [r \in Run |-> None] /\ chunks = [r \in Run |-> None] /\ vectors = {}
  BY DEF Init
<1>3. \A v \in Version : nodes[v] \subseteq Save
  BY <1>1
<1>4. TypeOK
  <2>1. nodes \in [Version -> SUBSET (Run \cup Save)]
    BY <1>1, <1>3
  <2>2. saved \subseteq Save
    BY <1>1
  <2> QED
    BY <1>2, <2>1, <2>2 DEF TypeOK
<1>5. \A r \in Run : ~Active(r) /\ chunks[r] = None
  BY <1>2 DEF Active, Begun
<1>6. \A v \in Version : Current(v) = {} /\ nodes[v] \cap Run = {}
  BY <1>3, <1>5, NoneIsNoValue, SavesAreNoRuns DEF Current, Of
<1>7. WrittenByEnded
  BY <1>5, <1>6, NoneIsNoValue DEF WrittenByEnded
<1> QED
  BY <1>2, <1>4, <1>5, <1>6, <1>7 DEF IInv, IndexInv, Meeting, RetiresOrMeets, CopiesMeet,
     KeepsItsCopies, VectorsInserted, OneGenerationUnlessTogether, OneCopyUnlessTogether

LEMMA InvariantStep == IInv /\ [Next]_vars => IInv' /\ Follows
<1> SUFFICES ASSUME IInv, [Next]_vars PROVE IInv' /\ Follows
  OBVIOUS
<1>1. CASE UNCHANGED vars
  <2>1. IInv'
    BY <1>1 DEF vars, IInv, IndexInv, TypeOK, Meeting, WrittenByEnded, RetiresOrMeets,
       CopiesMeet, KeepsItsCopies, VectorsInserted, OneGenerationUnlessTogether,
       OneCopyUnlessTogether, Active, Begun, Visible, Current, Of
  <2>2. Follows
    BY <1>1 DEF vars, Follows
  <2> QED
    BY <2>1, <2>2
<1>2. CASE Next
  BY <1>2, SaveDraftStep, SubmitStep, StartStep, RetireStep, WriteStep, CommitStep,
     EmbedRaisesStep, RolledBackStep, CrashStep, CleanupStep DEF Next, Goes, Fails
<1> QED
  BY <1>1, <1>2

LEMMA Inductive == Spec => []IInv
BY InvariantInit, InvariantStep, PTL DEF Spec

-----------------------------------------------------------------------------
(* The properties.                                                         *)

(* Versions, node rows, runs, chunks and vectors keep to their types.      *)
THEOREM TypeCorrect == Spec => []TypeOK
<1>1. IInv => TypeOK
  BY DEF IInv
<1> QED
  BY <1>1, Inductive, PTL

(* A version has two current generations of chunks only if the runs that   *)
(* wrote them were under way together, for any number of runs.             *)
THEOREM IndexedOnce == Spec => []OneGenerationUnlessTogether
<1>1. IInv => OneGenerationUnlessTogether
  BY DEF IInv, IndexInv
<1> QED
  BY <1>1, Inductive, PTL

(* A run leaves a second copy of the node rows only if another run or a    *)
(* save wrote one while it was under way.                                  *)
THEOREM CopiedOnce == Spec => []OneCopyUnlessTogether
<1>1. IInv => OneCopyUnlessTogether
  BY DEF IInv, IndexInv
<1> QED
  BY <1>1, Inductive, PTL

-----------------------------------------------------------------------------
(* The index does not lose a version.                                      *)

(* Only a commit retires chunks, and only those of its version.            *)
LEMMA CurrentStays ==
    ASSUME IInv, [Next]_vars, NEW v \in Version,
           \A r \in Run : Commit(r) => run[r].v # v
    PROVE  Current(v) \subseteq Current(v)' /\ vectors \subseteq vectors'
<1>1. IInv' /\ Follows
  BY InvariantStep
<1>2. vectors \subseteq vectors'
  <2>1. CASE UNCHANGED vectors
    BY <2>1
  <2>2. ASSUME NEW r \in Run, NEW vec \in BOOLEAN, NEW ok \in BOOLEAN, Write(r, vec, ok)
        PROVE  vectors \subseteq vectors'
    BY <2>2 DEF Write
  <2> QED
    BY <2>1, <2>2 DEF Next, Goes, Fails, SaveDraft, Publish, Reindex, Start, Retire, Commit,
       EmbedRaises, RolledBack, Crash, Cleanup, vars
<1>3. \A g \in Run : chunks[g] = "current" /\ run[g].v = v => chunks'[g] = "current"
  <2>1. CASE UNCHANGED chunks
    BY <2>1
  <2>2. ASSUME NEW S \in SUBSET Run, Cleanup(S)
        PROVE  \A g \in Run : chunks[g] = "current" => chunks'[g] = "current"
    BY <2>2 DEF Cleanup
  <2>3. ASSUME NEW r \in Run, Commit(r)
        PROVE  \A g \in Run : chunks[g] = "current" /\ run[g].v = v => chunks'[g] = "current"
    <3>1. Active(r) /\ run[r].step = "written" /\ run[r] \in Progress
      BY <2>3, Shapes DEF Commit, At, IInv, Shape, Underway
    <3>2. \A g \in run[r].retires : run[g].v # v
      BY <2>3, <3>1 DEF IInv, IndexInv, RetiresOrMeets
    <3>3. \A g \in Run : g \notin run[r].retires /\ chunks[g] = "current" => chunks'[g] = "current"
      BY <2>3 DEF Commit
    <3> QED
      BY <3>2, <3>3
  <2> QED
    BY <2>1, <2>2, <2>3 DEF Next, Goes, Fails, SaveDraft, Publish, Reindex, Start, Retire,
       Write, EmbedRaises, RolledBack, Crash, vars
<1>4. \A g \in Current(v) : /\ g \in Run /\ chunks[g] = "current" /\ run[g].v = v
                            /\ run'[g] \in Progress /\ run'[g].v = v
  BY <1>1 DEF Current, Of, IInv, IndexInv, WrittenByEnded, Follows
<1>5. \A g \in Current(v) : Begun(g)'
  BY <1>1, <1>4, ShapesNext DEF IInv, Shape
<1> QED
  BY <1>2, <1>3, <1>4, <1>5 DEF Current, Of

(* The commit of a run that inserts leaves its chunks current, and the run *)
(* inserts if it has vectors, or if nothing failed and no save fell into   *)
(* it.                                                                     *)
LEMMA CommitInserts ==
    ASSUME IInv, NEW r \in Run, Commit(r), NEW v \in Version, run[r].v = v
    PROVE  /\ Begun(r) /\ At(r, "written") /\ ~At(r, "written")'
           /\ UNCHANGED vectors
           /\ run[r].inserts => r \in Current(v)'
           /\ ~run[r].failed /\ run[r].meets \cap Save = {} => run[r].inserts
           /\ r \in vectors => run[r].inserts
<1>1. Active(r) /\ run[r].step = "written" /\ run[r] \in Progress /\ Begun(r)
  BY Shapes DEF Commit, At, IInv, Shape, Underway
<1>2. run'[r] = [run[r] EXCEPT !.step = "indexed"]
  BY DEF Commit, Set, IInv, TypeOK
<1>3. run'[r] \in Progress /\ run'[r].step = "indexed" /\ run'[r].v = run[r].v
  BY <1>1, <1>2 DEF Progress, Ended
<1>4. r \notin run[r].retires
  BY <1>1 DEF IInv, IndexInv, RetiresOrMeets
<1>5. run[r].inserts => chunks'[r] = "current"
  BY <1>4 DEF Commit
<1>6. /\ ~run[r].failed /\ run[r].meets \cap Save = {} => run[r].inserts
      /\ r \in vectors => run[r].inserts
  BY <1>1 DEF IInv, IndexInv, KeepsItsCopies, VectorsInserted, Vectored
<1>7. Begun(r)'
  BY <1>3, NoneIsNoValue DEF Begun
<1>8. run[r].inserts => r \in Current(v)'
  BY <1>3, <1>5, <1>7 DEF Current, Of
<1> QED
  BY <1>1, <1>3, <1>6, <1>8 DEF Commit, At

(* A published version that has chunks has some after every step, unless   *)
(* it is the commit of a run that inserted nothing, each of its INSERTs    *)
(* having failed or the draft having been saved while it was under way.    *)
THEOREM ChunksAreKept == Spec => ChunksStay
<1> DEFINE Kept(v) ==
      status[v] # "draft" /\ Current(v) # {} /\ Current(v)' = {} =>
        \E r \in Of(v) : /\ At(r, "written") /\ ~run[r].inserts
                         /\ run[r].failed \/ run[r].meets \cap Save # {}
<1>1. ASSUME IInv, [Next]_vars, NEW v \in Version PROVE Kept(v)
  <2>1. CASE \A r \in Run : Commit(r) => run[r].v # v
    BY <1>1, <2>1, CurrentStays
  <2>2. ASSUME NEW r \in Run, Commit(r), run[r].v = v PROVE Kept(v)
    BY <1>1, <2>2, CommitInserts DEF Of
  <2> QED
    BY <2>1, <2>2
<1>2. IInv /\ [Next]_vars => [\A v \in Version : Kept(v)]_vars
  BY <1>1
<1> QED
  BY <1>2, Inductive, PTL DEF Spec, ChunksStay

(* A version that can be found by its vectors can be found after every     *)
(* step, unless it is the commit of a run that got no vectors.             *)
THEOREM SearchIsKept == Spec => SearchStays
<1> DEFINE Kept(v) ==
      status[v] # "draft" /\ Searchable(v) /\ ~Searchable(v)' =>
        \E r \in Of(v) \ vectors : At(r, "written") /\ ~At(r, "written")'
<1>1. ASSUME IInv, [Next]_vars, NEW v \in Version PROVE Kept(v)
  <2>1. CASE \A r \in Run : Commit(r) => run[r].v # v
    BY <1>1, <2>1, CurrentStays DEF Searchable
  <2>2. ASSUME NEW r \in Run, Commit(r), run[r].v = v PROVE Kept(v)
    <3>1. r \in Of(v) /\ At(r, "written") /\ ~At(r, "written")'
      BY <1>1, <2>2, CommitInserts DEF Of
    <3>2. r \in vectors => Searchable(v)'
      BY <1>1, <2>2, CommitInserts DEF Searchable
    <3> QED
      BY <3>1, <3>2
  <2> QED
    BY <2>1, <2>2
<1>2. IInv /\ [Next]_vars => [\A v \in Version : Kept(v)]_vars
  BY <1>1
<1> QED
  BY <1>2, Inductive, PTL DEF Spec, SearchStays
=============================================================================
