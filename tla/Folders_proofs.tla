--------------------------- MODULE Folders_proofs ---------------------------
(***************************************************************************)
(* The folder tree, for any number of folders, names, clients and levels.  *)
(***************************************************************************)
EXTENDS Folders, TLAPS, SequenceTheorems, WellFoundedInduction

-----------------------------------------------------------------------------
(* Numbers and paths.                                                      *)

(* A set of numbers has a least one.                                       *)
LEMMA LeastNumber ==
    ASSUME NEW T, T \subseteq Nat, T # {}
    PROVE  \E x \in T : \A y \in T : x <= y
<1> DEFINE Less == { pair \in Nat \X Nat : pair[1] < pair[2] }
<1>1. IsWellFoundedOn(Less, Nat)
  BY NatLessThanWellFounded DEF OpToRel
<1>2. \A x, y \in Nat : y < x => <<y, x>> \in Less
  OBVIOUS
<1> HIDE DEF Less
<1>3. PICK x \in T : \A y \in T : ~(<<y, x>> \in Less)
  BY <1>1, WFMin
<1>4. \A y \in T : ~(y < x)
  BY <1>2, <1>3
<1> QED
  BY <1>3, <1>4

(* A prefix, read name by name.                                            *)
LEMMA PrefixNames ==
    ASSUME NEW p \in Seq(Name), NEW q \in Seq(Name)
    PROVE  IsPrefix(p, q) <=> /\ Len(p) <= Len(q)
                              /\ \A i \in 1..Len(p) : p[i] = q[i]
<1>1. Len(p) \in Nat /\ Len(q) \in Nat
  BY LenProperties
<1>2. SubSeq(p, 1, Len(p)) = p
  BY SubSeqFull
<1>3. ASSUME Len(p) <= Len(q)
      PROVE  /\ SubSeq(q, 1, Len(p)) \in Seq(Name)
             /\ Len(SubSeq(q, 1, Len(p))) = Len(p)
             /\ \A i \in 1..Len(p) : SubSeq(q, 1, Len(p))[i] = q[i]
  <2>1. \A i \in 1..Len(p) : q[i] \in Name
    BY <1>1, <1>3, ElementOfSeq
  <2> QED
    BY <1>1, <2>1, SubSeqProperties
<1>4. ASSUME Len(p) <= Len(q), \A i \in 1..Len(p) : p[i] = q[i]
      PROVE  p = SubSeq(q, 1, Len(p))
  BY <1>3, <1>4, SeqEqual
<1> QED
  BY <1>2, <1>3, <1>4 DEF IsPrefix

(* What is left of a path after its first k names.                         *)
LEMMA RestNames ==
    ASSUME NEW q \in Seq(Name), NEW k \in 0..Len(q)
    PROVE  /\ SubSeq(q, k + 1, Len(q)) \in Seq(Name)
           /\ Len(SubSeq(q, k + 1, Len(q))) = Len(q) - k
           /\ \A i \in 1..(Len(q) - k) : SubSeq(q, k + 1, Len(q))[i] = q[k + i]
<1>1. Len(q) \in Nat /\ k \in Nat
  BY LenProperties
<1> DEFINE m == k + 1
           n == Len(q)
<1>2. m \in Int /\ n \in Int /\ m = k + 1 /\ n = Len(q)
  BY <1>1
<1> HIDE DEF m, n
<1>3. ASSUME NEW i \in m..n PROVE q[i] \in Name
  <2>1. i \in 1..Len(q)
    BY <1>1, <1>2
  <2> QED
    BY <2>1, ElementOfSeq
<1>4. /\ SubSeq(q, m, n) \in Seq(Name)
      /\ Len(SubSeq(q, m, n)) = IF m <= n THEN n - m + 1 ELSE 0
      /\ \A i \in 1..(n - m + 1) : SubSeq(q, m, n)[i] = q[m + i - 1]
  BY <1>2, <1>3, SubSeqProperties
<1>5. Len(SubSeq(q, m, n)) = Len(q) - k
  BY <1>1, <1>2, <1>4
<1>6. \A i \in 1..(Len(q) - k) : i \in 1..(n - m + 1) /\ m + i - 1 = k + i
  BY <1>1, <1>2
<1>7. \A i \in 1..(Len(q) - k) : SubSeq(q, m, n)[i] = q[k + i]
  BY <1>4, <1>6
<1> QED
  BY <1>4, <1>5, <1>7 DEF m, n

(* The first k names of a path.                                            *)
LEMMA FirstNames ==
    ASSUME NEW q \in Seq(Name), NEW k \in 0..Len(q)
    PROVE  /\ SubSeq(q, 1, k) \in Seq(Name)
           /\ Len(SubSeq(q, 1, k)) = k
           /\ \A i \in 1..k : SubSeq(q, 1, k)[i] = q[i]
<1>1. Len(q) \in Nat
  BY LenProperties
<1>2. \A i \in 1..k : q[i] \in Name
  BY <1>1, ElementOfSeq
<1> QED
  BY <1>1, <1>2, SubSeqProperties

(* The path q with its first k names replaced: what a write to a subtree   *)
(* makes of the path of each row in it.                                    *)
Regrafted(q, k, new) == new \o SubSeq(q, k + 1, Len(q))

LEMMA RegraftedTyping ==
    ASSUME NEW q \in Seq(Name), NEW k \in 0..Len(q), NEW new \in Seq(Name)
    PROVE  /\ Regrafted(q, k, new) \in Seq(Name)
           /\ Len(Regrafted(q, k, new)) = Len(new) + (Len(q) - k)
<1> DEFINE rest == SubSeq(q, k + 1, Len(q))
<1>1. rest \in Seq(Name) /\ Len(rest) = Len(q) - k
  BY RestNames
<1> HIDE DEF rest
<1>2. new \o rest \in Seq(Name) /\ Len(new \o rest) = Len(new) + Len(rest)
  BY <1>1, ConcatProperties
<1> QED
  BY <1>1, <1>2 DEF Regrafted, rest

(* Nothing follows the name of the row that moves.                         *)
LEMMA RegraftedTop ==
    ASSUME NEW q \in Seq(Name), NEW new \in Seq(Name)
    PROVE  Regrafted(q, Len(q), new) = new
<1>1. Len(q) \in Nat
  BY LenProperties
<1>2. SubSeq(q, Len(q) + 1, Len(q)) = <<>>
  BY <1>1, SubSeqEmpty
<1> QED
  BY <1>2, ConcatEmptySeq DEF Regrafted

(* A child stays the child of its parent.                                  *)
LEMMA RegraftedChild ==
    ASSUME NEW q \in Seq(Name), NEW k \in 0..Len(q), NEW new \in Seq(Name), NEW n \in Name
    PROVE  Regrafted(Append(q, n), k, new) = Append(Regrafted(q, k, new), n)
<1> DEFINE a == Append(q, n)
           rest == SubSeq(q, k + 1, Len(q))
           restA == SubSeq(a, k + 1, Len(a))
<1>1. Len(q) \in Nat
  BY LenProperties
<1>2. /\ a \in Seq(Name) /\ Len(a) = Len(q) + 1
      /\ \A i \in 1..Len(q) : a[i] = q[i]
      /\ a[Len(q) + 1] = n
  BY AppendProperties
<1> HIDE DEF a
<1>3. /\ rest \in Seq(Name) /\ Len(rest) = Len(q) - k
      /\ \A i \in 1..(Len(q) - k) : rest[i] = q[k + i]
  BY RestNames
<1>4. /\ restA \in Seq(Name) /\ Len(restA) = Len(q) + 1 - k
      /\ \A i \in 1..(Len(q) + 1 - k) : restA[i] = a[k + i]
  <2>1. k \in 0..Len(a)
    BY <1>1, <1>2
  <2> QED
    BY <1>2, <2>1, RestNames
<1> HIDE DEF rest, restA
<1>5. /\ Append(rest, n) \in Seq(Name) /\ Len(Append(rest, n)) = Len(rest) + 1
      /\ \A i \in 1..Len(rest) : Append(rest, n)[i] = rest[i]
      /\ Append(rest, n)[Len(rest) + 1] = n
  BY <1>3, AppendProperties
<1>6. restA = Append(rest, n)
  <2>1. Len(restA) = Len(Append(rest, n))
    BY <1>1, <1>3, <1>4, <1>5
  <2>2. ASSUME NEW i \in 1..Len(restA) PROVE restA[i] = Append(rest, n)[i]
    <3>1. CASE i = Len(q) + 1 - k
      BY <1>1, <1>2, <1>3, <1>4, <1>5, <3>1
    <3>2. CASE i # Len(q) + 1 - k
      <4>1. i \in 1..(Len(q) - k) /\ k + i \in 1..Len(q)
        BY <1>1, <1>4, <3>2
      <4> QED
        BY <1>2, <1>3, <1>4, <1>5, <4>1
    <3> QED
      BY <3>1, <3>2
  <2> QED
    BY <1>4, <1>5, <2>1, <2>2, SeqEqual
<1>7. new \o Append(rest, n) = Append(new \o rest, n)
  <2>1. Append(rest, n) = rest \o <<n>> /\ new \o rest \in Seq(Name) /\ <<n>> \in Seq(Name)
    BY <1>3, AppendIsConcat, ConcatProperties
  <2>2. Append(new \o rest, n) = (new \o rest) \o <<n>>
    BY <2>1, AppendIsConcat
  <2>3. (new \o rest) \o <<n>> = new \o (rest \o <<n>>)
    BY <1>3, <2>1, ConcatAssociative, SMTT(30)
  <2> QED
    BY <2>1, <2>2, <2>3
<1> QED
  BY <1>6, <1>7 DEF Regrafted, a, rest, restA

(* A child is below what its parent is below, and below itself.            *)
LEMMA ChildIsBelow ==
    ASSUME NEW p \in Seq(Name), NEW q \in Seq(Name), NEW n \in Name
    PROVE  IsPrefix(p, Append(q, n)) <=> IsPrefix(p, q) \/ p = Append(q, n)
<1> DEFINE a == Append(q, n)
<1>1. Len(p) \in Nat /\ Len(q) \in Nat
  BY LenProperties
<1>2. /\ a \in Seq(Name) /\ Len(a) = Len(q) + 1
      /\ \A i \in 1..Len(q) : a[i] = q[i]
  BY AppendProperties
<1> HIDE DEF a
<1>3. /\ IsPrefix(p, a) <=> Len(p) <= Len(a) /\ \A i \in 1..Len(p) : p[i] = a[i]
      /\ IsPrefix(p, q) <=> Len(p) <= Len(q) /\ \A i \in 1..Len(p) : p[i] = q[i]
  BY <1>2, PrefixNames
<1>4. CASE Len(p) <= Len(q)
  <2>1. p # a
    BY <1>1, <1>2, <1>4
  <2>2. \A i \in 1..Len(p) : a[i] = q[i]
    BY <1>1, <1>2, <1>4
  <2> QED
    BY <1>1, <1>2, <1>3, <1>4, <2>1, <2>2 DEF a
<1>5. CASE Len(p) > Len(q)
  <2>1. ~IsPrefix(p, q)
    BY <1>1, <1>3, <1>5
  <2>2. IsPrefix(p, a) => p = a
    <3> SUFFICES ASSUME IsPrefix(p, a) PROVE p = a
      OBVIOUS
    <3>1. Len(p) = Len(a) /\ \A i \in 1..Len(p) : p[i] = a[i]
      BY <1>1, <1>2, <1>3, <1>5
    <3> QED
      BY <1>2, <3>1, SeqEqual
  <2>3. p = a => IsPrefix(p, a)
    BY <1>1, <1>2, <1>3
  <2> QED
    BY <2>1, <2>2, <2>3 DEF a
<1> QED
  BY <1>1, <1>4, <1>5

LEMMA FrontOfChild ==
    ASSUME NEW q \in Seq(Name), NEW n \in Name
    PROVE  Front(Append(q, n)) = q
<1> DEFINE a == Append(q, n)
<1>1. Len(q) \in Nat
  BY LenProperties
<1>2. /\ a \in Seq(Name) /\ Len(a) = Len(q) + 1
      /\ \A i \in 1..Len(q) : a[i] = q[i]
  BY AppendProperties
<1> HIDE DEF a
<1>3. Len(q) \in 0..Len(a) /\ Len(a) - 1 = Len(q)
  BY <1>1, <1>2
<1>4. /\ SubSeq(a, 1, Len(q)) \in Seq(Name) /\ Len(SubSeq(a, 1, Len(q))) = Len(q)
      /\ \A i \in 1..Len(q) : SubSeq(a, 1, Len(q))[i] = a[i]
  BY <1>2, <1>3, FirstNames
<1>5. SubSeq(a, 1, Len(q)) = q
  BY <1>2, <1>4, SeqEqual
<1> QED
  BY <1>3, <1>5 DEF Front, a

-----------------------------------------------------------------------------
(* The shape of the rows and of what a request remembers.                  *)

(* A row before the table has looked at its depth.                         *)
Draft == [parent : Folder \cup {Root}, name : Name, path : Seq(Name), depth : Int]

(* Every row has a path of its own and a parent that is there.             *)
RowsInv ==
  /\ \A f \in Live : tree[f].path # <<>> /\ tree[f].parent \in Live \cup {Root}
  /\ \A f, g \in Live : tree[f].path = tree[g].path => f = g

(* The paths a request remembers are not empty.                            *)
PathsGiven(r) ==
  /\ r.op \in {"create", "rename", "move"} => r.path # <<>>
  /\ r.op \in {"rename", "move"} => r.old # <<>>

ShapeInv ==
  /\ TypeOK
  /\ RowsInv
  /\ \A c \in Client : pending[c] # Idle => PathsGiven(pending[c])

(* What an unfinished request looks like, by its kind.                     *)
LEMMA RequestKinds ==
    ASSUME NEW r \in Requests
    PROVE  /\ r.late \in BOOLEAN
           /\ r.op \in {"create", "rename", "move", "delete", "place"}
           /\ r.op = "create" =>
                r \in [op : {"create"}, parent : Folder \cup {Root}, name : Name,
                       path : Seq(Name), depth : Nat, late : BOOLEAN]
           /\ r.op = "rename" =>
                r \in [op : {"rename"}, f : Folder, name : Name, old : Seq(Name),
                       path : Seq(Name), late : BOOLEAN]
           /\ r.op = "move" =>
                r \in [op : {"move"}, f : Folder, parent : Folder \cup {Root},
                       old : Seq(Name), path : Seq(Name), depth : Nat, from : Nat,
                       late : BOOLEAN]
           /\ r.op = "delete" => r \in [op : {"delete"}, f : Folder, late : BOOLEAN]
           /\ r.op = "place" =>
                r \in [op : {"place"}, d : Doc, f : Folder \cup {Root}, late : BOOLEAN]
BY DEF Requests

(* A request another write has overtaken is the same request, late.        *)
LEMMA LateTyping ==
    ASSUME NEW r \in Requests, PathsGiven(r)
    PROVE  /\ [r EXCEPT !.late = TRUE] \in Requests
           /\ [r EXCEPT !.late = TRUE].late = TRUE
           /\ PathsGiven([r EXCEPT !.late = TRUE])
<1>1. CASE r.op = "create"
  <2>1. r \in [op : {"create"}, parent : Folder \cup {Root}, name : Name,
               path : Seq(Name), depth : Nat, late : BOOLEAN]
    BY <1>1, RequestKinds
  <2>2. PICK l : l = [r EXCEPT !.late = TRUE]
    OBVIOUS
  <2>3. /\ l \in [op : {"create"}, parent : Folder \cup {Root}, name : Name,
                  path : Seq(Name), depth : Nat, late : BOOLEAN]
        /\ l.op = r.op /\ l.path = r.path /\ l.late = TRUE
    BY <2>1, <2>2
  <2> QED
    BY <1>1, <2>2, <2>3 DEF Requests, PathsGiven
<1>2. CASE r.op = "rename"
  <2>1. r \in [op : {"rename"}, f : Folder, name : Name, old : Seq(Name),
               path : Seq(Name), late : BOOLEAN]
    BY <1>2, RequestKinds
  <2>2. PICK l : l = [r EXCEPT !.late = TRUE]
    OBVIOUS
  <2>3. /\ l \in [op : {"rename"}, f : Folder, name : Name, old : Seq(Name),
                  path : Seq(Name), late : BOOLEAN]
        /\ l.op = r.op /\ l.path = r.path /\ l.old = r.old /\ l.late = TRUE
    BY <2>1, <2>2
  <2> QED
    BY <1>2, <2>2, <2>3 DEF Requests, PathsGiven
<1>3. CASE r.op = "move"
  <2>1. r \in [op : {"move"}, f : Folder, parent : Folder \cup {Root}, old : Seq(Name),
               path : Seq(Name), depth : Nat, from : Nat, late : BOOLEAN]
    BY <1>3, RequestKinds
  <2>2. PICK l : l = [r EXCEPT !.late = TRUE]
    OBVIOUS
  <2>3. /\ l \in [op : {"move"}, f : Folder, parent : Folder \cup {Root}, old : Seq(Name),
                  path : Seq(Name), depth : Nat, from : Nat, late : BOOLEAN]
        /\ l.op = r.op /\ l.path = r.path /\ l.old = r.old /\ l.late = TRUE
    BY <2>1, <2>2
  <2> QED
    BY <1>3, <2>2, <2>3 DEF Requests, PathsGiven
<1>4. CASE r.op \in {"delete", "place"}
  <2>1. \/ r \in [op : {"delete"}, f : Folder, late : BOOLEAN]
        \/ r \in [op : {"place"}, d : Doc, f : Folder \cup {Root}, late : BOOLEAN]
    BY <1>4, RequestKinds
  <2>2. PICK l : l = [r EXCEPT !.late = TRUE]
    OBVIOUS
  <2>3. /\ \/ l \in [op : {"delete"}, f : Folder, late : BOOLEAN]
           \/ l \in [op : {"place"}, d : Doc, f : Folder \cup {Root}, late : BOOLEAN]
        /\ l.op = r.op /\ l.late = TRUE
    BY <2>1, <2>2
  <2> QED
    BY <1>4, <2>2, <2>3 DEF Requests, PathsGiven
<1> QED
  BY <1>1, <1>2, <1>3, <1>4, RequestKinds

(* The reads of a request that is well shaped leave the shape as it was.   *)
LEMMA BeginShape ==
    ASSUME ShapeInv, NEW c \in Client, NEW r \in Requests, PathsGiven(r), Begin(c, r)
    PROVE  ShapeInv'
<1>1. pending' \in [Client -> Requests \cup {Idle}]
  BY DEF ShapeInv, TypeOK, Begin
<1>2. \A k \in Client : pending'[k] = IF k = c THEN r ELSE pending[k]
  BY DEF ShapeInv, TypeOK, Begin
<1>3. \A k \in Client : pending'[k] # Idle => PathsGiven(pending'[k])
  BY <1>2 DEF ShapeInv
<1> QED
  BY <1>1, <1>3 DEF ShapeInv, TypeOK, RowsInv, Begin, Live

(* What the end of a request leaves of the others.                         *)
LEMMA FinishOthers ==
    ASSUME ShapeInv, NEW c \in Client, NEW t, NEW pl, Finish(c, t, pl)
    PROVE  /\ pending' \in [Client -> Requests \cup {Idle}]
           /\ \A k \in Client : pending'[k] # Idle =>
                /\ PathsGiven(pending'[k])
                /\ pending[k] # Idle
                /\ Accepted(t, pl) => pending'[k].late = TRUE
                /\ ~Accepted(t, pl) => pending'[k] = pending[k]
           /\ tree' = IF Accepted(t, pl) THEN t ELSE tree
           /\ placed' = IF Accepted(t, pl) THEN pl ELSE placed
           /\ overlapped' = (overlapped \/ (Accepted(t, pl) /\ pending[c].late))
           /\ stranded' = (stranded \/ (Accepted(t, pl) /\ Strands(pending[c])))
<1> DEFINE ok == Accepted(t, pl)
<1>1. /\ pending' = [k \in Client |->
                       IF k = c THEN Idle
                       ELSE IF ok /\ pending[k] # Idle
                            THEN [pending[k] EXCEPT !.late = TRUE]
                            ELSE pending[k]]
      /\ tree' = IF ok THEN t ELSE tree
      /\ placed' = IF ok THEN pl ELSE placed
      /\ overlapped' = (overlapped \/ (ok /\ pending[c].late))
      /\ stranded' = (stranded \/ (ok /\ Strands(pending[c])))
  BY DEF Finish
<1> HIDE DEF ok
<1>2. ASSUME NEW k \in Client, pending[k] # Idle
      PROVE  /\ [pending[k] EXCEPT !.late = TRUE] \in Requests
             /\ [pending[k] EXCEPT !.late = TRUE].late = TRUE
             /\ PathsGiven([pending[k] EXCEPT !.late = TRUE])
             /\ PathsGiven(pending[k])
  <2>1. pending[k] \in Requests /\ PathsGiven(pending[k])
    BY <1>2 DEF ShapeInv, TypeOK
  <2> QED
    BY <2>1, LateTyping
<1>3. ASSUME NEW k \in Client
      PROVE  /\ pending'[k] \in Requests \cup {Idle}
             /\ pending'[k] # Idle =>
                  /\ PathsGiven(pending'[k])
                  /\ pending[k] # Idle
                  /\ ok => pending'[k].late = TRUE
                  /\ ~ok => pending'[k] = pending[k]
  <2> DEFINE l == [pending[k] EXCEPT !.late = TRUE]
  <2>1. pending'[k] = IF k = c THEN Idle
                      ELSE IF ok /\ pending[k] # Idle THEN l ELSE pending[k]
    BY <1>1
  <2>2. pending[k] \in Requests \cup {Idle}
    BY DEF ShapeInv, TypeOK
  <2>3. pending[k] # Idle => /\ l \in Requests /\ l.late = TRUE
                             /\ PathsGiven(l) /\ PathsGiven(pending[k])
    BY <1>2
  <2> HIDE DEF l
  <2> QED
    BY <2>1, <2>2, <2>3
<1>4. pending' \in [Client -> Requests \cup {Idle}]
  BY <1>1, <1>3
<1> QED
  BY <1>1, <1>3, <1>4 DEF ok

(* A write of rows that are well shaped leaves the shape, taken or not.    *)
LEMMA FinishShape ==
    ASSUME ShapeInv, NEW c \in Client, NEW t, NEW pl, Finish(c, t, pl),
           pl \in [Doc -> Folder \cup {Root}],
           pending[c] # Idle,
           DOMAIN t \subseteq Folder,
           \A g \in DOMAIN t : t[g] \in Draft /\ t[g].path # <<>>
    PROVE  ShapeInv'
<1>1. /\ pending' \in [Client -> Requests \cup {Idle}]
      /\ \A k \in Client : pending'[k] # Idle => PathsGiven(pending'[k])
      /\ tree' = IF Accepted(t, pl) THEN t ELSE tree
      /\ placed' = IF Accepted(t, pl) THEN pl ELSE placed
      /\ overlapped' = (overlapped \/ (Accepted(t, pl) /\ pending[c].late))
      /\ stranded' = (stranded \/ (Accepted(t, pl) /\ Strands(pending[c])))
  BY FinishOthers
<1>2. overlapped' \in BOOLEAN /\ stranded' \in BOOLEAN
  BY <1>1
<1>3. CASE Accepted(t, pl)
  <2>1. \A g \in DOMAIN t : t[g] \in Row
    BY <1>3 DEF Accepted, Draft, Row
  <2> QED
    BY <1>1, <1>2, <1>3, <2>1 DEF ShapeInv, TypeOK, RowsInv, Accepted, Live
<1>4. CASE ~Accepted(t, pl)
  BY <1>1, <1>2, <1>4 DEF ShapeInv, TypeOK, RowsInv, Live
<1> QED
  BY <1>3, <1>4

(* What is left of a row's path after a pattern, put behind a new one.     *)
LEMMA RebaseTyping ==
    ASSUME NEW q \in Seq(Name), NEW p \in Seq(Name), p # <<>>, NEW new \in Seq(Name),
           new # <<>>, Like(q, p)
    PROVE  Rebase(q, p, new) \in Seq(Name) /\ Rebase(q, p, new) # <<>>
<1> DEFINE k == Len(p)
           left == IF q[k] = p[k] THEN <<>> ELSE Left[<<p[k], q[k]>>]
           rest == SubSeq(q, k + 1, Len(q))
<1>0. Len(p) \in Nat \ {0} /\ Len(new) \in Nat \ {0} /\ Len(q) \in Nat
  BY EmptySeq, LenProperties
<1>1. k \in 1..Len(p) /\ k \in 0..Len(q) /\ Len(new) > 0
  <2>1. Len(q) >= Len(p)
    BY DEF Like
  <2> QED
    BY <1>0, <2>1
<1>2. left \in Seq(Name)
  <2>1. q[k] # p[k] => <<p[k], q[k]>> \in DOMAIN Left
    BY <1>1 DEF Like
  <2>2. <<>> \in Seq(Name)
    BY EmptySeq
  <2> QED
    BY <2>1, <2>2, LeftIsNames
<1>3. rest \in Seq(Name)
  BY <1>1, RestNames
<1> HIDE DEF left, rest
<1>4. new \o left \in Seq(Name) /\ Len(new \o left) = Len(new) + Len(left)
      /\ Len(left) \in Nat /\ Len(rest) \in Nat
  BY <1>2, <1>3, ConcatProperties, LenProperties
<1>5. (new \o left) \o rest \in Seq(Name)
      /\ Len((new \o left) \o rest) = Len(new \o left) + Len(rest)
  BY <1>3, <1>4, ConcatProperties
<1>6. Rebase(q, p, new) = (new \o left) \o rest
  BY DEF Rebase, left, rest
<1> QED
  BY <1>1, <1>4, <1>5, <1>6, EmptySeq

(* The update of a row a rename makes.                                     *)
LEMMA RowRenamed ==
    ASSUME NEW row \in Row, NEW n, NEW new
    PROVE  [row EXCEPT !.name = n, !.path = new] =
             [parent |-> row.parent, name |-> n, path |-> new, depth |-> row.depth]
<1>1. PICK a : a = [row EXCEPT !.name = n]
  OBVIOUS
<1>2. a = [parent |-> row.parent, name |-> n, path |-> row.path, depth |-> row.depth]
  BY <1>1 DEF Row
<1>3. [row EXCEPT !.name = n, !.path = new] = [a EXCEPT !.path = new]
  BY <1>1, Zenon
<1>4. [a EXCEPT !.path = new] =
         [parent |-> row.parent, name |-> n, path |-> new, depth |-> row.depth]
  BY <1>2
<1> QED
  BY <1>3, <1>4, Zenon

(* What a rename writes when its folder is there.                          *)
Renamed(r) ==
  [g \in Live |->
     IF g = r.f THEN [tree[g] EXCEPT !.name = r.name, !.path = r.path]
     ELSE IF Like(tree[g].path, r.old)
          THEN [tree[g] EXCEPT !.path = Rebase(@, r.old, r.path)]
          ELSE tree[g]]

LEMMA RenamedRows ==
    ASSUME ShapeInv, NEW r \in Requests, r.op = "rename", PathsGiven(r)
    PROVE  /\ DOMAIN Renamed(r) = Live
           /\ \A g \in Live :
                /\ Renamed(r)[g] \in Draft /\ Renamed(r)[g].path # <<>>
                /\ Renamed(r)[g].parent = tree[g].parent
                /\ Renamed(r)[g].depth = tree[g].depth
                /\ Renamed(r)[g].name = IF g = r.f THEN r.name ELSE tree[g].name
                /\ Renamed(r)[g].path = IF g = r.f THEN r.path
                                        ELSE IF Like(tree[g].path, r.old)
                                             THEN Rebase(tree[g].path, r.old, r.path)
                                             ELSE tree[g].path
<1>1. DOMAIN Renamed(r) = Live
  BY DEF Renamed
<1>2. r.name \in Name /\ r.path \in Seq(Name) /\ r.old \in Seq(Name)
      /\ r.path # <<>> /\ r.old # <<>>
  BY RequestKinds DEF PathsGiven
<1> SUFFICES ASSUME NEW g \in Live
             PROVE  /\ Renamed(r)[g] \in Draft /\ Renamed(r)[g].path # <<>>
                    /\ Renamed(r)[g].parent = tree[g].parent
                    /\ Renamed(r)[g].depth = tree[g].depth
                    /\ Renamed(r)[g].name = IF g = r.f THEN r.name ELSE tree[g].name
                    /\ Renamed(r)[g].path = IF g = r.f THEN r.path
                                            ELSE IF Like(tree[g].path, r.old)
                                                 THEN Rebase(tree[g].path, r.old, r.path)
                                                 ELSE tree[g].path
  BY <1>1
<1>3. tree[g] \in Row /\ tree[g].path # <<>> /\ tree[g].path \in Seq(Name)
  BY DEF ShapeInv, TypeOK, RowsInv, Row
<1>4. CASE g = r.f
  <2>1. PICK n, new : n = r.name /\ new = r.path
    OBVIOUS
  <2>2. Renamed(r)[g] = [tree[g] EXCEPT !.name = n, !.path = new]
    BY <1>4, <2>1 DEF Renamed
  <2>3. n \in Name /\ new \in Seq(Name) /\ new # <<>>
    BY <1>2, <2>1
  <2>6. PICK row \in Row : row = tree[g]
    BY <1>3
  <2>7. [row EXCEPT !.name = n, !.path = new] =
          [parent |-> row.parent, name |-> n, path |-> new, depth |-> row.depth]
    BY RowRenamed, Zenon
  <2>8. Renamed(r)[g] = [row EXCEPT !.name = n, !.path = new]
    BY <2>2, <2>6, Zenon
  <2>5. Renamed(r)[g] = [parent |-> tree[g].parent, name |-> n, path |-> new,
                         depth |-> tree[g].depth]
    BY <2>6, <2>7, <2>8, Zenon
  <2>4. /\ Renamed(r)[g] \in Draft /\ Renamed(r)[g].path = new
        /\ Renamed(r)[g].parent = tree[g].parent
        /\ Renamed(r)[g].depth = tree[g].depth
        /\ Renamed(r)[g].name = n
    BY <1>3, <2>3, <2>5 DEF Row, Draft
  <2> QED
    BY <1>4, <2>1, <2>3, <2>4
<1>5. CASE g # r.f /\ Like(tree[g].path, r.old)
  <2>1. PICK new : new = Rebase(tree[g].path, r.old, r.path)
    OBVIOUS
  <2>2. Renamed(r)[g] = [tree[g] EXCEPT !.path = new]
    BY <1>5, <2>1 DEF Renamed
  <2>3. new \in Seq(Name) /\ new # <<>>
    BY <1>2, <1>3, <1>5, <2>1, RebaseTyping
  <2>4. /\ Renamed(r)[g] \in Draft /\ Renamed(r)[g].path = new
        /\ Renamed(r)[g].parent = tree[g].parent
        /\ Renamed(r)[g].depth = tree[g].depth
        /\ Renamed(r)[g].name = tree[g].name
    BY <1>3, <2>2, <2>3 DEF Row, Draft
  <2> QED
    BY <1>5, <2>1, <2>3, <2>4
<1>6. CASE g # r.f /\ ~Like(tree[g].path, r.old)
  <2>1. Renamed(r)[g] = tree[g]
    BY <1>6 DEF Renamed
  <2> QED
    BY <1>3, <1>6, <2>1 DEF Row, Draft
<1> QED
  BY <1>4, <1>5, <1>6

(* What a move writes when its folder is there.                            *)
Moved(r) ==
  [g \in Live |->
     IF g = r.f THEN [tree[g] EXCEPT !.parent = r.parent, !.path = r.path, !.depth = r.depth]
     ELSE IF g \in {h \in Live \ {r.f} : Like(tree[h].path, r.old)}
          THEN [tree[g] EXCEPT !.path = Rebase(@, r.old, r.path),
                               !.depth = (@ + r.depth) - r.from]
          ELSE tree[g]]

LEMMA MovedRows ==
    ASSUME ShapeInv, NEW r \in Requests, r.op = "move", PathsGiven(r)
    PROVE  /\ DOMAIN Moved(r) = Live
           /\ \A g \in Live :
                /\ Moved(r)[g] \in Draft /\ Moved(r)[g].path # <<>>
                /\ Moved(r)[g].name = tree[g].name
                /\ Moved(r)[g].parent = IF g = r.f THEN r.parent ELSE tree[g].parent
                /\ Moved(r)[g].depth = IF g = r.f THEN r.depth
                                       ELSE IF Like(tree[g].path, r.old)
                                            THEN (tree[g].depth + r.depth) - r.from
                                            ELSE tree[g].depth
                /\ Moved(r)[g].path = IF g = r.f THEN r.path
                                      ELSE IF Like(tree[g].path, r.old)
                                           THEN Rebase(tree[g].path, r.old, r.path)
                                           ELSE tree[g].path
<1>1. DOMAIN Moved(r) = Live
  BY DEF Moved
<1>2. r.parent \in Folder \cup {Root} /\ r.path \in Seq(Name) /\ r.old \in Seq(Name)
      /\ r.path # <<>> /\ r.old # <<>> /\ r.depth \in Nat /\ r.from \in Nat
  BY RequestKinds DEF PathsGiven
<1> SUFFICES ASSUME NEW g \in Live
             PROVE  /\ Moved(r)[g] \in Draft /\ Moved(r)[g].path # <<>>
                    /\ Moved(r)[g].name = tree[g].name
                    /\ Moved(r)[g].parent = IF g = r.f THEN r.parent ELSE tree[g].parent
                    /\ Moved(r)[g].depth = IF g = r.f THEN r.depth
                                           ELSE IF Like(tree[g].path, r.old)
                                                THEN (tree[g].depth + r.depth) - r.from
                                                ELSE tree[g].depth
                    /\ Moved(r)[g].path = IF g = r.f THEN r.path
                                          ELSE IF Like(tree[g].path, r.old)
                                               THEN Rebase(tree[g].path, r.old, r.path)
                                               ELSE tree[g].path
  BY <1>1
<1>3. tree[g] \in Row /\ tree[g].path # <<>> /\ tree[g].path \in Seq(Name) /\ tree[g].depth \in Int
  BY DepthIsNatural DEF ShapeInv, TypeOK, RowsInv, Row
<1>4. CASE g = r.f
  <2>1. PICK above, new, level : above = r.parent /\ new = r.path /\ level = r.depth
    OBVIOUS
  <2>2. Moved(r)[g] = [tree[g] EXCEPT !.parent = above, !.path = new, !.depth = level]
    BY <1>4, <2>1 DEF Moved
  <2>3. above \in Folder \cup {Root} /\ new \in Seq(Name) /\ new # <<>> /\ level \in Nat
    BY <1>2, <2>1
  <2>6. PICK row \in Row : row = tree[g]
    BY <1>3
  <2>7. [row EXCEPT !.parent = above, !.path = new, !.depth = level] =
          [parent |-> above, name |-> row.name, path |-> new, depth |-> level]
    <3>1. PICK a : a = [row EXCEPT !.parent = above]
      OBVIOUS
    <3>2. a = [parent |-> above, name |-> row.name, path |-> row.path, depth |-> row.depth]
      BY <3>1 DEF Row
    <3>3. PICK b : b = [a EXCEPT !.path = new]
      OBVIOUS
    <3>4. b = [parent |-> above, name |-> row.name, path |-> new, depth |-> row.depth]
      BY <3>2, <3>3
    <3>5. [row EXCEPT !.parent = above, !.path = new, !.depth = level]
            = [b EXCEPT !.depth = level]
      BY <3>1, <3>3, Zenon
    <3>6. [b EXCEPT !.depth = level] =
             [parent |-> above, name |-> row.name, path |-> new, depth |-> level]
      BY <3>4
    <3> QED
      BY <3>5, <3>6, Zenon
  <2>8. Moved(r)[g] = [row EXCEPT !.parent = above, !.path = new, !.depth = level]
    BY <2>2, <2>6, Zenon
  <2>5. Moved(r)[g] = [parent |-> above, name |-> tree[g].name, path |-> new,
                       depth |-> level]
    BY <2>6, <2>7, <2>8, Zenon
  <2>4. /\ Moved(r)[g] \in Draft /\ Moved(r)[g].path = new
        /\ Moved(r)[g].parent = above
        /\ Moved(r)[g].depth = level
        /\ Moved(r)[g].name = tree[g].name
    BY <1>3, <2>3, <2>5 DEF Row, Draft
  <2> QED
    BY <1>4, <2>1, <2>3, <2>4
<1>5. CASE g # r.f /\ Like(tree[g].path, r.old)
  <2>1. PICK new : new = Rebase(tree[g].path, r.old, r.path)
    OBVIOUS
  <2>2. PICK level : level = (tree[g].depth + r.depth) - r.from
    OBVIOUS
  <2>3. Moved(r)[g] = [tree[g] EXCEPT !.path = new, !.depth = level]
    BY <1>5, <2>1, <2>2 DEF Moved
  <2>4. new \in Seq(Name) /\ new # <<>> /\ level \in Int
    BY <1>2, <1>3, <1>5, <2>1, <2>2, RebaseTyping
  <2>5. /\ Moved(r)[g] \in Draft /\ Moved(r)[g].path = new
        /\ Moved(r)[g].parent = tree[g].parent
        /\ Moved(r)[g].depth = level
        /\ Moved(r)[g].name = tree[g].name
    BY <1>3, <2>3, <2>4 DEF Row, Draft
  <2> QED
    BY <1>5, <2>1, <2>2, <2>4, <2>5
<1>6. CASE g # r.f /\ ~Like(tree[g].path, r.old)
  <2>1. Moved(r)[g] = tree[g]
    BY <1>6 DEF Moved
  <2> QED
    BY <1>3, <1>6, <2>1 DEF Row, Draft
<1> QED
  BY <1>4, <1>5, <1>6

(* What a create writes.                                                   *)
Created(f, r) ==
  [g \in Live \cup {f} |->
     IF g = f THEN [parent |-> r.parent, name |-> r.name, path |-> r.path, depth |-> r.depth]
              ELSE tree[g]]

(* What a delete leaves.                                                   *)
Deleted(f) == [g \in Live \ {f} |-> tree[g]]

(* A write, request by request: which rows it hands to the table.          *)
LEMMA Writes ==
    ASSUME NEW c \in Client
    PROVE  /\ CreateWrite(c) => \E f \in Folder \ Live :
                                  Finish(c, Created(f, pending[c]), placed)
           /\ RenameWrite(c) =>
                Finish(c, IF pending[c].f \in Live THEN Renamed(pending[c]) ELSE tree, placed)
           /\ MoveWrite(c) =>
                Finish(c, IF pending[c].f \in Live THEN Moved(pending[c]) ELSE tree, placed)
           /\ DeleteWrite(c) => Finish(c, Deleted(pending[c].f), placed)
           /\ PlaceWrite(c) =>
                Finish(c, tree, [placed EXCEPT ![pending[c].d] = pending[c].f])
           /\ CreateWrite(c) => pending[c] # Idle /\ pending[c].op = "create"
           /\ RenameWrite(c) => pending[c] # Idle /\ pending[c].op = "rename"
           /\ MoveWrite(c) => pending[c] # Idle /\ pending[c].op = "move"
           /\ DeleteWrite(c) => pending[c] # Idle /\ pending[c].op = "delete"
           /\ PlaceWrite(c) => pending[c] # Idle /\ pending[c].op = "place"
<1>1. CreateWrite(c) => /\ pending[c] # Idle /\ pending[c].op = "create"
                        /\ \E f \in Folder \ Live : Finish(c, Created(f, pending[c]), placed)
  BY DEF CreateWrite, Created
<1>2. RenameWrite(c) =>
        /\ pending[c] # Idle /\ pending[c].op = "rename"
        /\ Finish(c, IF pending[c].f \in Live THEN Renamed(pending[c]) ELSE tree, placed)
  BY DEF RenameWrite, Renamed
<1>3. MoveWrite(c) =>
        /\ pending[c] # Idle /\ pending[c].op = "move"
        /\ Finish(c, IF pending[c].f \in Live THEN Moved(pending[c]) ELSE tree, placed)
  BY DEF MoveWrite, Moved
<1>4. DeleteWrite(c) => /\ pending[c] # Idle /\ pending[c].op = "delete"
                        /\ Finish(c, Deleted(pending[c].f), placed)
  BY DEF DeleteWrite, Deleted
<1>5. PlaceWrite(c) => /\ pending[c] # Idle /\ pending[c].op = "place"
                       /\ Finish(c, tree, [placed EXCEPT ![pending[c].d] = pending[c].f])
  BY DEF PlaceWrite
<1> QED
  BY <1>1, <1>2, <1>3, <1>4, <1>5

(* The path and the depth of a child.                                      *)
LEMMA ChildTyping ==
    ASSUME ShapeInv, NEW p \in Live \cup {Root}, NEW n \in Name
    PROVE  ChildPath(p, n) \in Seq(Name) /\ ChildPath(p, n) # <<>> /\ ChildDepth(p) \in Nat
<1>1. CASE p = Root
  BY <1>1 DEF ChildPath, ChildDepth
<1>2. CASE p # Root
  <2>1. tree[p].path \in Seq(Name) /\ tree[p].depth \in Nat
    BY <1>2, DepthIsNatural DEF ShapeInv, TypeOK, Row
  <2> DEFINE q == tree[p].path
  <2>2. Append(q, n) \in Seq(Name) /\ Append(q, n) # <<>>
    BY <2>1, AppendProperties
  <2> QED
    BY <1>2, <2>1, <2>2 DEF ChildPath, ChildDepth
<1> QED
  BY <1>1, <1>2

LEMMA ShapeInit == Init => ShapeInv
<1> SUFFICES ASSUME Init PROVE ShapeInv
  OBVIOUS
<1>1. DOMAIN tree = {}
  BY DEF Init
<1> QED
  BY <1>1 DEF Init, ShapeInv, TypeOK, RowsInv, Live, Requests

(* The rows of the tree itself could be written.                           *)
LEMMA RowsAreDrafts ==
    ASSUME ShapeInv
    PROVE  /\ Live \subseteq Folder
           /\ \A g \in Live : tree[g] \in Draft /\ tree[g].path # <<>>
BY DepthIsNatural DEF ShapeInv, TypeOK, RowsInv, Row, Draft

LEMMA ShapeWrites ==
    ASSUME ShapeInv, NEW c \in Client,
           \/ CreateWrite(c) \/ RenameWrite(c) \/ MoveWrite(c)
           \/ DeleteWrite(c) \/ PlaceWrite(c)
    PROVE  ShapeInv'
<1> DEFINE r == pending[c]
<1>1. r # Idle /\ r \in Requests /\ PathsGiven(r)
  BY Writes DEF ShapeInv, TypeOK
<1>2. placed \in [Doc -> Folder \cup {Root}]
  BY DEF ShapeInv, TypeOK
<1>3. CASE CreateWrite(c)
  <2>1. PICK f \in Folder \ Live : Finish(c, Created(f, r), placed)
    BY <1>3, Writes
  <2>2. /\ r.parent \in Folder \cup {Root} /\ r.name \in Name
        /\ r.path \in Seq(Name) /\ r.depth \in Nat /\ r.path # <<>>
    BY <1>1, <1>3, Writes, RequestKinds DEF PathsGiven
  <2>3. DOMAIN Created(f, r) \subseteq Folder
    BY RowsAreDrafts DEF Created
  <2>4. ASSUME NEW g \in DOMAIN Created(f, r)
        PROVE  Created(f, r)[g] \in Draft /\ Created(f, r)[g].path # <<>>
    <3>1. CASE g = f
      <4>1. Created(f, r)[g] = [parent |-> r.parent, name |-> r.name,
                                path |-> r.path, depth |-> r.depth]
        BY <3>1 DEF Created
      <4> QED
        BY <2>2, <4>1 DEF Draft
    <3>2. CASE g # f
      BY <2>4, <3>2, RowsAreDrafts DEF Created
    <3> QED
      BY <3>1, <3>2
  <2> QED
    BY <1>1, <1>2, <2>1, <2>3, <2>4, FinishShape
<1>4. CASE RenameWrite(c)
  <2>1. Finish(c, IF r.f \in Live THEN Renamed(r) ELSE tree, placed) /\ r.op = "rename"
    BY <1>4, Writes
  <2>2. CASE r.f \in Live
    <3>1. Finish(c, Renamed(r), placed)
      BY <2>1, <2>2
    <3> QED
      BY <1>1, <1>2, <2>1, <3>1, RenamedRows, RowsAreDrafts, FinishShape
  <2>3. CASE r.f \notin Live
    <3>1. Finish(c, tree, placed)
      BY <2>1, <2>3
    <3> QED
      BY <1>1, <1>2, <3>1, RowsAreDrafts, FinishShape DEF Live
  <2> QED
    BY <2>2, <2>3
<1>5. CASE MoveWrite(c)
  <2>1. Finish(c, IF r.f \in Live THEN Moved(r) ELSE tree, placed) /\ r.op = "move"
    BY <1>5, Writes
  <2>2. CASE r.f \in Live
    <3>1. Finish(c, Moved(r), placed)
      BY <2>1, <2>2
    <3> QED
      BY <1>1, <1>2, <2>1, <3>1, MovedRows, RowsAreDrafts, FinishShape
  <2>3. CASE r.f \notin Live
    <3>1. Finish(c, tree, placed)
      BY <2>1, <2>3
    <3> QED
      BY <1>1, <1>2, <3>1, RowsAreDrafts, FinishShape DEF Live
  <2> QED
    BY <2>2, <2>3
<1>6. CASE DeleteWrite(c)
  <2>1. Finish(c, Deleted(r.f), placed)
    BY <1>6, Writes
  <2>2. /\ DOMAIN Deleted(r.f) \subseteq Folder
        /\ \A g \in DOMAIN Deleted(r.f) : Deleted(r.f)[g] \in Draft /\ Deleted(r.f)[g].path # <<>>
    BY RowsAreDrafts DEF Deleted
  <2> QED
    BY <1>1, <1>2, <2>1, <2>2, FinishShape
<1>7. CASE PlaceWrite(c)
  <2>1. Finish(c, tree, [placed EXCEPT ![r.d] = r.f]) /\ r.op = "place"
    BY <1>7, Writes
  <2>2. r.f \in Folder \cup {Root}
    BY <1>1, <2>1, RequestKinds
  <2>3. [placed EXCEPT ![r.d] = r.f] \in [Doc -> Folder \cup {Root}]
    BY <1>2, <2>2
  <2> QED
    BY <1>1, <2>1, <2>3, RowsAreDrafts, FinishShape DEF Live
<1> QED
  BY <1>3, <1>4, <1>5, <1>6, <1>7

(* What each read remembers.                                               *)
CreateOf(p, n) ==
  [op |-> "create", parent |-> p, name |-> n, path |-> ChildPath(p, n),
   depth |-> ChildDepth(p), late |-> FALSE]

RenameOf(f, n) ==
  [op |-> "rename", f |-> f, name |-> n, old |-> tree[f].path,
   path |-> Append(Front(tree[f].path), n), late |-> FALSE]

MoveOf(f, p) ==
  [op |-> "move", f |-> f, parent |-> p, old |-> tree[f].path,
   path |-> ChildPath(p, tree[f].name), depth |-> ChildDepth(p),
   from |-> tree[f].depth, late |-> FALSE]

LEMMA FrontTyping ==
    ASSUME NEW q \in Seq(Name), q # <<>>
    PROVE  Front(q) \in Seq(Name)
<1>1. Len(q) \in Nat \ {0}
  BY EmptySeq
<1>2. Len(q) - 1 \in 0..Len(q)
  BY <1>1
<1>3. SubSeq(q, 1, Len(q) - 1) \in Seq(Name)
  BY <1>2, FirstNames
<1> QED
  BY <1>3 DEF Front

LEMMA ShapeReads ==
    ASSUME ShapeInv, NEW c \in Client,
           \/ \E p \in Folder \cup {Root}, n \in Name : CreateRead(c, p, n)
           \/ \E f \in Folder, n \in Name : RenameRead(c, f, n)
           \/ \E f \in Folder, p \in Folder \cup {Root} : MoveRead(c, f, p)
           \/ \E f \in Folder : DeleteRead(c, f)
           \/ \E d \in Doc, f \in Folder \cup {Root} : PlaceRead(c, d, f)
    PROVE  ShapeInv'
<1>1. ASSUME NEW p \in Folder \cup {Root}, NEW n \in Name, CreateRead(c, p, n)
      PROVE  ShapeInv'
  <2>1. p \in Live \cup {Root} /\ Begin(c, CreateOf(p, n))
    BY <1>1 DEF CreateRead, CreateOf
  <2>2. PICK path, depth : path = ChildPath(p, n) /\ depth = ChildDepth(p)
    OBVIOUS
  <2>3. path \in Seq(Name) /\ path # <<>> /\ depth \in Nat
    BY <2>1, <2>2, ChildTyping
  <2>4. CreateOf(p, n) = [op |-> "create", parent |-> p, name |-> n, path |-> path,
                          depth |-> depth, late |-> FALSE]
    BY <2>2 DEF CreateOf
  <2>5. CreateOf(p, n) \in Requests /\ PathsGiven(CreateOf(p, n))
    BY <2>3, <2>4 DEF Requests, PathsGiven
  <2> QED
    BY <2>1, <2>5, BeginShape
<1>2. ASSUME NEW f \in Folder, NEW n \in Name, RenameRead(c, f, n)
      PROVE  ShapeInv'
  <2>1. f \in Live /\ Begin(c, RenameOf(f, n))
    BY <1>2 DEF RenameRead, RenameOf
  <2>2. PICK old, above : old = tree[f].path /\ above = Front(tree[f].path)
    OBVIOUS
  <2>3. old \in Seq(Name) /\ old # <<>>
    BY <2>1, <2>2 DEF ShapeInv, TypeOK, RowsInv, Row
  <2>4. above \in Seq(Name)
    BY <2>2, <2>3, FrontTyping
  <2>5. PICK path : path = Append(above, n)
    OBVIOUS
  <2>6. path \in Seq(Name) /\ path # <<>>
    BY <2>4, <2>5, AppendProperties
  <2>7. RenameOf(f, n) = [op |-> "rename", f |-> f, name |-> n, old |-> old,
                          path |-> path, late |-> FALSE]
    BY <2>2, <2>5 DEF RenameOf
  <2>8. RenameOf(f, n) \in Requests /\ PathsGiven(RenameOf(f, n))
    BY <2>3, <2>6, <2>7 DEF Requests, PathsGiven
  <2> QED
    BY <2>1, <2>8, BeginShape
<1>3. ASSUME NEW f \in Folder, NEW p \in Folder \cup {Root}, MoveRead(c, f, p)
      PROVE  ShapeInv'
  <2>1. f \in Live /\ p \in Live \cup {Root} /\ Begin(c, MoveOf(f, p))
    BY <1>3 DEF MoveRead, MoveOf
  <2>2. PICK old, path, depth, from :
          /\ old = tree[f].path /\ path = ChildPath(p, tree[f].name)
          /\ depth = ChildDepth(p) /\ from = tree[f].depth
    OBVIOUS
  <2>3. old \in Seq(Name) /\ old # <<>> /\ tree[f].name \in Name /\ from \in Nat
    BY <2>1, <2>2, DepthIsNatural DEF ShapeInv, TypeOK, RowsInv, Row
  <2>4. path \in Seq(Name) /\ path # <<>> /\ depth \in Nat
    BY <2>1, <2>2, <2>3, ChildTyping
  <2>5. MoveOf(f, p) = [op |-> "move", f |-> f, parent |-> p, old |-> old, path |-> path,
                        depth |-> depth, from |-> from, late |-> FALSE]
    BY <2>2 DEF MoveOf
  <2>6. MoveOf(f, p) \in Requests /\ PathsGiven(MoveOf(f, p))
    BY <2>3, <2>4, <2>5 DEF Requests, PathsGiven
  <2> QED
    BY <2>1, <2>6, BeginShape
<1>4. ASSUME NEW f \in Folder, DeleteRead(c, f)
      PROVE  ShapeInv'
  <2> DEFINE r == [op |-> "delete", f |-> f, late |-> FALSE]
  <2>1. Begin(c, r)
    BY <1>4 DEF DeleteRead
  <2>2. r \in Requests /\ PathsGiven(r)
    BY DEF Requests, PathsGiven
  <2> QED
    BY <2>1, <2>2, BeginShape
<1>5. ASSUME NEW d \in Doc, NEW f \in Folder \cup {Root}, PlaceRead(c, d, f)
      PROVE  ShapeInv'
  <2> DEFINE r == [op |-> "place", d |-> d, f |-> f, late |-> FALSE]
  <2>1. Begin(c, r)
    BY <1>5 DEF PlaceRead
  <2>2. r \in Requests /\ PathsGiven(r)
    BY DEF Requests, PathsGiven
  <2> QED
    BY <2>1, <2>2, BeginShape
<1> QED
  BY <1>1, <1>2, <1>3, <1>4, <1>5

LEMMA ShapeStep == ShapeInv /\ [Next]_vars => ShapeInv'
<1> SUFFICES ASSUME ShapeInv, [Next]_vars PROVE ShapeInv'
  OBVIOUS
<1>1. CASE Next
  BY <1>1, ShapeReads, ShapeWrites DEF Next
<1>2. CASE UNCHANGED vars
  BY <1>2 DEF vars, ShapeInv, TypeOK, RowsInv, Live
<1> QED
  BY <1>1, <1>2

(* Rows, placements and remembered requests keep the shape of their        *)
(* tables, whatever the LIKE patterns leave and however the writes of      *)
(* requests overtake each other: Accepted refuses what would break it.     *)
THEOREM TypeCorrect == Spec => []TypeOK
<1>1. ShapeInv => TypeOK
  BY DEF ShapeInv
<1> QED
  BY <1>1, ShapeInit, ShapeStep, PTL DEF Spec

-----------------------------------------------------------------------------
(* Trees whose copies agree with their parents, whoever wrote them.        *)

(* The path and the depth under which a child of p hangs.                  *)
Above(t, p) == IF p = Root THEN <<>> ELSE t[p].path

Level(t, p) == IF p = Root THEN 0 ELSE t[p].depth + 1

(* The rows of a tree, each with a path of its own.                        *)
Rows(t) ==
  /\ Root \notin DOMAIN t
  /\ \A f \in DOMAIN t : /\ t[f].path \in Seq(Name) /\ t[f].path # <<>>
                         /\ t[f].name \in Name /\ t[f].depth \in Int
                         /\ t[f].parent \in DOMAIN t \cup {Root}
  /\ \A f, g \in DOMAIN t : t[f].path = t[g].path => f = g

Hung(t) ==
  \A f \in DOMAIN t : /\ t[f].path = Append(Above(t, t[f].parent), t[f].name)
                      /\ t[f].depth = Level(t, t[f].parent)

LEMMA PathsTyped ==
    ASSUME NEW t, Rows(t), NEW f \in DOMAIN t
    PROVE  /\ t[f].path \in Seq(Name)
           /\ Len(t[f].path) \in Nat \ {0}
           /\ Above(t, t[f].parent) \in Seq(Name)
           /\ t[f].parent # Root => t[f].parent \in DOMAIN t
<1>1. t[f].path \in Seq(Name) /\ t[f].path # <<>> /\ t[f].parent \in DOMAIN t \cup {Root}
  BY DEF Rows
<1>2. Len(t[f].path) \in Nat \ {0}
  BY <1>1, EmptySeq
<1>3. Above(t, t[f].parent) \in Seq(Name)
  <2>1. CASE t[f].parent = Root
    BY <2>1, EmptySeq DEF Above
  <2>2. CASE t[f].parent # Root
    BY <1>1, <2>2 DEF Above, Rows
  <2> QED
    BY <2>1, <2>2
<1> QED
  BY <1>1, <1>2, <1>3

(* A child's path is one name longer than what it hangs under.             *)
LEMMA ChildLength ==
    ASSUME NEW t, Rows(t), Hung(t), NEW f \in DOMAIN t
    PROVE  /\ Len(t[f].path) = Len(Above(t, t[f].parent)) + 1
           /\ Len(Above(t, t[f].parent)) \in Nat
           /\ IsPrefix(Above(t, t[f].parent), t[f].path)
<1> DEFINE q == Above(t, t[f].parent)
           n == t[f].name
<1>1. q \in Seq(Name) /\ n \in Name /\ t[f].path = Append(q, n)
  BY PathsTyped DEF Rows, Hung
<1> HIDE DEF q, n
<1>2. Len(q) \in Nat /\ Len(t[f].path) = Len(q) + 1
  BY <1>1, LenProperties, AppendProperties
<1>3. IsPrefix(q, q)
  BY <1>1, <1>2, PrefixNames
<1>4. IsPrefix(q, t[f].path)
  BY <1>1, <1>3, ChildIsBelow
<1> QED
  BY <1>2, <1>4 DEF q

LEMMA PrefixOfPrefix ==
    ASSUME NEW p \in Seq(Name), NEW q \in Seq(Name), NEW s \in Seq(Name),
           IsPrefix(p, q), IsPrefix(q, s)
    PROVE  IsPrefix(p, s)
<1>1. Len(p) \in Nat /\ Len(q) \in Nat /\ Len(s) \in Nat
  BY LenProperties
<1>2. /\ Len(p) <= Len(q) /\ \A i \in 1..Len(p) : p[i] = q[i]
      /\ Len(q) <= Len(s) /\ \A i \in 1..Len(q) : q[i] = s[i]
  BY PrefixNames
<1>3. Len(p) <= Len(s) /\ \A i \in 1..Len(p) : p[i] = s[i]
  BY <1>1, <1>2
<1> QED
  BY <1>3, PrefixNames

LEMMA PrefixOfItself ==
    ASSUME NEW p \in Seq(Name)
    PROVE  IsPrefix(p, p)
<1>1. Len(p) \in Nat
  BY LenProperties
<1> QED
  BY <1>1, PrefixNames

(* On the way up from a row there is one of every length.                  *)
LEMMA Ancestors ==
    ASSUME NEW t, Rows(t), Hung(t), NEW g \in DOMAIN t, NEW k \in 1..Len(t[g].path)
    PROVE  \E h \in DOMAIN t : Len(t[h].path) = k /\ IsPrefix(t[h].path, t[g].path)
<1> DEFINE q == t[g].path
           Reached == {m \in k..Len(q) :
                         \E h \in DOMAIN t : Len(t[h].path) = m /\ IsPrefix(t[h].path, q)}
<1>1. q \in Seq(Name) /\ Len(q) \in Nat /\ k \in Nat /\ k >= 1 /\ k <= Len(q)
  BY PathsTyped
<1>2. Len(q) \in Reached
  BY <1>1, PrefixOfItself
<1>3. Reached \subseteq Nat
  BY <1>1
<1> HIDE DEF Reached
<1>4. PICK m \in Reached : \A y \in Reached : m <= y
  BY <1>2, <1>3, LeastNumber
<1>5. PICK h \in DOMAIN t : Len(t[h].path) = m /\ IsPrefix(t[h].path, q)
  BY <1>4 DEF Reached
<1>6. m \in k..Len(q)
  BY <1>4 DEF Reached
<1>7. CASE m = k
  BY <1>5, <1>7
<1>8. CASE m # k
  <2> DEFINE a == Above(t, t[h].parent)
  <2>1. Len(a) = m - 1 /\ IsPrefix(a, t[h].path) /\ a \in Seq(Name) /\ t[h].path \in Seq(Name)
    <3>1. m = Len(a) + 1 /\ Len(a) \in Nat
      BY <1>5, ChildLength
    <3> QED
      BY <3>1, ChildLength, PathsTyped
  <2>2. Len(a) >= 1 /\ Len(a) \in k..Len(q)
    BY <1>1, <1>6, <1>8, <2>1
  <2>3. t[h].parent # Root
    <3> SUFFICES ASSUME t[h].parent = Root PROVE FALSE
      OBVIOUS
    <3>1. a = <<>>
      BY DEF Above
    <3>2. Len(a) = 0
      BY <3>1
    <3> QED
      BY <2>2, <3>2
  <2>4. a = t[t[h].parent].path /\ t[h].parent \in DOMAIN t
    BY <2>3, PathsTyped DEF Above
  <2>5. IsPrefix(a, q)
    BY <1>1, <1>5, <2>1, PrefixOfPrefix
  <2>6. Len(a) \in Reached
    BY <2>2, <2>4, <2>5 DEF Reached
  <2>7. m <= Len(a)
    BY <1>4, <2>6
  <2> QED
    BY <1>6, <2>1, <2>7
<1> QED
  BY <1>7, <1>8

(* No set of rows holds all its parents: the shortest path leads out.      *)
LEMMA ParentsLeadOut ==
    ASSUME NEW t, Rows(t), Hung(t), NEW S \in (SUBSET DOMAIN t) \ {{}}
    PROVE  \E f \in S : t[f].parent \notin S
<1> DEFINE Lengths == {Len(t[f].path) : f \in S}
<1>1. Lengths \subseteq Nat /\ Lengths # {}
  BY PathsTyped
<1>2. PICK m \in Lengths : \A y \in Lengths : m <= y
  BY <1>1, LeastNumber
<1>3. PICK f \in S : Len(t[f].path) = m
  BY <1>2
<1>4. ASSUME t[f].parent \in S PROVE FALSE
  <2> DEFINE h == t[f].parent
  <2>1. h \in DOMAIN t /\ h # Root
    BY <1>4 DEF Rows
  <2>2. Len(t[f].path) = Len(t[h].path) + 1 /\ Len(t[h].path) \in Nat
    BY <2>1, ChildLength DEF Above
  <2>3. m <= Len(t[h].path)
    BY <1>2, <1>4
  <2> QED
    BY <1>3, <2>2, <2>3
<1> QED
  BY <1>3, <1>4

-----------------------------------------------------------------------------
(* A subtree hung elsewhere.                                               *)

(* u is t with the subtree of f hung under p, f now named n.               *)
Grafted(t, u, f, p, n) ==
  /\ DOMAIN u = DOMAIN t
  /\ u[f].parent = p /\ u[f].name = n
  /\ u[f].path = Append(Above(t, p), n) /\ u[f].depth = Level(t, p)
  /\ \A g \in DOMAIN t \ {f} :
       /\ u[g].parent = t[g].parent /\ u[g].name = t[g].name
       /\ IsPrefix(t[f].path, t[g].path) =>
            /\ u[g].path = Regrafted(t[g].path, Len(t[f].path), Append(Above(t, p), n))
            /\ u[g].depth = (t[g].depth + Level(t, p)) - t[f].depth
       /\ ~IsPrefix(t[f].path, t[g].path) =>
            u[g].path = t[g].path /\ u[g].depth = t[g].depth

(* The new parent is not in the subtree: then every copy is right again.   *)
LEMMA GraftKeepsCopies ==
    ASSUME NEW t, NEW u, NEW f \in DOMAIN t, NEW p \in DOMAIN t \cup {Root}, NEW n \in Name,
           Rows(t), Hung(t), Grafted(t, u, f, p, n),
           p # Root => ~IsPrefix(t[f].path, t[p].path)
    PROVE  Hung(u)
<1> DEFINE old == t[f].path
           new == Append(Above(t, p), n)
<1>1. /\ old \in Seq(Name) /\ Len(old) \in Nat \ {0} /\ t[f].depth \in Int
      /\ Root \notin DOMAIN t
  BY PathsTyped DEF Rows
<1>2. p # Root => p \in DOMAIN t \ {f}
  BY <1>1, PrefixOfItself
<1>3. p # Root => u[p].path = t[p].path /\ u[p].depth = t[p].depth
  BY <1>2 DEF Grafted
<1>4. Above(u, p) = Above(t, p) /\ Level(u, p) = Level(t, p)
  BY <1>3 DEF Above, Level
<1>5. Above(t, p) \in Seq(Name) /\ Level(t, p) \in Int
  <2>1. CASE p = Root
    BY <2>1, EmptySeq DEF Above, Level
  <2>2. CASE p # Root
    BY <2>2 DEF Above, Level, Rows
  <2> QED
    BY <2>1, <2>2
<1>6. new \in Seq(Name)
  BY <1>5, AppendProperties
<1>7. /\ u[f].parent = p /\ u[f].name = n /\ u[f].path = new /\ u[f].depth = Level(t, p)
      /\ DOMAIN u = DOMAIN t
      /\ \A g \in DOMAIN t \ {f} :
           /\ u[g].parent = t[g].parent /\ u[g].name = t[g].name
           /\ IsPrefix(old, t[g].path) =>
                /\ u[g].path = Regrafted(t[g].path, Len(old), new)
                /\ u[g].depth = (t[g].depth + Level(t, p)) - t[f].depth
           /\ ~IsPrefix(old, t[g].path) =>
                u[g].path = t[g].path /\ u[g].depth = t[g].depth
  BY DEF Grafted
<1>8. u[f].path = Append(Above(u, p), n) /\ u[f].depth = Level(u, p)
  BY <1>4, <1>7
<1> HIDE DEF old, new
<1> SUFFICES ASSUME NEW g \in DOMAIN t
             PROVE  /\ u[g].path = Append(Above(u, u[g].parent), u[g].name)
                    /\ u[g].depth = Level(u, u[g].parent)
  BY <1>7 DEF Hung
<1>9. CASE g = f
  BY <1>7, <1>8, <1>9
<1>10. CASE g # f
  <2> DEFINE h == t[g].parent
             m == t[g].name
             q == Above(t, h)
  <2>1. /\ u[g].parent = h /\ u[g].name = m /\ m \in Name
        /\ t[g].path = Append(q, m) /\ t[g].depth = Level(t, h)
        /\ q \in Seq(Name)
    BY <1>7, <1>10, PathsTyped DEF Hung, Rows
  <2>2. h # Root => h \in DOMAIN t
    BY PathsTyped
  <2>3. IsPrefix(old, t[g].path) <=> IsPrefix(old, q) \/ old = t[g].path
    <3> HIDE DEF q, m
    <3> QED
      BY <1>1, <2>1, ChildIsBelow
  <2>4. old # t[g].path
    BY <1>10 DEF old, Rows
  <2>5. CASE IsPrefix(old, t[g].path)
    <3>1. IsPrefix(old, q)
      BY <2>3, <2>4, <2>5
    <3>2. Len(old) \in 0..Len(q) /\ Len(q) >= 1
      <4> HIDE DEF q
      <4>1. Len(old) <= Len(q) /\ Len(q) \in Nat
        BY <1>1, <2>1, <3>1, PrefixNames, LenProperties
      <4> QED
        BY <1>1, <4>1
    <3>3. h # Root
      <4>1. h = Root => Len(q) = 0
        BY DEF Above
      <4> QED
        BY <3>2, <4>1
    <3>4. q = t[h].path /\ h \in DOMAIN t
      BY <2>2, <3>3 DEF Above
    <3>5. /\ u[g].path = Regrafted(Append(q, m), Len(old), new)
          /\ u[g].depth = (t[g].depth + Level(t, p)) - t[f].depth
          /\ t[g].depth = t[h].depth + 1 /\ t[h].depth \in Int
      <4>1. t[g].depth = t[h].depth + 1 /\ t[h].depth \in Int
        BY <2>1, <3>3, <3>4 DEF Level, Rows
      <4> QED
        BY <1>7, <1>10, <2>1, <2>5, <4>1
    <3>6. u[g].path = Append(Regrafted(q, Len(old), new), m)
      <4> HIDE DEF q, m
      <4> QED
        BY <1>6, <2>1, <3>2, <3>5, RegraftedChild
    <3>7. u[h].path = Regrafted(q, Len(old), new) /\ u[h].depth = (t[h].depth + Level(t, p)) - t[f].depth
      <4>1. CASE h = f
        <5>1. q = old
          BY <3>4, <4>1 DEF old
        <5>2. Regrafted(old, Len(old), new) = new
          BY <1>1, <1>6, RegraftedTop
        <5> QED
          BY <1>1, <1>5, <1>7, <4>1, <5>1, <5>2
      <4>2. CASE h # f
        BY <1>7, <3>1, <3>4, <4>2
      <4> QED
        BY <4>1, <4>2
    <3>8. u[g].path = Append(Above(u, h), m)
      BY <3>3, <3>6, <3>7 DEF Above
    <3>9. u[g].depth = Level(u, h)
      <4>1. Level(u, h) = u[h].depth + 1
        BY <3>3 DEF Level
      <4>2. PICK i, j, k : i = t[h].depth /\ j = Level(t, p) /\ k = t[f].depth
        OBVIOUS
      <4>3. /\ i \in Int /\ j \in Int /\ k \in Int
            /\ u[g].depth = ((i + 1) + j) - k /\ u[h].depth = (i + j) - k
        BY <1>1, <1>5, <3>5, <3>7, <4>2
      <4>4. ((i + 1) + j) - k = ((i + j) - k) + 1
        BY <4>3
      <4> QED
        BY <4>1, <4>3, <4>4
    <3> QED
      BY <2>1, <3>8, <3>9
  <2>6. CASE ~IsPrefix(old, t[g].path)
    <3>1. u[g].path = t[g].path /\ u[g].depth = t[g].depth
      BY <1>7, <1>10, <2>6
    <3>2. ASSUME h # Root
          PROVE  u[h].path = t[h].path /\ u[h].depth = t[h].depth
      <4>1. ~IsPrefix(old, t[h].path) /\ h \in DOMAIN t
        BY <2>2, <2>3, <2>6, <3>2 DEF Above
      <4>2. h # f
        BY <1>1, <4>1, PrefixOfItself DEF old
      <4> QED
        BY <1>7, <4>1, <4>2
    <3>3. Above(u, h) = Above(t, h) /\ Level(u, h) = Level(t, h)
      BY <3>2 DEF Above, Level
    <3> QED
      BY <2>1, <3>1, <3>3
  <2> QED
    BY <2>5, <2>6
<1> QED
  BY <1>9, <1>10

(* Hung where it was and named as it was, no path changes.                 *)
LEMMA RegraftedSame ==
    ASSUME NEW p \in Seq(Name), NEW q \in Seq(Name), IsPrefix(p, q)
    PROVE  Regrafted(q, Len(p), p) = q
<1>1. Len(p) \in Nat /\ Len(q) \in Nat /\ Len(p) <= Len(q)
      /\ \A i \in 1..Len(p) : p[i] = q[i]
  BY PrefixNames, LenProperties
<1> DEFINE rest == SubSeq(q, Len(p) + 1, Len(q))
<1>2. /\ rest \in Seq(Name) /\ Len(rest) = Len(q) - Len(p)
      /\ \A i \in 1..(Len(q) - Len(p)) : rest[i] = q[Len(p) + i]
  <2>1. Len(p) \in 0..Len(q)
    BY <1>1
  <2> QED
    BY <2>1, RestNames
<1> HIDE DEF rest
<1>3. /\ p \o rest \in Seq(Name) /\ Len(p \o rest) = Len(p) + Len(rest)
      /\ \A i \in 1..Len(p) + Len(rest) :
            (p \o rest)[i] = IF i <= Len(p) THEN p[i] ELSE rest[i - Len(p)]
  BY <1>2, ConcatProperties
<1>4. Len(p \o rest) = Len(q)
  BY <1>1, <1>2, <1>3
<1>5. ASSUME NEW i \in 1..Len(p \o rest) PROVE (p \o rest)[i] = q[i]
  <2>1. CASE i <= Len(p)
    BY <1>1, <1>3, <1>4, <2>1
  <2>2. CASE i > Len(p)
    <3>1. i - Len(p) \in 1..(Len(q) - Len(p)) /\ Len(p) + (i - Len(p)) = i
      BY <1>1, <1>4, <2>2
    <3>2. (p \o rest)[i] = rest[i - Len(p)]
      BY <1>1, <1>2, <1>3, <1>4, <2>2
    <3> QED
      BY <1>2, <3>1, <3>2
  <2> QED
    BY <1>1, <1>4, <2>1, <2>2
<1> QED
  BY <1>3, <1>4, <1>5, SeqEqual DEF Regrafted, rest

-----------------------------------------------------------------------------
(* What "path LIKE old%" finds.  From here on no name holds a "%", which   *)
(* reaches names of another length; a "_" or a backslash it may hold.      *)
NoPercent == \A pair \in DOMAIN Left : Left[pair] = <<>>

LEMMA LikeNames ==
    ASSUME NoPercent, NEW q \in Seq(Name), NEW p \in Seq(Name), p # <<>>,
           NEW new \in Seq(Name), Like(q, p)
    PROVE  Len(p) \in 1..Len(q) /\ Rebase(q, p, new) = Regrafted(q, Len(p), new)
<1>1. Len(p) \in Nat \ {0} /\ Len(q) \in Nat /\ Len(q) >= Len(p)
  BY EmptySeq, LenProperties DEF Like
<1> DEFINE k == Len(p)
           left == IF q[k] = p[k] THEN <<>> ELSE Left[<<p[k], q[k]>>]
<1>2. left = <<>>
  <2>1. q[k] # p[k] => <<p[k], q[k]>> \in DOMAIN Left
    BY <1>1 DEF Like
  <2> QED
    BY <2>1 DEF NoPercent
<1>3. Rebase(q, p, new) = (new \o left) \o SubSeq(q, k + 1, Len(q))
  BY DEF Rebase
<1>4. new \o left = new
  BY <1>2, ConcatEmptySeq
<1>5. Rebase(q, p, new) = Regrafted(q, Len(p), new)
  BY <1>3, <1>4 DEF Regrafted
<1>6. Len(p) \in 1..Len(q)
  BY <1>1
<1> QED
  BY <1>5, <1>6

(* LIKE finds nothing beside the subtree: a hit outside it hangs under a   *)
(* row as long as old that is a hit too, and that row would get the path   *)
(* of f.  That it finds the whole subtree is what ~Strands says.           *)
LEMMA HitsAreBelow ==
    ASSUME NoPercent, NEW t, NEW u, NEW f \in DOMAIN t,
           Rows(t), Hung(t), DOMAIN u = DOMAIN t,
           \A g, h \in DOMAIN u : u[g].path = u[h].path => g = h,
           NEW new \in Seq(Name), u[f].path = new,
           \A g \in DOMAIN t \ {f} :
             Like(t[g].path, t[f].path) => u[g].path = Rebase(t[g].path, t[f].path, new),
           NEW g \in DOMAIN t, Like(t[g].path, t[f].path)
    PROVE  IsPrefix(t[f].path, t[g].path)
<1> DEFINE old == t[f].path
           q == t[g].path
<1>1. /\ old \in Seq(Name) /\ Len(old) \in Nat \ {0} /\ old # <<>>
      /\ q \in Seq(Name) /\ Len(q) \in Nat \ {0}
  BY PathsTyped DEF Rows
<1>2. Len(old) \in 1..Len(q)
  BY <1>1 DEF Like
<1>3. PICK a \in DOMAIN t : Len(t[a].path) = Len(old) /\ IsPrefix(t[a].path, q)
  BY <1>2, Ancestors
<1>4. t[a].path \in Seq(Name)
  BY PathsTyped
<1>5. \A i \in 1..Len(old) : t[a].path[i] = q[i]
  BY <1>1, <1>3, <1>4, PrefixNames
<1>6. Like(t[a].path, old)
  <2>1. PICK b : b = t[a].path
    OBVIOUS
  <2>2. Len(b) = Len(old) /\ \A i \in 1..Len(old) : b[i] = q[i]
    BY <1>3, <1>5, <2>1
  <2> HIDE DEF q, old
  <2>3. \A i \in 1..Len(old) : \/ q[i] = old[i] /\ old[i] \notin Escaped
                               \/ /\ <<old[i], q[i]>> \in DOMAIN Left
                                  /\ Left[<<old[i], q[i]>>] = <<>> \/ i = Len(old)
    <3>1. Like(q, old)
      BY DEF q, old
    <3> QED
      BY <3>1 DEF Like
  <2>4. Len(b) >= Len(old)
    BY <1>1, <2>2
  <2>5. Like(b, old)
    BY <2>2, <2>3, <2>4 DEF Like
  <2> QED
    BY <2>1, <2>5 DEF old
<1>7. CASE a = f
  BY <1>3, <1>7
<1>8. CASE a # f
  <2>1. u[a].path = Rebase(t[a].path, old, new)
    BY <1>6, <1>8
  <2>2. Rebase(t[a].path, old, new) = Regrafted(t[a].path, Len(t[a].path), new)
    BY <1>1, <1>3, <1>4, <1>6, LikeNames
  <2>3. Regrafted(t[a].path, Len(t[a].path), new) = new
    BY <1>4, RegraftedTop
  <2> QED
    BY <1>8, <2>1, <2>2, <2>3
<1> QED
  BY <1>7, <1>8

-----------------------------------------------------------------------------
(* The tree between the writes, as long as no write was based on old reads *)
(* and none left rows of its subtree on the old path.                      *)

(* What a request has read is still so.                                    *)
ReadsHold(t, r) ==
  /\ r.op = "create" =>
       /\ r.parent \in DOMAIN t \cup {Root}
       /\ r.path = Append(Above(t, r.parent), r.name) /\ r.depth = Level(t, r.parent)
  /\ r.op = "rename" =>
       /\ r.f \in DOMAIN t /\ r.old = t[r.f].path
       /\ r.path = Append(Front(r.old), r.name)
  /\ r.op = "move" =>
       /\ r.f \in DOMAIN t /\ r.parent \in DOMAIN t \cup {Root}
       /\ r.parent # Root => ~IsPrefix(t[r.f].path, t[r.parent].path)
       /\ r.old = t[r.f].path /\ r.from = t[r.f].depth
       /\ r.path = Append(Above(t, r.parent), t[r.f].name) /\ r.depth = Level(t, r.parent)

TreeInv ==
  ~overlapped /\ ~stranded =>
    /\ Hung(tree)
    /\ \A c \in Client :
         pending[c] # Idle /\ ~pending[c].late => ReadsHold(tree, pending[c])

(* The model's child paths and depths, for the tree as it is.              *)
LEMMA ChildIs ==
    ASSUME NEW p, NEW n \in Name
    PROVE  ChildPath(p, n) = Append(Above(tree, p), n) /\ ChildDepth(p) = Level(tree, p)
<1>1. Append(<<>>, n) = <<n>>
  <2>1. <<>> \in Seq(Name) /\ <<n>> \in Seq(Name)
    BY EmptySeq
  <2>2. Append(<<>>, n) = <<>> \o <<n>>
    BY <2>1, AppendIsConcat
  <2> QED
    BY <2>1, <2>2, ConcatEmptySeq
<1> QED
  BY <1>1 DEF ChildPath, ChildDepth, Above, Level

LEMMA TreeIsRows ==
    ASSUME ShapeInv
    PROVE  Rows(tree) /\ (Chained <=> Hung(tree))
<1>1. Root \notin DOMAIN tree
  BY RootIsNoFolder DEF ShapeInv, TypeOK, Live
<1>2. ASSUME NEW f \in DOMAIN tree
      PROVE  /\ tree[f].path \in Seq(Name) /\ tree[f].path # <<>>
             /\ tree[f].name \in Name /\ tree[f].depth \in Int
             /\ tree[f].parent \in DOMAIN tree \cup {Root}
  BY DepthIsNatural DEF ShapeInv, TypeOK, RowsInv, Row, Live
<1>3. Rows(tree)
  BY <1>1, <1>2 DEF Rows, ShapeInv, RowsInv, Live
<1>4. \A f \in DOMAIN tree :
        /\ ChildPath(tree[f].parent, tree[f].name)
             = Append(Above(tree, tree[f].parent), tree[f].name)
        /\ ChildDepth(tree[f].parent) = Level(tree, tree[f].parent)
  BY <1>2, ChildIs
<1>5. Chained <=> Hung(tree)
  BY <1>4 DEF Chained, Hung, Live
<1> QED
  BY <1>3, <1>5

(* A rename whose reads hold leaves f under its parent with the new name.  *)
LEMMA RenameGrafts ==
    ASSUME NoPercent, ShapeInv, Hung(tree), NEW r \in Requests, r.op = "rename",
           PathsGiven(r), ReadsHold(tree, r), ~Strands(r),
           NEW pl, Accepted(Renamed(r), pl)
    PROVE  /\ r.f \in Live /\ r.name \in Name
           /\ Grafted(tree, Renamed(r), r.f, tree[r.f].parent, r.name)
           /\ tree[r.f].parent # Root =>
                ~IsPrefix(tree[r.f].path, tree[tree[r.f].parent].path)
<1> DEFINE u == Renamed(r)
           f == r.f
           p == tree[f].parent
           old == tree[f].path
           new == Append(Above(tree, p), r.name)
<1>1. /\ f \in Live /\ r.old = old /\ r.path = Append(Front(old), r.name)
      /\ r.name \in Name
  BY RequestKinds DEF ReadsHold, Live
<1>2. Rows(tree) /\ DOMAIN tree = Live
  BY TreeIsRows DEF Live
<1>3. /\ old = Append(Above(tree, p), tree[f].name) /\ tree[f].depth = Level(tree, p)
      /\ Above(tree, p) \in Seq(Name) /\ tree[f].name \in Name /\ tree[f].depth \in Int
      /\ old \in Seq(Name) /\ old # <<>>
  BY <1>1, <1>2, PathsTyped DEF Rows, Hung
<1>4. Front(old) = Above(tree, p)
  BY <1>3, FrontOfChild
<1>5. r.path = new
  BY <1>1, <1>4
<1>6. new \in Seq(Name)
  BY <1>1, <1>3, AppendProperties
<1>7. /\ DOMAIN u = Live
      /\ \A g \in Live :
           /\ u[g].parent = tree[g].parent
           /\ u[g].depth = tree[g].depth
           /\ u[g].name = IF g = f THEN r.name ELSE tree[g].name
           /\ u[g].path = IF g = f THEN new
                          ELSE IF Like(tree[g].path, old)
                               THEN Rebase(tree[g].path, old, new)
                               ELSE tree[g].path
  BY <1>1, <1>5, RenamedRows, ZenonT(40)
<1>8. \A g, h \in DOMAIN u : u[g].path = u[h].path => g = h
  BY DEF Accepted
<1> HIDE DEF u, old, new, p
<1>9. ASSUME NEW g \in Live \ {f}
      PROVE  /\ Like(tree[g].path, old) <=> IsPrefix(old, tree[g].path)
             /\ Like(tree[g].path, old) =>
                  Rebase(tree[g].path, old, new) = Regrafted(tree[g].path, Len(old), new)
  <2>1. tree[g].path \in Seq(Name)
    BY <1>2, PathsTyped
  <2>2. IsPrefix(old, tree[g].path) => Like(tree[g].path, old)
    BY <1>1 DEF Strands
  <2>3. Like(tree[g].path, old) => IsPrefix(old, tree[g].path)
    BY <1>1, <1>2, <1>6, <1>7, <1>8, HitsAreBelow, SMTT(30) DEF old
  <2>4. ASSUME Like(tree[g].path, old)
        PROVE  Rebase(tree[g].path, old, new) = Regrafted(tree[g].path, Len(old), new)
    <3>1. PICK q \in Seq(Name) : q = tree[g].path
      BY <2>1
    <3>2. old \in Seq(Name) /\ old # <<>> /\ Like(q, old)
      BY <1>3, <2>4, <3>1
    <3>3. Rebase(q, old, new) = Regrafted(q, Len(old), new)
      BY <1>6, <3>2, LikeNames
    <3> QED BY <3>1, <3>3
  <2> QED
    BY <2>2, <2>3, <2>4
<1>10. \A g \in Live \ {f} :
         /\ u[g].parent = tree[g].parent /\ u[g].name = tree[g].name
         /\ IsPrefix(old, tree[g].path) =>
              /\ u[g].path = Regrafted(tree[g].path, Len(old), new)
              /\ u[g].depth = (tree[g].depth + Level(tree, p)) - tree[f].depth
         /\ ~IsPrefix(old, tree[g].path) =>
              u[g].path = tree[g].path /\ u[g].depth = tree[g].depth
  <2> SUFFICES ASSUME NEW g \in Live \ {f}
               PROVE  /\ u[g].parent = tree[g].parent /\ u[g].name = tree[g].name
                      /\ IsPrefix(old, tree[g].path) =>
                           /\ u[g].path = Regrafted(tree[g].path, Len(old), new)
                           /\ u[g].depth = (tree[g].depth + Level(tree, p)) - tree[f].depth
                      /\ ~IsPrefix(old, tree[g].path) =>
                           u[g].path = tree[g].path /\ u[g].depth = tree[g].depth
    OBVIOUS
  <2>1. tree[g].depth \in Int
    BY <1>2 DEF Rows
  <2>2. tree[g].depth = (tree[g].depth + Level(tree, p)) - tree[f].depth
    BY <1>3, <2>1
  <2> QED
    BY <1>7, <1>9, <2>2
<1>11. u[f].parent = p /\ u[f].name = r.name /\ u[f].path = new /\ u[f].depth = Level(tree, p)
  BY <1>1, <1>3, <1>7 DEF p
<1>12. Grafted(tree, u, f, p, r.name)
  BY <1>2, <1>7, <1>10, <1>11 DEF Grafted, old, new
<1>13. p # Root => ~IsPrefix(old, tree[p].path)
  <2> SUFFICES ASSUME p # Root PROVE ~IsPrefix(old, tree[p].path)
    OBVIOUS
  <2>1. p \in Live /\ Above(tree, p) = tree[p].path
    BY <1>1, <1>2, PathsTyped DEF Above, p
  <2>2. Len(old) = Len(tree[p].path) + 1 /\ Len(tree[p].path) \in Nat
        /\ tree[p].path \in Seq(Name)
    BY <1>1, <1>2, <2>1, ChildLength, PathsTyped DEF p, old
  <2>3. IsPrefix(old, tree[p].path) => Len(old) <= Len(tree[p].path)
    BY <1>3, <2>2, PrefixNames
  <2> QED
    BY <2>2, <2>3
<1> QED
  BY <1>1, <1>12, <1>13 DEF u, p, old

(* A move whose reads hold hangs the subtree of f under the new parent.    *)
LEMMA MoveGrafts ==
    ASSUME NoPercent, ShapeInv, Hung(tree), NEW r \in Requests, r.op = "move",
           PathsGiven(r), ReadsHold(tree, r), ~Strands(r),
           NEW pl, Accepted(Moved(r), pl)
    PROVE  /\ r.f \in Live /\ tree[r.f].name \in Name /\ r.parent \in Live \cup {Root}
           /\ Grafted(tree, Moved(r), r.f, r.parent, tree[r.f].name)
           /\ r.parent # Root => ~IsPrefix(tree[r.f].path, tree[r.parent].path)
<1> DEFINE u == Moved(r)
           f == r.f
           p == r.parent
           n == tree[f].name
           old == tree[f].path
           new == Append(Above(tree, p), n)
<1>1. /\ f \in Live /\ p \in Live \cup {Root}
      /\ p # Root => ~IsPrefix(old, tree[p].path)
      /\ r.old = old /\ r.from = tree[f].depth
      /\ r.path = new /\ r.depth = Level(tree, p)
  BY DEF ReadsHold, Live
<1>2. Rows(tree) /\ DOMAIN tree = Live
  BY TreeIsRows DEF Live
<1>3. n \in Name /\ old \in Seq(Name) /\ old # <<>>
  BY <1>1, <1>2 DEF Rows
<1>5. new \in Seq(Name)
  BY <1>1, RequestKinds
<1>6. /\ DOMAIN u = Live
      /\ \A g \in Live :
           /\ u[g].name = tree[g].name
           /\ u[g].parent = IF g = f THEN p ELSE tree[g].parent
           /\ u[g].depth = IF g = f THEN Level(tree, p)
                           ELSE IF Like(tree[g].path, old)
                                THEN (tree[g].depth + Level(tree, p)) - tree[f].depth
                                ELSE tree[g].depth
           /\ u[g].path = IF g = f THEN new
                          ELSE IF Like(tree[g].path, old)
                               THEN Rebase(tree[g].path, old, new)
                               ELSE tree[g].path
  <2>1. DOMAIN Moved(r) = Live
    BY MovedRows
  <2>2. ASSUME NEW g \in Live
        PROVE  /\ Moved(r)[g].name = tree[g].name
               /\ Moved(r)[g].parent = IF g = r.f THEN r.parent ELSE tree[g].parent
               /\ Moved(r)[g].depth = IF g = r.f THEN r.depth
                                      ELSE IF Like(tree[g].path, r.old)
                                           THEN (tree[g].depth + r.depth) - r.from
                                           ELSE tree[g].depth
               /\ Moved(r)[g].path = IF g = r.f THEN r.path
                                     ELSE IF Like(tree[g].path, r.old)
                                          THEN Rebase(tree[g].path, r.old, r.path)
                                          ELSE tree[g].path
    BY MovedRows
  <2> HIDE DEF old, new
  <2> QED
    BY <1>1, <2>1, <2>2
<1>7. \A g, h \in DOMAIN u : u[g].path = u[h].path => g = h
  BY DEF Accepted
<1> HIDE DEF u, old, new, p, n
<1>8. ASSUME NEW g \in Live \ {f}
      PROVE  /\ Like(tree[g].path, old) <=> IsPrefix(old, tree[g].path)
             /\ Like(tree[g].path, old) =>
                  Rebase(tree[g].path, old, new) = Regrafted(tree[g].path, Len(old), new)
  <2>1. tree[g].path \in Seq(Name)
    BY <1>2, PathsTyped
  <2>2. IsPrefix(old, tree[g].path) => Like(tree[g].path, old)
    BY <1>1 DEF Strands
  <2>3. Like(tree[g].path, old) => IsPrefix(old, tree[g].path)
    BY <1>1, <1>2, <1>5, <1>6, <1>7, HitsAreBelow DEF old
  <2>4. Like(tree[g].path, old) =>
          Rebase(tree[g].path, old, new) = Regrafted(tree[g].path, Len(old), new)
    BY <1>3, <1>5, <2>1, LikeNames
  <2> QED
    BY <2>2, <2>3, <2>4
<1>9. \A g \in Live \ {f} :
        /\ u[g].parent = tree[g].parent /\ u[g].name = tree[g].name
        /\ IsPrefix(old, tree[g].path) =>
             /\ u[g].path = Regrafted(tree[g].path, Len(old), new)
             /\ u[g].depth = (tree[g].depth + Level(tree, p)) - tree[f].depth
        /\ ~IsPrefix(old, tree[g].path) =>
             u[g].path = tree[g].path /\ u[g].depth = tree[g].depth
  BY <1>6, <1>8
<1>10. u[f].parent = p /\ u[f].name = n /\ u[f].path = new /\ u[f].depth = Level(tree, p)
  BY <1>1, <1>6 DEF n
<1>11. Grafted(tree, u, f, p, n)
  BY <1>2, <1>6, <1>9, <1>10 DEF Grafted, old, new
<1> QED
  BY <1>1, <1>3, <1>11 DEF u, p, old, n

(* A read is right about the tree it reads.                                *)
LEMMA BeginTree ==
    ASSUME ShapeInv, TreeInv, NEW c \in Client, NEW r, Begin(c, r),
           ~overlapped /\ ~stranded => ReadsHold(tree, r)
    PROVE  TreeInv'
<1>1. /\ tree' = tree /\ overlapped' = overlapped /\ stranded' = stranded
      /\ \A k \in Client : pending'[k] = IF k = c THEN r ELSE pending[k]
  BY DEF Begin, ShapeInv, TypeOK
<1> QED
  BY <1>1 DEF TreeInv

LEMMA TreeReads ==
    ASSUME ShapeInv, TreeInv, NEW c \in Client,
           \/ \E p \in Folder \cup {Root}, n \in Name : CreateRead(c, p, n)
           \/ \E f \in Folder, n \in Name : RenameRead(c, f, n)
           \/ \E f \in Folder, p \in Folder \cup {Root} : MoveRead(c, f, p)
           \/ \E f \in Folder : DeleteRead(c, f)
           \/ \E d \in Doc, f \in Folder \cup {Root} : PlaceRead(c, d, f)
    PROVE  TreeInv'
<1>1. ASSUME NEW p \in Folder \cup {Root}, NEW n \in Name, CreateRead(c, p, n)
      PROVE  TreeInv'
  <2>1. p \in DOMAIN tree \cup {Root} /\ Begin(c, CreateOf(p, n))
    BY <1>1 DEF CreateRead, CreateOf, Live
  <2>2. ChildPath(p, n) = Append(Above(tree, p), n) /\ ChildDepth(p) = Level(tree, p)
    BY ChildIs
  <2>3. ReadsHold(tree, CreateOf(p, n))
    BY <2>1, <2>2 DEF ReadsHold, CreateOf
  <2> QED
    BY <2>1, <2>3, BeginTree
<1>2. ASSUME NEW f \in Folder, NEW n \in Name, RenameRead(c, f, n)
      PROVE  TreeInv'
  <2>1. f \in DOMAIN tree /\ Begin(c, RenameOf(f, n))
    BY <1>2 DEF RenameRead, RenameOf, Live
  <2>2. ReadsHold(tree, RenameOf(f, n))
    BY <2>1 DEF ReadsHold, RenameOf
  <2> QED
    BY <2>1, <2>2, BeginTree
<1>3. ASSUME NEW f \in Folder, NEW p \in Folder \cup {Root}, MoveRead(c, f, p)
      PROVE  TreeInv'
  <2>1. /\ f \in DOMAIN tree /\ p \in DOMAIN tree \cup {Root}
        /\ p # Root => ~IsPrefix(tree[f].path, tree[p].path)
        /\ Begin(c, MoveOf(f, p))
    BY <1>3 DEF MoveRead, MoveOf, Live
  <2>2. tree[f].name \in Name
    BY <2>1, TreeIsRows DEF Rows
  <2>3. /\ ChildPath(p, tree[f].name) = Append(Above(tree, p), tree[f].name)
        /\ ChildDepth(p) = Level(tree, p)
    BY <2>2, ChildIs
  <2>4. ReadsHold(tree, MoveOf(f, p))
    BY <2>1, <2>3 DEF ReadsHold, MoveOf
  <2> QED
    BY <2>1, <2>4, BeginTree
<1>4. ASSUME NEW f \in Folder, DeleteRead(c, f)
      PROVE  TreeInv'
  <2> DEFINE r == [op |-> "delete", f |-> f, late |-> FALSE]
  <2>1. Begin(c, r)
    BY <1>4 DEF DeleteRead
  <2>2. ReadsHold(tree, r)
    BY DEF ReadsHold
  <2> QED
    BY <2>1, <2>2, BeginTree
<1>5. ASSUME NEW d \in Doc, NEW f \in Folder \cup {Root}, PlaceRead(c, d, f)
      PROVE  TreeInv'
  <2> DEFINE r == [op |-> "place", d |-> d, f |-> f, late |-> FALSE]
  <2>1. Begin(c, r)
    BY <1>5 DEF PlaceRead
  <2>2. ReadsHold(tree, r)
    BY DEF ReadsHold
  <2> QED
    BY <2>1, <2>2, BeginTree
<1> QED
  BY <1>1, <1>2, <1>3, <1>4, <1>5

(* A write that is taken makes the reads of the others late: only its own  *)
(* rows matter.  One that is refused changes nothing.                      *)
LEMMA FinishTree ==
    ASSUME ShapeInv, TreeInv, NEW c \in Client, pending[c] # Idle,
           NEW t, NEW pl, Finish(c, t, pl),
           ~overlapped /\ ~pending[c].late /\ ~stranded /\ ~Strands(pending[c])
             /\ Accepted(t, pl) => Hung(t)
    PROVE  TreeInv'
<1>1. /\ \A k \in Client : pending'[k] # Idle =>
           /\ pending[k] # Idle
           /\ Accepted(t, pl) => pending'[k].late = TRUE
           /\ ~Accepted(t, pl) => pending'[k] = pending[k]
      /\ tree' = IF Accepted(t, pl) THEN t ELSE tree
      /\ overlapped' = (overlapped \/ (Accepted(t, pl) /\ pending[c].late))
      /\ stranded' = (stranded \/ (Accepted(t, pl) /\ Strands(pending[c])))
  BY FinishOthers
<1>2. CASE Accepted(t, pl)
  <2>1. /\ tree' = t
        /\ ~overlapped' => ~overlapped /\ ~pending[c].late
        /\ ~stranded' => ~stranded /\ ~Strands(pending[c])
    BY <1>1, <1>2
  <2>2. \A k \in Client : pending'[k] # Idle => pending'[k].late = TRUE
    BY <1>1, <1>2
  <2> QED
    BY <1>2, <2>1, <2>2 DEF TreeInv
<1>3. CASE ~Accepted(t, pl)
  BY <1>1, <1>3 DEF TreeInv
<1> QED
  BY <1>2, <1>3

LEMMA TreeWrites ==
    ASSUME NoPercent, ShapeInv, TreeInv, NEW c \in Client,
           \/ CreateWrite(c) \/ RenameWrite(c) \/ MoveWrite(c)
           \/ DeleteWrite(c) \/ PlaceWrite(c)
    PROVE  TreeInv'
<1> DEFINE r == pending[c]
<1>1. r # Idle /\ r \in Requests /\ PathsGiven(r)
  BY Writes DEF ShapeInv, TypeOK
<1>2. ~overlapped /\ ~stranded /\ ~r.late => Hung(tree) /\ ReadsHold(tree, r)
  BY <1>1 DEF TreeInv
<1>3. Rows(tree) /\ DOMAIN tree = Live
  BY TreeIsRows DEF Live
<1>4. CASE CreateWrite(c)
  <2>1. PICK f \in Folder \ Live : Finish(c, Created(f, r), placed)
    BY <1>4, Writes
  <2> DEFINE t == Created(f, r)
  <2>2. ASSUME Hung(tree), ReadsHold(tree, r) PROVE Hung(t)
    <3>1. /\ r.parent \in Live \cup {Root} /\ r.depth = Level(tree, r.parent)
          /\ r.path = Append(Above(tree, r.parent), r.name)
      BY <1>3, <1>4, <2>2, Writes DEF ReadsHold
    <3>2. DOMAIN t = Live \cup {f} /\ \A g \in Live : t[g] = tree[g]
      BY DEF Created
    <3>3. t[f] = [parent |-> r.parent, name |-> r.name, path |-> r.path, depth |-> r.depth]
      BY DEF Created
    <3> HIDE DEF t
    <3>4. \A p \in Live \cup {Root} : Above(t, p) = Above(tree, p) /\ Level(t, p) = Level(tree, p)
      BY <3>2 DEF Above, Level
    <3>5. t[f].path = Append(Above(t, t[f].parent), t[f].name) /\ t[f].depth = Level(t, t[f].parent)
      BY <3>1, <3>3, <3>4
    <3>6. ASSUME NEW g \in Live
          PROVE  /\ t[g].path = Append(Above(t, t[g].parent), t[g].name)
                 /\ t[g].depth = Level(t, t[g].parent)
      <4>1. /\ tree[g].parent \in Live \cup {Root}
            /\ tree[g].path = Append(Above(tree, tree[g].parent), tree[g].name)
            /\ tree[g].depth = Level(tree, tree[g].parent)
        BY <1>3, <2>2 DEF Hung, Rows
      <4> QED
        BY <3>2, <3>4, <4>1
    <3> QED
      BY <3>2, <3>5, <3>6 DEF Hung
  <2> QED
    BY <1>1, <1>2, <2>1, <2>2, FinishTree
<1>5. CASE RenameWrite(c)
  <2>1. Finish(c, IF r.f \in Live THEN Renamed(r) ELSE tree, placed) /\ r.op = "rename"
    BY <1>5, Writes
  <2>2. CASE r.f \in Live
    <3>1. Finish(c, Renamed(r), placed)
      BY <2>1, <2>2
    <3>2. ASSUME Hung(tree), ReadsHold(tree, r), ~Strands(r), Accepted(Renamed(r), placed)
          PROVE  Hung(Renamed(r))
      <4>1. /\ r.f \in Live /\ r.name \in Name
            /\ Grafted(tree, Renamed(r), r.f, tree[r.f].parent, r.name)
            /\ tree[r.f].parent # Root =>
                 ~IsPrefix(tree[r.f].path, tree[tree[r.f].parent].path)
        BY <1>1, <2>1, <3>2, RenameGrafts
      <4>2. tree[r.f].parent \in DOMAIN tree \cup {Root}
        BY <1>3, <4>1 DEF Rows
      <4> QED
        BY <1>3, <3>2, <4>1, <4>2, GraftKeepsCopies
    <3> QED
      BY <1>1, <1>2, <3>1, <3>2, FinishTree
  <2>3. CASE r.f \notin Live
    <3>1. Finish(c, tree, placed)
      BY <2>1, <2>3
    <3> QED
      BY <1>1, <1>2, <3>1, FinishTree
  <2> QED
    BY <2>2, <2>3
<1>6. CASE MoveWrite(c)
  <2>1. Finish(c, IF r.f \in Live THEN Moved(r) ELSE tree, placed) /\ r.op = "move"
    BY <1>6, Writes
  <2>2. CASE r.f \in Live
    <3>1. Finish(c, Moved(r), placed)
      BY <2>1, <2>2
    <3>2. ASSUME Hung(tree), ReadsHold(tree, r), ~Strands(r), Accepted(Moved(r), placed)
          PROVE  Hung(Moved(r))
      <4>1. /\ r.f \in Live /\ tree[r.f].name \in Name /\ r.parent \in Live \cup {Root}
            /\ Grafted(tree, Moved(r), r.f, r.parent, tree[r.f].name)
            /\ r.parent # Root => ~IsPrefix(tree[r.f].path, tree[r.parent].path)
        BY <1>1, <2>1, <3>2, MoveGrafts
      <4> QED
        BY <1>3, <3>2, <4>1, GraftKeepsCopies
    <3> QED
      BY <1>1, <1>2, <3>1, <3>2, FinishTree
  <2>3. CASE r.f \notin Live
    <3>1. Finish(c, tree, placed)
      BY <2>1, <2>3
    <3> QED
      BY <1>1, <1>2, <3>1, FinishTree
  <2> QED
    BY <2>2, <2>3
<1>7. CASE DeleteWrite(c)
  <2> DEFINE t == Deleted(r.f)
  <2>1. Finish(c, t, placed)
    BY <1>7, Writes
  <2>2. ASSUME Hung(tree), Accepted(t, placed) PROVE Hung(t)
    <3>1. DOMAIN t = Live \ {r.f} /\ \A g \in DOMAIN t : t[g] = tree[g]
      BY DEF Deleted
    <3>2. \A g \in DOMAIN t : t[g].parent \in DOMAIN t \cup {Root}
      BY <2>2 DEF Accepted
    <3> HIDE DEF t
    <3>3. \A p \in DOMAIN t \cup {Root} :
            Above(t, p) = Above(tree, p) /\ Level(t, p) = Level(tree, p)
      BY <3>1 DEF Above, Level
    <3>4. ASSUME NEW g \in DOMAIN t
          PROVE  /\ t[g].path = Append(Above(t, t[g].parent), t[g].name)
                 /\ t[g].depth = Level(t, t[g].parent)
      <4>1. /\ tree[g].path = Append(Above(tree, tree[g].parent), tree[g].name)
            /\ tree[g].depth = Level(tree, tree[g].parent)
        BY <1>3, <2>2, <3>1 DEF Hung
      <4> QED
        BY <3>1, <3>2, <3>3, <4>1
    <3> QED
      BY <3>4 DEF Hung
  <2> QED
    BY <1>1, <1>2, <2>1, <2>2, FinishTree
<1>8. CASE PlaceWrite(c)
  <2>1. Finish(c, tree, [placed EXCEPT ![r.d] = r.f])
    BY <1>8, Writes
  <2> QED
    BY <1>1, <1>2, <2>1, FinishTree
<1> QED
  BY <1>4, <1>5, <1>6, <1>7, <1>8

LEMMA TreeInit == Init => TreeInv
BY DEF Init, TreeInv, Hung

LEMMA TreeStep == NoPercent /\ ShapeInv /\ TreeInv /\ [Next]_vars => TreeInv'
<1> SUFFICES ASSUME NoPercent, ShapeInv, TreeInv, [Next]_vars PROVE TreeInv'
  OBVIOUS
<1>1. CASE Next
  BY <1>1, TreeReads, TreeWrites DEF Next
<1>2. CASE UNCHANGED vars
  BY <1>2 DEF vars, TreeInv
<1> QED
  BY <1>1, <1>2

(* The copies agree with the parents after any sequence of creates,        *)
(* renames, moves and deletes of whole subtrees, for any number of folders *)
(* and levels, until a write follows reads another write has made old, or  *)
(* a folder with a backslash in its path is renamed or moved while LIKE    *)
(* misses rows below it.  A name may hold "_" or a backslash, not a "%".   *)
THEOREM CopiesFollowParents ==
    ASSUME NoPercent
    PROVE  Spec => []ChainedUnlessLeft
<1>1. ShapeInv /\ TreeInv => ChainedUnlessLeft
  BY TreeIsRows DEF TreeInv, ChainedUnlessLeft
<1>2. ShapeInv /\ TreeInv /\ [Next]_vars => ShapeInv' /\ TreeInv'
  BY ShapeStep, TreeStep
<1> QED
  BY <1>1, <1>2, ShapeInit, TreeInit, PTL DEF Spec

(* No folder is its own ancestor: the check of a move on paths is a check  *)
(* on parents, as long as the paths are copies of the parents: no write    *)
(* followed old reads, and none left rows below its folder behind.         *)
THEOREM ParentsHaveNoCycle ==
    ASSUME NoPercent
    PROVE  Spec => []NoCycleUnlessLeft
<1>1. ShapeInv /\ TreeInv => NoCycleUnlessLeft
  <2> SUFFICES ASSUME ShapeInv, TreeInv, ~overlapped, ~stranded PROVE NoCycle
    BY DEF NoCycleUnlessLeft
  <2> QED
    BY TreeIsRows, ParentsLeadOut DEF TreeInv, NoCycle, Live
<1>2. ShapeInv /\ TreeInv /\ [Next]_vars => ShapeInv' /\ TreeInv'
  BY ShapeStep, TreeStep
<1> QED
  BY <1>1, <1>2, ShapeInit, TreeInit, PTL DEF Spec

-----------------------------------------------------------------------------
(* Which paths a step changes.                                             *)

(* g's path changes below a folder that gets another name or parent.       *)
Excused(g) ==
  \/ overlapped' \/ stranded'
  \/ \E f \in Live \cap DOMAIN tree' :
       /\ IsPrefix(tree[f].path, tree[g].path)
       /\ tree'[f].name # tree[f].name \/ tree'[f].parent # tree[f].parent

(* A graft changes paths below f, and only with f's name or parent.        *)
LEMMA GraftIsLocal ==
    ASSUME NEW t, NEW u, NEW f \in DOMAIN t, NEW p \in DOMAIN t \cup {Root}, NEW n \in Name,
           Rows(t), Hung(t), Grafted(t, u, f, p, n),
           NEW g \in DOMAIN t, u[g].path # t[g].path
    PROVE  /\ IsPrefix(t[f].path, t[g].path)
           /\ u[f].name # t[f].name \/ u[f].parent # t[f].parent
<1>1. /\ t[f].path \in Seq(Name) /\ t[g].path \in Seq(Name)
      /\ t[f].path = Append(Above(t, t[f].parent), t[f].name)
  BY PathsTyped DEF Hung
<1>2. IsPrefix(t[f].path, t[g].path)
  <2>1. CASE g = f
    BY <1>1, <2>1, PrefixOfItself
  <2>2. CASE g # f
    BY <2>2 DEF Grafted
  <2> QED
    BY <2>1, <2>2
<1>3. ASSUME u[f].name = t[f].name, u[f].parent = t[f].parent
      PROVE  FALSE
  <2>1. Append(Above(t, p), n) = t[f].path
    BY <1>1, <1>3 DEF Grafted
  <2>2. CASE g = f
    BY <2>1, <2>2 DEF Grafted
  <2>3. CASE g # f
    <3>1. u[g].path = Regrafted(t[g].path, Len(t[f].path), t[f].path)
      BY <1>2, <2>1, <2>3 DEF Grafted
    <3> QED
      BY <1>1, <1>2, <3>1, RegraftedSame
  <2> QED
    BY <2>2, <2>3
<1> QED
  BY <1>2, <1>3

(* A write of rows that keeps every path it does not take, or grafts.      *)
LEMMA FinishIsLocal ==
    ASSUME ShapeInv, NEW c \in Client, NEW t, NEW pl, Finish(c, t, pl),
           NEW g \in Live \cap DOMAIN tree', tree'[g].path # tree[g].path
    PROVE  /\ Accepted(t, pl) /\ tree' = t
           /\ pending[c].late \/ overlapped => overlapped'
           /\ stranded \/ Strands(pending[c]) => stranded'
<1>1. /\ tree' = IF Accepted(t, pl) THEN t ELSE tree
      /\ overlapped' = (overlapped \/ (Accepted(t, pl) /\ pending[c].late))
      /\ stranded' = (stranded \/ (Accepted(t, pl) /\ Strands(pending[c])))
  BY FinishOthers
<1>2. Accepted(t, pl)
  BY <1>1
<1> QED
  BY <1>1, <1>2

LEMMA LocalStep ==
    ASSUME NoPercent, ShapeInv, TreeInv, [Next]_vars,
           NEW g \in Live \cap DOMAIN tree', tree'[g].path # tree[g].path
    PROVE  Excused(g)
<1>1. tree' # tree
  OBVIOUS
<1>2. Next
  BY <1>1 DEF vars
<1>3. PICK c \in Client :
        \/ CreateWrite(c) \/ RenameWrite(c) \/ MoveWrite(c)
        \/ DeleteWrite(c) \/ PlaceWrite(c)
  BY <1>1, <1>2 DEF Next, CreateRead, RenameRead, MoveRead, DeleteRead, PlaceRead, Begin
<1> DEFINE r == pending[c]
<1>4. r # Idle /\ r \in Requests /\ PathsGiven(r)
  BY <1>3, Writes DEF ShapeInv, TypeOK
<1>5. ~overlapped /\ ~stranded /\ ~r.late => Hung(tree) /\ ReadsHold(tree, r)
  BY <1>4 DEF TreeInv
<1>6. Rows(tree) /\ DOMAIN tree = Live
  BY TreeIsRows DEF Live
<1>7. CASE CreateWrite(c)
  <2>1. PICK f \in Folder \ Live : Finish(c, Created(f, r), placed)
    BY <1>7, Writes
  <2>2. tree' = Created(f, r)
    BY <2>1, FinishIsLocal
  <2>3. tree'[g] = tree[g]
    BY <2>2 DEF Created
  <2> QED
    BY <2>3
<1>8. CASE RenameWrite(c)
  <2>1. Finish(c, IF r.f \in Live THEN Renamed(r) ELSE tree, placed) /\ r.op = "rename"
    BY <1>8, Writes
  <2>2. r.f \in Live
    BY <1>1, <2>1, FinishIsLocal
  <2>3. Finish(c, Renamed(r), placed)
    BY <2>1, <2>2
  <2>4. /\ Accepted(Renamed(r), placed) /\ tree' = Renamed(r)
        /\ r.late \/ overlapped => overlapped'
        /\ stranded \/ Strands(r) => stranded'
    BY <2>3, FinishIsLocal
  <2>5. CASE r.late \/ overlapped \/ stranded \/ Strands(r)
    BY <2>4, <2>5 DEF Excused
  <2>6. CASE ~r.late /\ ~overlapped /\ ~stranded /\ ~Strands(r)
    <3>1. Hung(tree) /\ ReadsHold(tree, r)
      BY <1>5, <2>6
    <3>2. /\ r.f \in Live /\ r.name \in Name
          /\ Grafted(tree, Renamed(r), r.f, tree[r.f].parent, r.name)
      BY <1>4, <2>1, <2>4, <2>6, <3>1, RenameGrafts
    <3>3. tree[r.f].parent \in DOMAIN tree \cup {Root}
      BY <1>6, <3>2 DEF Rows
    <3>4. /\ IsPrefix(tree[r.f].path, tree[g].path)
          /\ tree'[r.f].name # tree[r.f].name \/ tree'[r.f].parent # tree[r.f].parent
      BY <1>6, <2>4, <3>1, <3>2, <3>3, GraftIsLocal
    <3>5. DOMAIN tree' = DOMAIN tree
      BY <2>4, <3>2 DEF Grafted
    <3> QED
      BY <1>6, <3>2, <3>4, <3>5 DEF Excused
  <2> QED
    BY <2>5, <2>6
<1>9. CASE MoveWrite(c)
  <2>1. Finish(c, IF r.f \in Live THEN Moved(r) ELSE tree, placed) /\ r.op = "move"
    BY <1>9, Writes
  <2>2. r.f \in Live
    BY <1>1, <2>1, FinishIsLocal
  <2>3. Finish(c, Moved(r), placed)
    BY <2>1, <2>2
  <2>4. /\ Accepted(Moved(r), placed) /\ tree' = Moved(r)
        /\ r.late \/ overlapped => overlapped'
        /\ stranded \/ Strands(r) => stranded'
    BY <2>3, FinishIsLocal
  <2>5. CASE r.late \/ overlapped \/ stranded \/ Strands(r)
    BY <2>4, <2>5 DEF Excused
  <2>6. CASE ~r.late /\ ~overlapped /\ ~stranded /\ ~Strands(r)
    <3>1. Hung(tree) /\ ReadsHold(tree, r)
      BY <1>5, <2>6
    <3>2. /\ r.f \in Live /\ tree[r.f].name \in Name /\ r.parent \in Live \cup {Root}
          /\ Grafted(tree, Moved(r), r.f, r.parent, tree[r.f].name)
      BY <1>4, <2>1, <2>4, <2>6, <3>1, MoveGrafts
    <3>3. /\ IsPrefix(tree[r.f].path, tree[g].path)
          /\ tree'[r.f].name # tree[r.f].name \/ tree'[r.f].parent # tree[r.f].parent
      BY <1>6, <2>4, <3>1, <3>2, GraftIsLocal
    <3>4. DOMAIN tree' = DOMAIN tree
      BY <2>4, <3>2 DEF Grafted
    <3> QED
      BY <1>6, <3>2, <3>3, <3>4 DEF Excused
  <2> QED
    BY <2>5, <2>6
<1>10. CASE DeleteWrite(c)
  <2>1. tree' = Deleted(r.f)
    BY <1>10, Writes, FinishIsLocal
  <2>2. tree'[g] = tree[g]
    BY <2>1 DEF Deleted
  <2> QED
    BY <2>2
<1>11. CASE PlaceWrite(c)
  BY <1>1, <1>11, Writes, FinishIsLocal
<1> QED
  BY <1>3, <1>7, <1>8, <1>9, <1>10, <1>11

(* A rename or a move rewrites the paths of its own subtree only: no row   *)
(* beside the subtree that "LIKE old%" finds, for a "_" or a backslash in  *)
(* old, keeps a rewritten path, until a write follows reads another has    *)
(* made old or leaves rows of its own subtree behind.                      *)
THEOREM WritesStayInTheirSubtree ==
    ASSUME NoPercent
    PROVE  Spec => OnlyTheSubtreeMoves
<1>1. ShapeInv /\ TreeInv /\ [Next]_vars =>
        [\A g \in Live \cap DOMAIN tree' :
           tree'[g].path # tree[g].path =>
             \/ overlapped' \/ stranded'
             \/ \E f \in Live \cap DOMAIN tree' :
                  /\ IsPrefix(tree[f].path, tree[g].path)
                  /\ \/ tree'[f].name # tree[f].name
                     \/ tree'[f].parent # tree[f].parent]_vars
  BY LocalStep DEF Excused
<1>2. ShapeInv /\ TreeInv /\ [Next]_vars => ShapeInv' /\ TreeInv'
  BY ShapeStep, TreeStep
<1> QED
  BY <1>1, <1>2, ShapeInit, TreeInit, PTL DEF Spec, OnlyTheSubtreeMoves
=============================================================================
