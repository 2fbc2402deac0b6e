------------------------------- MODULE Folders -------------------------------
(***************************************************************************)
(* The folder tree of one owner (app/services/folders_service.py and       *)
(* app/repositories/folders_repository.py).  A folder row keeps its parent *)
(* AND a copy of where it stands: the materialized path and the depth.     *)
(* Every change of a parent or of a name has to rewrite the copies of the  *)
(* whole subtree, which the code finds with "path LIKE <old path>%".       *)
(*                                                                         *)
(* A request is two steps: what it READS (ownership, the parent, the cycle *)
(* and depth checks, the counts of a delete) and, later, its WRITE, the    *)
(* statements and the commit.  No row is locked in between, so the writes  *)
(* of other requests fall between the two.  The table's constraints are    *)
(* checked at the write; a statement they refuse rolls the request back.   *)
(*                                                                         *)
(* A path is the sequence of its names.  In LIKE a name may stand for      *)
(* another one: "my_list" for "my-list", "50%" for "50% off", or "50\%"    *)
(* for "50%", since a backslash escapes the character after it.  Left      *)
(* gives, for such a pair, what is left of the other name once as many     *)
(* characters as the pattern has are cut off: nothing, or a shorter name   *)
(* (modelled where it is the last name of the pattern).  For the same      *)
(* reason a name with a backslash does not stand for itself: those names   *)
(* are Escaped, and LIKE does not find what is below such a folder.        *)
(*                                                                         *)
(* Where the pattern is longer than the name it stands for (the backslash) *)
(* the cut takes more than the name; Left gives <<>> there.  It makes no   *)
(* difference: such a row, or the one above it at the pattern's length,    *)
(* would get the path of the folder itself, and the write is refused.      *)
(***************************************************************************)
EXTENDS Integers, Sequences, SequencesExt, FiniteSets

CONSTANTS Folder,     \* identifiers of folder rows
          Name,       \* folder names
          Doc,        \* documents
          Client,     \* requests that may be under way at one time
          MaxDepth,   \* FOLDER_PATH_MAX_DEPTH (10 in the code)
          Left,       \* [pairs of names -> Seq(Name)]: LIKE beyond equality
          Escaped,    \* names that do not match themselves in LIKE
          Root,       \* "no folder": the parent of a root, a document unplaced
          Idle        \* a client with no request under way

ASSUME DepthIsNatural == MaxDepth \in Nat
ASSUME RootIsNoFolder == Root \notin Folder
ASSUME LeftIsNames == \A pair \in DOMAIN Left : Left[pair] \in Seq(Name)
ASSUME EscapedAreNames == Escaped \subseteq Name

VARIABLES tree,       \* live folders -> [parent, name, path, depth]
          placed,     \* document_folder: Doc -> Folder or Root
          pending,    \* Client -> the request it has read for, or Idle
          overlapped, \* history: a write followed reads another write made old
          stranded    \* history: LIKE missed a row below a renamed or moved folder

vars == <<tree, placed, pending, overlapped, stranded>>

Live == DOMAIN tree

Row == [parent : Folder \cup {Root}, name : Name,
        path : Seq(Name), depth : 0..MaxDepth]

\* compute_child_path
ChildPath(parent, name) ==
  IF parent = Root THEN <<name>> ELSE Append(tree[parent].path, name)

\* Mutant: a root takes its parent's -1 for its own depth.
ChildDepthFromMinusOne(parent) ==
  IF parent = Root THEN -1 ELSE tree[parent].depth + 1

ChildDepth(parent) == IF parent = Root THEN 0 ELSE tree[parent].depth + 1

\* q LIKE p || '%': every name of p is q's or a pattern for it.
Like(q, p) ==
  /\ Len(q) >= Len(p)
  /\ \A i \in 1..Len(p) :
       \/ q[i] = p[i] /\ p[i] \notin Escaped
       \/ /\ <<p[i], q[i]>> \in DOMAIN Left
          /\ Left[<<p[i], q[i]>>] = <<>> \/ i = Len(p)

\* The rename or move r leaves a row below its folder on the old path.
Strands(r) ==
  /\ r.op \in {"rename", "move"}
  /\ \E g \in Live \ {r.f} : IsPrefix(r.old, tree[g].path) /\ ~Like(tree[g].path, r.old)

\* new || substring(q FROM length(p) + 1)
Rebase(q, p, new) ==
  LET k == Len(p)
  IN  new \o (IF q[k] = p[k] THEN <<>> ELSE Left[<<p[k], q[k]>>])
          \o SubSeq(q, k + 1, Len(q))

\* uq_folders_owner_path, chk_folders_depth_max, chk_folders_no_self_parent
\* and the foreign keys (ON DELETE RESTRICT).
Accepted(newTree, newPlaced) ==
  /\ \A f, g \in DOMAIN newTree : newTree[f].path = newTree[g].path => f = g
  /\ \A f \in DOMAIN newTree : /\ newTree[f].depth \in 0..MaxDepth
                               /\ newTree[f].parent # f
                               /\ newTree[f].parent \in DOMAIN newTree \cup {Root}
  /\ \A d \in Doc : newPlaced[d] \in DOMAIN newTree \cup {Root}

-----------------------------------------------------------------------------
\* The reads of a request are done: remember them until its write.  late: the
\* write of another request was committed since.
Begin(c, request) ==
  /\ pending[c] = Idle
  /\ pending' = [pending EXCEPT ![c] = request]
  /\ UNCHANGED <<tree, placed, overlapped, stranded>>

\* The write of c: commit, or roll back when the table refuses it.
Finish(c, newTree, newPlaced) ==
  LET ok == Accepted(newTree, newPlaced)
  IN  /\ tree' = IF ok THEN newTree ELSE tree
      /\ placed' = IF ok THEN newPlaced ELSE placed
      /\ overlapped' = (overlapped \/ (ok /\ pending[c].late))
      /\ stranded' = (stranded \/ (ok /\ Strands(pending[c])))
      /\ pending' = [k \in Client |->
                       IF k = c THEN Idle
                       ELSE IF ok /\ pending[k] # Idle
                            THEN [pending[k] EXCEPT !.late = TRUE]
                            ELSE pending[k]]

\* POST /folders.  Bound: as many folders as there are identifiers.
CreateRead(c, parent, name) ==
  /\ Cardinality(Live) + Cardinality({k \in Client : pending[k] # Idle /\ pending[k].op = "create"})
       < Cardinality(Folder)
  /\ parent \in Live \cup {Root}
  /\ ChildDepth(parent) <= MaxDepth
  /\ Begin(c, [op |-> "create", parent |-> parent, name |-> name,
               path |-> ChildPath(parent, name), depth |-> ChildDepth(parent),
               late |-> FALSE])

CreateWrite(c) ==
  /\ pending[c] # Idle /\ pending[c].op = "create"
  /\ \E f \in Folder \ Live :
       Finish(c, [g \in Live \cup {f} |->
                    IF g = f THEN [parent |-> pending[c].parent, name |-> pending[c].name,
                                   path |-> pending[c].path, depth |-> pending[c].depth]
                             ELSE tree[g]],
              placed)

\* PATCH /folders/{id}: the new path keeps the prefix of the row as read.
RenameRead(c, f, name) ==
  /\ f \in Live
  /\ Begin(c, [op |-> "rename", f |-> f, name |-> name, old |-> tree[f].path,
               path |-> Append(Front(tree[f].path), name), late |-> FALSE])

\* Mutant: the subtree keeps the old path.
RenameWriteOneRow(c) ==
  LET r == pending[c]
      renamed == [g \in Live |->
                    IF g = r.f THEN [tree[g] EXCEPT !.name = r.name, !.path = r.path]
                               ELSE tree[g]]
  IN  /\ r # Idle /\ r.op = "rename"
      /\ Finish(c, IF r.f \in Live THEN renamed ELSE tree, placed)

\* Mutant: every deeper row is rewritten.
RenameWriteAllBelow(c) ==
  LET r == pending[c]
      renamed == [g \in Live |->
                    IF g = r.f THEN [tree[g] EXCEPT !.name = r.name, !.path = r.path]
                    ELSE IF Len(tree[g].path) > Len(r.old)
                         THEN [tree[g] EXCEPT !.path =
                                 r.path \o SubSeq(@, Len(r.old) + 1, Len(@))]
                         ELSE tree[g]]
  IN  /\ r # Idle /\ r.op = "rename"
      /\ Finish(c, IF r.f \in Live THEN renamed ELSE tree, placed)

RenameWrite(c) ==
  LET r == pending[c]
      renamed == [g \in Live |->
                    IF g = r.f THEN [tree[g] EXCEPT !.name = r.name, !.path = r.path]
                    ELSE IF Like(tree[g].path, r.old)
                         THEN [tree[g] EXCEPT !.path = Rebase(@, r.old, r.path)]
                         ELSE tree[g]]
  IN  /\ r # Idle /\ r.op = "rename"
      /\ Finish(c, IF r.f \in Live THEN renamed ELSE tree, placed)

\* Mutant: the new parent may be below the folder.
MoveReadIntoOwnSubtree(c, f, parent) ==
  /\ f \in Live /\ parent \in Live \cup {Root}
  /\ parent # f
  /\ \A g \in Live : IsPrefix(tree[f].path, tree[g].path)
       => tree[g].depth + ChildDepth(parent) <= MaxDepth + tree[f].depth
  /\ Begin(c, [op |-> "move", f |-> f, parent |-> parent, old |-> tree[f].path,
               path |-> ChildPath(parent, tree[f].name),
               depth |-> ChildDepth(parent), from |-> tree[f].depth, late |-> FALSE])

\* POST /folders/{id}/move: own subtree refused, depth of the subtree bounded.
MoveRead(c, f, parent) ==
  /\ f \in Live /\ parent \in Live \cup {Root}
  /\ parent # f
  /\ parent # Root => ~IsPrefix(tree[f].path, tree[parent].path)
  /\ \A g \in Live : IsPrefix(tree[f].path, tree[g].path)
       => tree[g].depth + ChildDepth(parent) <= MaxDepth + tree[f].depth
  /\ Begin(c, [op |-> "move", f |-> f, parent |-> parent, old |-> tree[f].path,
               path |-> ChildPath(parent, tree[f].name),
               depth |-> ChildDepth(parent), from |-> tree[f].depth, late |-> FALSE])

MoveWrite(c) ==
  LET r == pending[c]
      hit == {g \in Live \ {r.f} : Like(tree[g].path, r.old)}
      moved == [g \in Live |->
                  IF g = r.f THEN [tree[g] EXCEPT !.parent = r.parent, !.path = r.path,
                                                  !.depth = r.depth]
                  ELSE IF g \in hit
                       THEN [tree[g] EXCEPT !.path = Rebase(@, r.old, r.path),
                                            !.depth = (@ + r.depth) - r.from]
                       ELSE tree[g]]
  IN  /\ r # Idle /\ r.op = "move"
      /\ Finish(c, IF r.f \in Live THEN moved ELSE tree, placed)

\* DELETE /folders/{id}: delete_if_empty counts children and documents first.
DeleteRead(c, f) ==
  /\ f \in Live
  /\ \A g \in Live : tree[g].parent # f
  /\ \A d \in Doc : placed[d] # f
  /\ Begin(c, [op |-> "delete", f |-> f, late |-> FALSE])

DeleteWrite(c) ==
  /\ pending[c] # Idle /\ pending[c].op = "delete"
  /\ Finish(c, [g \in Live \ {pending[c].f} |-> tree[g]], placed)

\* PUT of a document's folder: an upsert, or a delete of the row.
PlaceRead(c, d, f) ==
  /\ f \in Live \cup {Root}
  /\ Begin(c, [op |-> "place", d |-> d, f |-> f, late |-> FALSE])

PlaceWrite(c) ==
  /\ pending[c] # Idle /\ pending[c].op = "place"
  /\ Finish(c, tree, [placed EXCEPT ![pending[c].d] = pending[c].f])

-----------------------------------------------------------------------------
Init ==
  /\ tree = <<>>
  /\ placed = [d \in Doc |-> Root]
  /\ pending = [c \in Client |-> Idle]
  /\ overlapped = FALSE
  /\ stranded = FALSE

Next ==
  \E c \in Client :
    \/ \E p \in Folder \cup {Root}, n \in Name : CreateRead(c, p, n)
    \/ CreateWrite(c)
    \/ \E f \in Folder, n \in Name : RenameRead(c, f, n)
    \/ RenameWrite(c)
    \/ \E f \in Folder, p \in Folder \cup {Root} : MoveRead(c, f, p)
    \/ MoveWrite(c)
    \/ \E f \in Folder : DeleteRead(c, f)
    \/ DeleteWrite(c)
    \/ \E d \in Doc, f \in Folder \cup {Root} : PlaceRead(c, d, f)
    \/ PlaceWrite(c)

Spec == Init /\ [][Next]_vars

-----------------------------------------------------------------------------
Requests ==
  [op : {"create"}, parent : Folder \cup {Root}, name : Name, path : Seq(Name),
   depth : Nat, late : BOOLEAN]
  \cup [op : {"rename"}, f : Folder, name : Name, old : Seq(Name),
        path : Seq(Name), late : BOOLEAN]
  \cup [op : {"move"}, f : Folder, parent : Folder \cup {Root}, old : Seq(Name),
        path : Seq(Name), depth : Nat, from : Nat, late : BOOLEAN]
  \cup [op : {"delete"}, f : Folder, late : BOOLEAN]
  \cup [op : {"place"}, d : Doc, f : Folder \cup {Root}, late : BOOLEAN]

\* Every row, placement and remembered request has the shape of its table.
TypeOK ==
  /\ Live \subseteq Folder /\ \A f \in Live : tree[f] \in Row
  /\ placed \in [Doc -> Folder \cup {Root}]
  /\ pending \in [Client -> Requests \cup {Idle}]
  /\ overlapped \in BOOLEAN
  /\ stranded \in BOOLEAN

\* The copies agree with the parents: a folder's path is its parent's path
\* and its own name (<parent.path><name>/), its depth one more.
Chained ==
  \A f \in Live : /\ tree[f].path = ChildPath(tree[f].parent, tree[f].name)
                  /\ tree[f].depth = ChildDepth(tree[f].parent)

\* Over any sequence of renames and moves of whole subtrees the copies stay
\* right, as long as no write follows reads another write has made old, and
\* no folder with a backslash in its path is renamed or moved while LIKE
\* misses what is below it.
ChainedUnlessLeft == overlapped \/ stranded \/ Chained

\* No folder is its own ancestor: no set of folders whose parents are all in it.
NoCycle == \A S \in (SUBSET Live) \ {{}} : \E f \in S : tree[f].parent \notin S

\* The subtree check of a move, made on paths, keeps the parents free of
\* cycles as long as the paths are right: until a write follows reads another
\* write has made old, or leaves rows below its folder on the old path.
NoCycleUnlessLeft == overlapped \/ stranded \/ NoCycle

\* A rename or a move rewrites the paths of its own subtree only: a path
\* changes only below a folder whose name or parent changes in that step,
\* as long as Left leaves nothing of another name: what a "%" leaves is kept.
\* What LIKE finds beside the subtree ("_", a backslash) is never rewritten,
\* because the unique paths then refuse the write.
OnlyTheSubtreeMoves ==
  [][\A g \in Live \cap DOMAIN tree' :
       tree'[g].path # tree[g].path =>
         \/ overlapped' \/ stranded'
         \/ \E f \in Live \cap DOMAIN tree' :
              /\ IsPrefix(tree[f].path, tree[g].path)
              /\ \/ tree'[f].name # tree[f].name
                 \/ tree'[f].parent # tree[f].parent]_vars
=============================================================================
