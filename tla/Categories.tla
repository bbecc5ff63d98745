----------------------------- MODULE Categories -----------------------------
(***************************************************************************)
(* The category tree of catalog-service.  A category stores its full path, *)
(* so that a change of name or parent has to be carried to everything      *)
(* below it.                                                               *)
(*                                                                         *)
(* An update reads the category and its new parent, checks that no cycle   *)
(* arises, and writes the category and all it finds below it in a          *)
(* transaction of its own; nothing is locked in between.                   *)
(*                                                                         *)
(* Data: a path is the sequence of its slugs, and a level the length of    *)
(* the path; a slug is the category with the number of its renamings.      *)
(***************************************************************************)
EXTENDS Naturals, Sequences, FiniteSets

CONSTANTS
    Cats,
    Root,        \* stands for no parent
    MaxRenames,  \* bound: renamings of a category
    MaxEdits     \* bound: edits in flight

VARIABLES
    live,     \* categories that were created and not deleted
    parent,   \* Category.parent; Cats that are not there have none
    slug,     \* Category.slug
    path,     \* Category.full_path; <<>> before the category is created
    edits,    \* creations and updates between their reads and their write
    met       \* two of them have overlapped

tree == <<live, parent, slug, path>>
vars == <<tree, edits, met>>

Slugs == Cats \X Nat

TypeOK ==
    /\ live \subseteq Cats
    /\ parent \in [Cats -> Cats \union {Root}]
    /\ slug \in [Cats -> Slugs]
    /\ path \in [Cats -> Seq(Slugs)]
    /\ edits \subseteq [cat : Cats, live : BOOLEAN, parent : Cats \union {Root},
                       slug : Slugs, path : Seq(Slugs), to : Cats \union {Root},
                       above : Seq(Slugs), renames : BOOLEAN]
    /\ met \in BOOLEAN

Init ==
    /\ live = {}
    /\ parent = [c \in Cats |-> Root]
    /\ slug = [c \in Cats |-> <<c, 0>>]
    /\ path = [c \in Cats |-> <<>>]
    /\ edits = {} /\ met = FALSE

------------------------------------------------------------------------------

There(c) == path[c] # <<>>
PathOf(p) == IF p = Root THEN <<>> ELSE path[p]

\* What the request has read: the category, and its new parent's path.
Read(c, to, renames) ==
    [cat |-> c, live |-> There(c), parent |-> parent[c], slug |-> slug[c],
     path |-> path[c], to |-> to, above |-> PathOf(to), renames |-> renames]

Begin(e) ==
    /\ Cardinality(edits) < MaxEdits
    /\ edits' = edits \union {e}
    /\ met' = (met \/ edits # {})
    /\ UNCHANGED tree

BeginCreate(c, to) ==
    /\ ~There(c) /\ \A e \in edits : e.cat # c
    /\ to \in live \union {Root}
    /\ Begin(Read(c, to, FALSE))

\* _check_cycle climbs from the new parent, through deleted categories too: what it
\* meets is the least set that has p, and with a category its parent.
Ancestors(p) ==
    {a \in Cats : \A S \in SUBSET Cats :
        p \in S /\ (\A q \in S : parent[q] \in S \union {Root}) => a \in S}

\* An update always names a parent or, with Root, leaves it as it is.
BeginUpdate(c, to, renames) ==
    /\ c \in live /\ to \in live \union {Root}
    /\ to # Root => c \notin Ancestors(to)
    /\ renames => slug[c][2] < MaxRenames
    /\ Begin(Read(c, to, renames))

SaveCreate(e) ==
    /\ ~e.live
    /\ live' = live \union {e.cat}
    /\ parent' = [parent EXCEPT ![e.cat] = e.to]
    /\ path' = [path EXCEPT ![e.cat] = Append(e.above, e.slug)]
    /\ edits' = edits \ {e}
    /\ UNCHANGED <<slug, met>>

\* Mutant: the children are updated, and theirs are not.
ChildrenOnly(c) == {k \in live : parent[k] = c}

\* What comes into the queue of _cascade_update_descendants, the least set that has,
\* with a category, its children: deleted children are not found, nor what is below
\* them.
Descendants(c) ==
    {k \in Cats \ {c} : \A S \in SUBSET Cats :
        c \in S /\ (\A j \in live : parent[j] \in S => j \in S) => k \in S}

\* The paths after the category of e has got this slug and this path.
Cascade(e, top) ==
    LET below == Descendants(e.cat)
        new[k \in below \union {e.cat}] ==
            IF k = e.cat THEN top ELSE Append(new[parent[k]], slug[k])
    IN  [k \in Cats |-> IF k \in below \union {e.cat} THEN new[k] ELSE path[k]]

Moves(e) == e.to # Root /\ e.to # e.parent

\* Everything that was read is written again.
SaveUpdate(e) ==
    /\ e.live
    /\ LET above == IF Moves(e) THEN e.above ELSE PathOf(e.parent)
           named == IF e.renames THEN <<e.cat, e.slug[2] + 1>> ELSE e.slug
       IN  /\ slug' = [slug EXCEPT ![e.cat] = named]
           /\ parent' = [parent EXCEPT ![e.cat] = IF Moves(e) THEN e.to ELSE e.parent]
           /\ path' = IF Moves(e) \/ e.renames
                      THEN Cascade(e, Append(above, named))
                      ELSE [path EXCEPT ![e.cat] = e.path]
    /\ live' = live \union {e.cat}
    /\ edits' = edits \ {e}
    /\ UNCHANGED met

\* A slug that is taken, or a death, rolls back.
EditFails(e) ==
    /\ edits' = edits \ {e}
    /\ UNCHANGED <<tree, met>>

\* A soft deletion asks for nothing: the children stay.
Delete(c) ==
    /\ c \in live
    /\ live' = live \ {c}
    /\ met' = (met \/ edits # {})
    /\ UNCHANGED <<parent, slug, path, edits>>

Next ==
    \/ \E c \in Cats, to \in Cats \union {Root} :
          \/ BeginCreate(c, to)
          \/ \E renames \in BOOLEAN : BeginUpdate(c, to, renames)
    \/ \E e \in edits : SaveCreate(e) \/ SaveUpdate(e) \/ EditFails(e)
    \/ \E c \in Cats : Delete(c)

Spec == Init /\ [][Next]_vars

------------------------------------------------------------------------------

\* As long as no two edits overlap, every category's path is its parent's and its
\* own slug, whatever was moved, renamed or deleted above it; as paths are finite,
\* there is no cycle either.  (Edits that overlap break both: each check of two
\* opposite moves passes.)
PathsAgree ==
    ~met => \A c \in live : path[c] = Append(PathOf(parent[c]), slug[c])

\* Support for the proofs.  A parent may have been deleted, but it was there.
ParentsThere == \A c \in live : parent[c] # Root => There(parent[c])

\* An edit that nothing overlapped knows the tree as it is.
ReadsCurrent ==
    \A e \in edits :
        /\ edits = {e}
        /\ e = Read(e.cat, e.to, e.renames)
        /\ e.live => e.cat \in live
        /\ e.to \in live \union {Root}
        /\ e.live /\ e.to # Root => e.cat \notin Ancestors(e.to)

\* The inductive invariant behind the theorem of ShopProofs.
IInv ==
    /\ PathsAgree
    /\ ~met => TypeOK /\ ParentsThere /\ ReadsCurrent
=============================================================================
