-------------------------- MODULE PageMapperProofs --------------------------
(* The page mapper keeps its tables a tree, accounts for every frame, leaves  *)
(* no stale translation behind, and implements an address space.              *)
(*                                                                            *)
(* The argument is about Settled, the tables as software sees them: a table   *)
(* that is still to be zeroed counts as empty.  Installing such a table       *)
(* changes no translation (InstallTranslate), because what it is hung under   *)
(* led nowhere before; a leaf write changes one (LeafTranslate), because in a *)
(* tree an entry has one page (EntryHasOnePage).  The rest of the invariant   *)
(* says where a call stands: Walking ties the walk to the tables, Ranging     *)
(* ties a range to the pages it has done, Cached says which entries of the    *)
(* TLB may be out of date: those of the page that is about to be flushed, and *)
(* strays, of which the page of the last call has none.                       *)
EXTENDS PageMapper, FiniteSetTheorems, FunctionTheorems, TLAPS

(* The entries of a table, and physical memory read as tables.                *)
Cells  == 0 .. Width - 1
Memory == [Frames -> [Cells -> EntryType]]

(* The tables whose entries refer to tables.                                  *)
Interior(mem) == {Root} \cup Level3(mem) \cup Level2(mem)

(* No two entries refer to one table.                                         *)
OneParent(mem) ==
  \A t, u \in Interior(mem), i, j \in Cells :
    mem[t][i].present /\ mem[u][j].present /\ mem[t][i].frame = mem[u][j].frame
      => t = u /\ i = j

(* No table is at two levels.                                                 *)
LevelsApart(mem) ==
  /\ Root \notin Level3(mem) /\ Root \notin Level2(mem) /\ Root \notin Level1(mem)
  /\ Level3(mem) \cap Level2(mem) = {}
  /\ Level3(mem) \cap Level1(mem) = {}
  /\ Level2(mem) \cap Level1(mem) = {}

(* The page tables are frames of the pool, and form a tree.                   *)
Tree(mem) ==
  /\ mem \in Memory
  /\ Tables(mem) \subseteq Frames
  /\ LevelsApart(mem)
  /\ OneParent(mem)

(* The table the walk of page v uses at level l.                              *)
TableAt(mem, l, v) ==
  CASE l = 4 -> Root [] l = 3 -> PdptOf(mem, v) [] l = 2 -> PdOf(mem, v)
    [] l = 1 -> PtOf(mem, v)
---------------------------------------------------------------------------
(* The index of a page at a level is an entry of a table.                     *)
LEMMA IndexFact ==
  ASSUME NEW v \in Slots, NEW l \in 1 .. 4
  PROVE  IndexAt(l, v) \in Cells
<1>1. v \in Nat /\ Width \in Nat \ {0}
  BY PageMapperAssumption DEF Slots, PagesUnder
<1>2. PagesUnder[l] \in Nat \ {0}
  BY <1>1 DEF PagesUnder
<1>3. \A x \in Nat, y \in Nat \ {0} : x \div y \in Nat /\ x % y \in 0 .. y - 1
  OBVIOUS
<1> QED
  BY <1>1, <1>2, <1>3 DEF IndexAt, Cells

(* Two numbers with the same quotient by a * b, and the same digit to base b  *)
(* below it, have the same quotient by a.                                     *)
LEMMA DigitsFact ==
  ASSUME NEW x \in Nat, NEW y \in Nat, NEW a \in Nat \ {0}, NEW b \in Nat \ {0},
         x \div (a * b) = y \div (a * b), (x \div a) % b = (y \div a) % b
  PROVE  x \div a = y \div a
<1>1. (x \div a) \div b = x \div (a * b) /\ (y \div a) \div b = y \div (a * b)
  OBVIOUS
<1>2. x \div a \in Nat /\ y \div a \in Nat
  OBVIOUS
<1>3. \A p, q \in Nat : p \div b = q \div b /\ p % b = q % b => p = q
  OBVIOUS
<1> QED
  BY <1>1, <1>2, <1>3

(* A page is determined by its four indices: two pages never share a walk.    *)
LEMMA PageHasItsPath ==
  ASSUME NEW v \in Slots, NEW w \in Slots,
         \A l \in 1 .. 4 : IndexAt(l, v) = IndexAt(l, w)
  PROVE  v = w
<1> DEFINE P(l) == PagesUnder[l]
<1>1. /\ Width \in Nat \ {0}
      /\ \A l \in 1 .. 5 : P(l) \in Nat \ {0}
  BY PageMapperAssumption DEF PagesUnder
<1>2. /\ P(5) = P(4) * Width /\ P(4) = P(3) * Width
      /\ P(3) = P(2) * Width /\ P(2) = P(1) * Width /\ P(1) = 1
  BY <1>1 DEF PagesUnder
<1>3. v \in Nat /\ w \in Nat /\ v < P(5) /\ w < P(5)
  BY <1>1 DEF Slots
<1>4. \A l \in 1 .. 4 : (v \div P(l)) % Width = (w \div P(l)) % Width
  BY DEF IndexAt
<1> HIDE DEF P
<1>5. v \div P(5) = w \div P(5)
  <2>1. v \div P(5) = 0 /\ w \div P(5) = 0
    BY <1>1, <1>3
  <2> QED
    BY <2>1
<1>6. ASSUME NEW l \in 1 .. 4, v \div P(l + 1) = w \div P(l + 1)
      PROVE  v \div P(l) = w \div P(l)
  <2>1. P(l) \in Nat \ {0} /\ P(l + 1) = P(l) * Width
    BY <1>1, <1>2
  <2>2. (v \div P(l)) % Width = (w \div P(l)) % Width
    BY <1>4
  <2> DEFINE a == P(l)
  <2>3. v \div (a * Width) = w \div (a * Width)
    BY <1>6, <2>1
  <2> HIDE DEF a
  <2> QED
    BY <1>1, <1>3, <2>1, <2>2, <2>3, DigitsFact DEF a
<1>7. v \div P(1) = w \div P(1)
  BY <1>5, <1>6
<1> QED
  BY <1>2, <1>3, <1>7

(* An entry is typed, and a present one refers to a frame.                    *)
LEMMA EntryFact ==
  ASSUME NEW mem \in Memory, NEW t \in Frames, NEW i \in Cells
  PROVE  /\ mem[t][i] \in EntryType
         /\ mem[t][i].present \in BOOLEAN
         /\ mem[t][i].present =>
              mem[t][i].frame \in Targets /\ mem[t][i].frame # Nowhere
<1>1. mem[t][i] \in EntryType
  BY DEF Memory
<1>2. ASSUME NEW e \in EntryType
      PROVE  e.present \in BOOLEAN /\ (e.present => e.frame \in Targets)
  <2>1. CASE e = Absent
    BY <2>1 DEF Absent
  <2>2. CASE e \in [present : BOOLEAN, frame : Targets, user : BOOLEAN]
    BY <2>2
  <2> QED
    BY <2>1, <2>2 DEF EntryType
<1>3. Nowhere \notin Targets
  BY PageMapperAssumption
<1> DEFINE e == mem[t][i]
<1>4. e \in EntryType
  BY <1>1
<1> HIDE DEF e
<1>5. e.present \in BOOLEAN /\ (e.present => e.frame \in Targets)
  BY <1>2, <1>4
<1> QED
  BY <1>3, <1>4, <1>5 DEF e

(* What it is to be referred to from one of the tables S.                     *)
LEMMA ChildrenFact ==
  ASSUME NEW mem, NEW S, NEW x
  PROVE  x \in Children(mem, S) <=>
           \E t \in S, i \in Cells : mem[t][i].present /\ mem[t][i].frame = x
<1>1. ASSUME NEW t \in S, NEW i \in Cells, mem[t][i].present, mem[t][i].frame = x
      PROVE  x \in Children(mem, S)
  <2> DEFINE ti == <<t, i>>
  <2>1. ti \in S \X Cells /\ ti[1] = t /\ ti[2] = i
    OBVIOUS
  <2> QED
    BY <1>1, <2>1 DEF Children, Cells
<1>2. ASSUME x \in Children(mem, S)
      PROVE  \E t \in S, i \in Cells : mem[t][i].present /\ mem[t][i].frame = x
  BY <1>2 DEF Children, Cells
<1> QED
  BY <1>1, <1>2

(* One step of a walk.                                                        *)
LEMMA FollowFact ==
  ASSUME NEW mem, NEW t, NEW l, NEW v
  PROVE  /\ t \notin Frames => Follow(mem, t, l, v) = Nowhere
         /\ t = Nowhere => Follow(mem, t, l, v) = Nowhere
         /\ t \in Frames /\ ~ mem[t][IndexAt(l, v)].present
              => Follow(mem, t, l, v) = Nowhere
         /\ t \in Frames /\ mem[t][IndexAt(l, v)].present
              => Follow(mem, t, l, v) = mem[t][IndexAt(l, v)].frame
  BY PageMapperAssumption DEF Follow, EntryIn, Absent, Targets

(* The PML4 is a frame, and Nowhere is none.                                  *)
LEMMA RootFact ==
  Root \in Frames /\ Root # Nowhere /\ Frames \subseteq Targets /\ Nowhere \notin Frames
  BY PageMapperAssumption DEF Targets

(* A walk through a tree passes from level to level, or ends.                 *)
LEMMA WalkFact ==
  ASSUME NEW mem, Tree(mem), NEW v \in Slots
  PROVE  /\ PdptOf(mem, v) \in Level3(mem) \cup {Nowhere}
         /\ PdOf(mem, v) \in Level2(mem) \cup {Nowhere}
         /\ PtOf(mem, v) \in Level1(mem) \cup {Nowhere}
         /\ Translate(mem, v) \in Targets \cup {Nowhere}
<1>1. /\ mem \in Memory
      /\ Level3(mem) \subseteq Frames /\ Level2(mem) \subseteq Frames
      /\ Level1(mem) \subseteq Frames
  BY DEF Tree, Tables
<1>2. \A l \in 1 .. 4 : IndexAt(l, v) \in Cells
  BY IndexFact
<1>3. PdptOf(mem, v) \in Level3(mem) \cup {Nowhere}
  BY <1>2, FollowFact, ChildrenFact, RootFact DEF PdptOf, Level3
<1>4. PdOf(mem, v) \in Level2(mem) \cup {Nowhere}
  BY <1>1, <1>2, <1>3, FollowFact, ChildrenFact DEF PdOf, Level2
<1>5. PtOf(mem, v) \in Level1(mem) \cup {Nowhere}
  BY <1>1, <1>2, <1>4, FollowFact, ChildrenFact DEF PtOf, Level1
<1>6. Translate(mem, v) \in Targets \cup {Nowhere}
  BY <1>1, <1>2, <1>5, FollowFact, EntryFact DEF Translate
<1> QED
  BY <1>3, <1>4, <1>5, <1>6

(* A walk through whatever the frames hold ends at a frame, or nowhere.       *)
LEMMA AnyWalkFact ==
  ASSUME NEW mem \in Memory, NEW v \in Slots
  PROVE  Translate(mem, v) \in Targets \cup {Nowhere}
<1>1. IndexAt(1, v) \in Cells
  BY IndexFact
<1>2. CASE PtOf(mem, v) \in Frames
  BY <1>1, <1>2, FollowFact, EntryFact DEF Translate
<1>3. CASE PtOf(mem, v) \notin Frames
  BY <1>3, FollowFact DEF Translate
<1> QED
  BY <1>2, <1>3

(* A walk that arrives took a present entry at every level.                   *)
LEMMA PathFact ==
  ASSUME NEW mem, NEW v
  PROVE  /\ PdptOf(mem, v) # Nowhere =>
              /\ mem[Root][IndexAt(4, v)].present
              /\ mem[Root][IndexAt(4, v)].frame = PdptOf(mem, v)
         /\ PdOf(mem, v) # Nowhere =>
              /\ PdptOf(mem, v) # Nowhere
              /\ mem[PdptOf(mem, v)][IndexAt(3, v)].present
              /\ mem[PdptOf(mem, v)][IndexAt(3, v)].frame = PdOf(mem, v)
         /\ PtOf(mem, v) # Nowhere =>
              /\ PdOf(mem, v) # Nowhere
              /\ mem[PdOf(mem, v)][IndexAt(2, v)].present
              /\ mem[PdOf(mem, v)][IndexAt(2, v)].frame = PtOf(mem, v)
<1>1. Root # Nowhere
  BY RootFact
<1>2. PdptOf(mem, v) # Nowhere => /\ mem[Root][IndexAt(4, v)].present
                                  /\ mem[Root][IndexAt(4, v)].frame = PdptOf(mem, v)
  BY <1>1, FollowFact, RootFact DEF PdptOf
<1>3. PdOf(mem, v) # Nowhere =>
        /\ PdptOf(mem, v) # Nowhere
        /\ mem[PdptOf(mem, v)][IndexAt(3, v)].present
        /\ mem[PdptOf(mem, v)][IndexAt(3, v)].frame = PdOf(mem, v)
  BY FollowFact, RootFact DEF PdOf
<1>4. PtOf(mem, v) # Nowhere =>
        /\ PdOf(mem, v) # Nowhere
        /\ mem[PdOf(mem, v)][IndexAt(2, v)].present
        /\ mem[PdOf(mem, v)][IndexAt(2, v)].frame = PtOf(mem, v)
  BY FollowFact, RootFact DEF PtOf
<1> QED
  BY <1>2, <1>3, <1>4

(* In a tree, an entry of a page table translates one page only: writing it   *)
(* changes no other translation.                                              *)
LEMMA EntryHasOnePage ==
  ASSUME NEW mem, Tree(mem), NEW v \in Slots, NEW w \in Slots,
         PtOf(mem, v) # Nowhere, PtOf(mem, v) = PtOf(mem, w),
         IndexAt(1, v) = IndexAt(1, w)
  PROVE  v = w
<1>1. \A l \in 1 .. 4 : IndexAt(l, v) \in Cells /\ IndexAt(l, w) \in Cells
  BY IndexFact
<1>2. /\ PdOf(mem, v) \in Interior(mem) /\ PdOf(mem, w) \in Interior(mem)
      /\ PdptOf(mem, v) \in Interior(mem) /\ PdptOf(mem, w) \in Interior(mem)
      /\ PdOf(mem, v) # Nowhere /\ PdptOf(mem, v) # Nowhere
      /\ PdOf(mem, w) # Nowhere /\ PdptOf(mem, w) # Nowhere
      /\ Root \in Interior(mem)
  BY PathFact, WalkFact DEF Interior
<1>3. OneParent(mem)
  BY DEF Tree
<1>4. PdOf(mem, v) = PdOf(mem, w) /\ IndexAt(2, v) = IndexAt(2, w)
  BY <1>1, <1>2, <1>3, PathFact DEF OneParent
<1>5. PdptOf(mem, v) = PdptOf(mem, w) /\ IndexAt(3, v) = IndexAt(3, w)
  BY <1>1, <1>2, <1>3, <1>4, PathFact DEF OneParent
<1>6. IndexAt(4, v) = IndexAt(4, w)
  BY <1>1, <1>2, <1>3, <1>5, PathFact DEF OneParent
<1>7. \A l \in 1 .. 4 : IndexAt(l, v) = IndexAt(l, w)
  BY <1>4, <1>5, <1>6
<1> QED
  BY <1>7, PageHasItsPath

---------------------------------------------------------------------------
(* Children depend on nothing but the tables asked about.                     *)
LEMMA ChildrenSame ==
  ASSUME NEW mem, NEW mem2, NEW S, \A t \in S : mem2[t] = mem[t]
  PROVE  Children(mem2, S) = Children(mem, S)
<1>1. \A x : x \in Children(mem2, S) <=> x \in Children(mem, S)
  <2> TAKE x
  <2>1. \A t \in S, i \in Cells : mem2[t][i] = mem[t][i]
    OBVIOUS
  <2>2. x \in Children(mem2, S)
          <=> \E t \in S, i \in Cells : mem2[t][i].present /\ mem2[t][i].frame = x
    BY ChildrenFact
  <2>3. x \in Children(mem, S)
          <=> \E t \in S, i \in Cells : mem[t][i].present /\ mem[t][i].frame = x
    BY ChildrenFact
  <2> QED
    BY <2>1, <2>2, <2>3
<1> QED
  BY <1>1

(* On the tables S, mem2 differs from mem in that entry i of t now refers to s*)
Gains(mem, mem2, S, t, i, s) ==
  /\ t \in S /\ i \in Cells
  /\ ~ mem[t][i].present /\ mem2[t][i].present /\ mem2[t][i].frame = s
  /\ \A j \in Cells : j # i => mem2[t][j] = mem[t][j]
  /\ \A u \in S : u # t => mem2[u] = mem[u]

(* One more entry is one more child.                                          *)
LEMMA ChildrenPlus ==
  ASSUME NEW mem, NEW mem2, NEW S, NEW t, NEW i, NEW s, Gains(mem, mem2, S, t, i, s)
  PROVE  Children(mem2, S) = Children(mem, S) \cup {s}
<1> USE DEF Gains
<1>1. ASSUME NEW x \in Children(mem2, S)
      PROVE  x \in Children(mem, S) \cup {s}
  <2>1. PICK u \in S, j \in Cells : mem2[u][j].present /\ mem2[u][j].frame = x
    BY ChildrenFact
  <2>2. CASE u = t /\ j = i
    BY <2>1, <2>2
  <2>3. CASE ~(u = t /\ j = i)
    <3>1. mem2[u][j] = mem[u][j]
      BY <2>3
    <3> QED
      BY <2>1, <3>1, ChildrenFact
  <2> QED
    BY <2>2, <2>3
<1>2. ASSUME NEW x \in Children(mem, S)
      PROVE  x \in Children(mem2, S)
  <2>1. PICK u \in S, j \in Cells : mem[u][j].present /\ mem[u][j].frame = x
    BY ChildrenFact
  <2>2. mem2[u][j] = mem[u][j]
    BY <2>1
  <2> QED
    BY <2>1, <2>2, ChildrenFact
<1>3. s \in Children(mem2, S)
  BY ChildrenFact
<1> QED
  BY <1>1, <1>2, <1>3

(* A zeroed table refers to nothing.                                          *)
LEMMA ChildrenOfEmpty ==
  ASSUME NEW mem, NEW S, NEW s, mem[s] = EmptyTable
  PROVE  Children(mem, S \cup {s}) = Children(mem, S)
<1>1. \A i \in Cells : ~ mem[s][i].present
  BY DEF EmptyTable, Absent, Cells
<1>2. ASSUME NEW x PROVE x \in Children(mem, S \cup {s}) <=> x \in Children(mem, S)
  <2>1. x \in Children(mem, S)
          <=> \E t \in S, i \in Cells : mem[t][i].present /\ mem[t][i].frame = x
    BY ChildrenFact
  <2>2. x \in Children(mem, S \cup {s})
          <=> \E t \in S \cup {s}, i \in Cells :
                mem[t][i].present /\ mem[t][i].frame = x
    BY ChildrenFact
  <2> QED
    BY <1>1, <2>1, <2>2
<1> QED
  BY <1>2

(* What a table of level 4, 3 or 2 refers to is a table.                      *)
LEMMA ParentsFact ==
  ASSUME NEW mem, NEW t \in Interior(mem), NEW i \in Cells, mem[t][i].present
  PROVE  mem[t][i].frame \in Tables(mem)
  BY ChildrenFact DEF Interior, Tables, Level3, Level2, Level1

(* s becomes a table of its own under entry i of table t.                     *)
Install(mem, mem2, t, i, s) ==
  /\ mem2 \in Memory
  /\ mem2[s] = EmptyTable
  /\ \A u \in Frames : u # t /\ u # s => mem2[u] = mem[u]
  /\ \A j \in Cells : j # i => mem2[t][j] = mem[t][j]
  /\ mem2[t][i].present /\ mem2[t][i].frame = s

(* A table installed at a level joins the tables of the level below, and the  *)
(* other levels stay as they are.                                             *)
LEMMA InstallLevels ==
  ASSUME NEW mem, NEW mem2, Tree(mem), NEW t \in Interior(mem), NEW i \in Cells,
         NEW s \in Frames \ Tables(mem), ~ mem[t][i].present,
         Install(mem, mem2, t, i, s)
  PROVE  /\ t = Root => /\ Level3(mem2) = Level3(mem) \cup {s}
                         /\ Level2(mem2) = Level2(mem) /\ Level1(mem2) = Level1(mem)
         /\ t \in Level3(mem) =>
              /\ Level3(mem2) = Level3(mem) /\ Level2(mem2) = Level2(mem) \cup {s}
              /\ Level1(mem2) = Level1(mem)
         /\ t \in Level2(mem) =>
              /\ Level3(mem2) = Level3(mem) /\ Level2(mem2) = Level2(mem)
              /\ Level1(mem2) = Level1(mem) \cup {s}
<1>1. LevelsApart(mem) /\ Tables(mem) \subseteq Frames
  BY DEF Tree
<1>2. ASSUME NEW S, S \subseteq Tables(mem), t \notin S
      PROVE  Children(mem2, S) = Children(mem, S)
  <2>1. \A u \in S : mem2[u] = mem[u]
    BY <1>1, <1>2 DEF Install
  <2> QED
    BY <2>1, ChildrenSame
<1>3. ASSUME NEW S, S \subseteq Tables(mem), t \in S
      PROVE  Children(mem2, S) = Children(mem, S) \cup {s}
  <2>1. \A u \in S : u # t => mem2[u] = mem[u]
    BY <1>1, <1>3 DEF Install
  <2>2. /\ mem2[t][i].present /\ mem2[t][i].frame = s
        /\ \A j \in Cells : j # i => mem2[t][j] = mem[t][j]
    BY DEF Install
  <2>3. Gains(mem, mem2, S, t, i, s)
    BY <1>3, <2>1, <2>2 DEF Gains
  <2> QED
    BY <2>3, ChildrenPlus
<1>4. \A S : Children(mem2, S \cup {s}) = Children(mem2, S)
  BY ChildrenOfEmpty DEF Install
<1>5. /\ {Root} \subseteq Tables(mem) /\ Level3(mem) \subseteq Tables(mem)
      /\ Level2(mem) \subseteq Tables(mem)
  BY DEF Tables
<1>6. CASE t = Root
  <2>1. Level3(mem2) = Level3(mem) \cup {s}
    BY <1>3, <1>5, <1>6 DEF Level3
  <2>2. Level2(mem2) = Level2(mem)
    BY <1>1, <1>2, <1>4, <1>5, <1>6, <2>1 DEF Level2, LevelsApart
  <2>3. Level1(mem2) = Level1(mem)
    BY <1>1, <1>2, <1>5, <1>6, <2>2 DEF Level1, LevelsApart
  <2> QED
    BY <1>1, <1>6, <2>1, <2>2, <2>3 DEF LevelsApart
<1>7. CASE t \in Level3(mem)
  <2>1. t # Root /\ t \notin Level2(mem)
    BY <1>1, <1>7 DEF LevelsApart
  <2>2. Level3(mem2) = Level3(mem)
    BY <1>2, <1>5, <2>1 DEF Level3
  <2>3. Level2(mem2) = Level2(mem) \cup {s}
    BY <1>3, <1>5, <1>7, <2>2 DEF Level2
  <2>4. Level1(mem2) = Level1(mem)
    BY <1>2, <1>4, <1>5, <2>1, <2>3 DEF Level1
  <2> QED
    BY <2>1, <2>2, <2>3, <2>4
<1>8. CASE t \in Level2(mem)
  <2>1. t # Root /\ t \notin Level3(mem)
    BY <1>1, <1>8 DEF LevelsApart
  <2>2. Level3(mem2) = Level3(mem)
    BY <1>2, <1>5, <2>1 DEF Level3
  <2>3. Level2(mem2) = Level2(mem)
    BY <1>2, <1>5, <2>1, <2>2 DEF Level2
  <2>4. Level1(mem2) = Level1(mem) \cup {s}
    BY <1>3, <1>5, <1>8, <2>3 DEF Level1
  <2> QED
    BY <2>1, <2>2, <2>3, <2>4
<1> QED
  BY <1>6, <1>7, <1>8 DEF Interior

(* The hypotheses of what follows: s is free, and is installed in a tree.     *)
Installs(mem, mem2, t, i, s) ==
  /\ Tree(mem) /\ t \in Interior(mem) /\ i \in Cells
  /\ s \in Frames \ Tables(mem) /\ ~ mem[t][i].present
  /\ Install(mem, mem2, t, i, s)

(* The new table is the only one that is new, and it is at one level.         *)
LEMMA InstallTables ==
  ASSUME NEW mem, NEW mem2, NEW t, NEW i, NEW s, Installs(mem, mem2, t, i, s)
  PROVE  /\ Tables(mem2) = Tables(mem) \cup {s}
         /\ Interior(mem2) \subseteq Interior(mem) \cup {s}
         /\ LevelsApart(mem2)
<1>1. /\ LevelsApart(mem) /\ s \notin Tables(mem)
      /\ t = Root \/ t \in Level3(mem) \/ t \in Level2(mem)
  BY DEF Installs, Tree, Interior
<1>2. /\ t = Root => /\ Level3(mem2) = Level3(mem) \cup {s}
                     /\ Level2(mem2) = Level2(mem) /\ Level1(mem2) = Level1(mem)
      /\ t \in Level3(mem) =>
           /\ Level3(mem2) = Level3(mem) /\ Level2(mem2) = Level2(mem) \cup {s}
           /\ Level1(mem2) = Level1(mem)
      /\ t \in Level2(mem) =>
           /\ Level3(mem2) = Level3(mem) /\ Level2(mem2) = Level2(mem)
           /\ Level1(mem2) = Level1(mem) \cup {s}
  BY InstallLevels DEF Installs
<1> QED
  BY <1>1, <1>2 DEF Tables, Interior, LevelsApart

(* get_or_create_table leaves a tree.                                         *)
LEMMA InstallTree ==
  ASSUME NEW mem, NEW mem2, NEW t, NEW i, NEW s, Installs(mem, mem2, t, i, s)
  PROVE  Tree(mem2)
<1>1. /\ Tables(mem2) = Tables(mem) \cup {s} /\ LevelsApart(mem2)
      /\ Interior(mem2) \subseteq Interior(mem) \cup {s}
  BY InstallTables
<1>2. /\ mem2 \in Memory /\ Tables(mem) \subseteq Frames /\ OneParent(mem)
      /\ s \in Frames /\ s \notin Tables(mem) /\ Interior(mem) \subseteq Tables(mem)
  BY DEF Installs, Install, Tree, Interior, Tables
<1>3. \A j \in Cells : ~ mem2[s][j].present
  BY DEF Installs, Install, EmptyTable, Absent, Cells
<1>4. ASSUME NEW u \in Interior(mem), NEW j \in Cells, ~(u = t /\ j = i)
      PROVE  mem2[u][j] = mem[u][j]
  <2>1. u \in Frames /\ u # s
    BY <1>2
  <2>2. CASE u = t
    BY <1>4, <2>2 DEF Installs, Install
  <2>3. CASE u # t
    BY <2>1, <2>3 DEF Installs, Install
  <2> QED
    BY <2>2, <2>3
<1>5. mem2[t][i].frame = s
  BY DEF Installs, Install
<1>6. OneParent(mem2)
  <2> SUFFICES ASSUME NEW u \in Interior(mem2), NEW w \in Interior(mem2),
                      NEW j \in Cells, NEW k \in Cells,
                      mem2[u][j].present, mem2[w][k].present,
                      mem2[u][j].frame = mem2[w][k].frame
               PROVE  u = w /\ j = k
    BY DEF OneParent
  <2>1. u \in Interior(mem) /\ w \in Interior(mem)
    BY <1>1, <1>3
  <2>2. ASSUME NEW x \in Interior(mem), NEW l \in Cells, ~(x = t /\ l = i),
               mem2[x][l].present
        PROVE  /\ mem[x][l].present /\ mem[x][l].frame = mem2[x][l].frame
               /\ mem2[x][l].frame # s
    <3>1. mem2[x][l] = mem[x][l]
      BY <1>4, <2>2
    <3>2. mem[x][l].frame \in Tables(mem)
      BY <2>2, <3>1, ParentsFact
    <3> QED
      BY <1>2, <2>2, <3>1, <3>2
  <2>3. CASE u = t /\ j = i
    BY <1>5, <2>1, <2>2, <2>3
  <2>4. CASE w = t /\ k = i
    BY <1>5, <2>1, <2>2, <2>4
  <2>5. CASE ~(u = t /\ j = i) /\ ~(w = t /\ k = i)
    BY <1>2, <2>1, <2>2, <2>5 DEF OneParent
  <2> QED
    BY <2>3, <2>4, <2>5
<1> QED
  BY <1>1, <1>2, <1>6 DEF Tree

(* Following an entry gives what it gave before, but for the new one.         *)
LEMMA InstallFollow ==
  ASSUME NEW mem, NEW mem2, NEW t, NEW i, NEW s, Installs(mem, mem2, t, i, s),
         NEW x, x \in Tables(mem) \cup {Nowhere}, NEW l \in 1 .. 4, NEW v \in Slots
  PROVE  /\ ~(x = t /\ IndexAt(l, v) = i) => Follow(mem2, x, l, v) = Follow(mem, x, l, v)
         /\ x = t /\ IndexAt(l, v) = i => /\ Follow(mem, x, l, v) = Nowhere
                                          /\ Follow(mem2, x, l, v) = s
<1>1. IndexAt(l, v) \in Cells
  BY IndexFact
<1>2. /\ Tables(mem) \subseteq Frames /\ s \notin Tables(mem) /\ t # Nowhere
      /\ t \in Tables(mem)
  BY RootFact DEF Installs, Tree, Interior, Tables
<1>3. CASE x = Nowhere
  BY <1>2, <1>3, FollowFact
<1>4. CASE x # Nowhere /\ x = t
  <2>1. CASE IndexAt(l, v) = i
    BY <1>2, <1>4, <2>1, FollowFact DEF Installs, Install
  <2>2. CASE IndexAt(l, v) # i
    <3>1. mem2[x][IndexAt(l, v)] = mem[x][IndexAt(l, v)]
      BY <1>1, <1>4, <2>2 DEF Installs, Install
    <3> QED
      BY <1>2, <1>4, <2>2, <3>1, FollowFact
  <2> QED
    BY <2>1, <2>2
<1>5. CASE x # Nowhere /\ x # t
  <2>1. mem2[x] = mem[x]
    BY <1>2, <1>5 DEF Installs, Install
  <2> QED
    BY <1>2, <1>5, <2>1, FollowFact
<1> QED
  BY <1>3, <1>4, <1>5

(* get_or_create_table changes no translation; the walk of a page that passes *)
(* through the new entry now goes on to the new table.                        *)
LEMMA InstallTranslate ==
  ASSUME NEW mem, NEW mem2, NEW t, NEW i, NEW s, Installs(mem, mem2, t, i, s),
         NEW v \in Slots
  PROVE  /\ Translate(mem2, v) = Translate(mem, v)
         /\ \A l \in 2 .. 4 : TableAt(mem, l, v) = t /\ IndexAt(l, v) = i
              => /\ TableAt(mem2, l - 1, v) = s
                 /\ TableAt(mem2, l, v) = t
<1>1. /\ Tree(mem) /\ LevelsApart(mem) /\ s \notin Tables(mem) /\ s # Nowhere
      /\ t # Nowhere
      /\ t = Root \/ t \in Level3(mem) \/ t \in Level2(mem)
  BY RootFact DEF Installs, Tree, Interior, Tables
<1>2. /\ PdptOf(mem, v) \in Level3(mem) \cup {Nowhere}
      /\ PdOf(mem, v) \in Level2(mem) \cup {Nowhere}
      /\ PtOf(mem, v) \in Level1(mem) \cup {Nowhere}
  BY <1>1, WalkFact
<1>3. /\ PdptOf(mem, v) \in Tables(mem) \cup {Nowhere}
      /\ PdOf(mem, v) \in Tables(mem) \cup {Nowhere}
      /\ PtOf(mem, v) \in Tables(mem) \cup {Nowhere}
      /\ Root \in Tables(mem)
  BY <1>2 DEF Tables
<1>4. \A l \in 1 .. 4 : Follow(mem2, s, l, v) = Nowhere
  <2>1. \A l \in 1 .. 4 : ~ mem2[s][IndexAt(l, v)].present
    BY IndexFact DEF Installs, Install, EmptyTable, Absent, Cells
  <2> QED
    BY <1>1, <2>1, FollowFact
<1>5. \A mm, l : Follow(mm, Nowhere, l, v) = Nowhere
  BY FollowFact
<1> DEFINE Hit(x, l) == x = t /\ IndexAt(l, v) = i
<1>6. \A x \in Tables(mem) \cup {Nowhere}, l \in 1 .. 4 :
        /\ ~ Hit(x, l) => Follow(mem2, x, l, v) = Follow(mem, x, l, v)
        /\ Hit(x, l) => Follow(mem, x, l, v) = Nowhere /\ Follow(mem2, x, l, v) = s
  BY InstallFollow
<1> HIDE DEF Hit
<1>7. /\ Hit(Root, 4) => t = Root
      /\ Hit(PdptOf(mem, v), 3) => t \in Level3(mem)
      /\ Hit(PdOf(mem, v), 2) => t \in Level2(mem)
      /\ ~ Hit(PtOf(mem, v), 1)
  BY <1>1, <1>2 DEF Hit, LevelsApart
<1>8. CASE Hit(Root, 4)
  <2>1. PdptOf(mem, v) = Nowhere /\ PdptOf(mem2, v) = s
    BY <1>3, <1>6, <1>8 DEF PdptOf
  <2>2. PdOf(mem, v) = Nowhere /\ PdOf(mem2, v) = Nowhere
    BY <1>4, <1>5, <2>1 DEF PdOf
  <2>3. PtOf(mem, v) = Nowhere /\ PtOf(mem2, v) = Nowhere
    BY <1>5, <2>2 DEF PtOf
  <2>4. Translate(mem2, v) = Translate(mem, v)
    BY <1>5, <2>3 DEF Translate
  <2>5. t = Root
    BY <1>7, <1>8
  <2> QED
    BY <1>1, <2>1, <2>2, <2>4, <2>5 DEF TableAt
<1>9. CASE Hit(PdptOf(mem, v), 3)
  <2>1. t \in Level3(mem) /\ t # Root
    BY <1>1, <1>7, <1>9 DEF LevelsApart
  <2>2. PdptOf(mem2, v) = PdptOf(mem, v)
    BY <1>3, <1>6, <1>7, <2>1 DEF PdptOf
  <2>3. PdOf(mem, v) = Nowhere /\ PdOf(mem2, v) = s
    BY <1>3, <1>6, <1>9, <2>2 DEF PdOf
  <2>4. PtOf(mem, v) = Nowhere /\ PtOf(mem2, v) = Nowhere
    BY <1>4, <1>5, <2>3 DEF PtOf
  <2>5. Translate(mem2, v) = Translate(mem, v)
    BY <1>5, <2>4 DEF Translate
  <2> QED
    BY <1>1, <2>1, <2>2, <2>3, <2>5 DEF TableAt
<1>10. CASE Hit(PdOf(mem, v), 2)
  <2>1. t \in Level2(mem) /\ t # Root /\ t \notin Level3(mem)
    BY <1>1, <1>7, <1>10 DEF LevelsApart
  <2>2. PdptOf(mem2, v) = PdptOf(mem, v)
    BY <1>3, <1>6, <1>7, <2>1 DEF PdptOf
  <2>3. PdOf(mem2, v) = PdOf(mem, v)
    BY <1>3, <1>6, <1>7, <2>1, <2>2 DEF PdOf
  <2>4. PtOf(mem, v) = Nowhere /\ PtOf(mem2, v) = s
    BY <1>3, <1>6, <1>10, <2>3 DEF PtOf
  <2>5. Translate(mem2, v) = Translate(mem, v)
    BY <1>4, <1>5, <2>4 DEF Translate
  <2> QED
    BY <1>1, <1>2, <2>1, <2>2, <2>3, <2>4, <2>5 DEF TableAt
<1>11. CASE ~ Hit(Root, 4) /\ ~ Hit(PdptOf(mem, v), 3) /\ ~ Hit(PdOf(mem, v), 2)
  <2>1. PdptOf(mem2, v) = PdptOf(mem, v)
    BY <1>3, <1>6, <1>11 DEF PdptOf
  <2>2. PdOf(mem2, v) = PdOf(mem, v)
    BY <1>3, <1>6, <1>11, <2>1 DEF PdOf
  <2>3. PtOf(mem2, v) = PtOf(mem, v)
    BY <1>3, <1>6, <1>11, <2>2 DEF PtOf
  <2>4. Translate(mem2, v) = Translate(mem, v)
    BY <1>3, <1>6, <1>7, <2>3 DEF Translate
  <2> QED
    BY <1>11, <2>4 DEF TableAt, Hit
<1> QED
  BY <1>8, <1>9, <1>10, <1>11

---------------------------------------------------------------------------
(* Entry i of page table t becomes e.                                         *)
SetsLeaf(mem, mem2, t, i, e) ==
  /\ Tree(mem) /\ t \in Level1(mem) /\ i \in Cells /\ e \in EntryType
  /\ mem2 = [mem EXCEPT ![t][i] = e]

(* A leaf write changes one entry of one table.                               *)
LEMMA LeafRows ==
  ASSUME NEW mem, NEW mem2, NEW t, NEW i, NEW e, SetsLeaf(mem, mem2, t, i, e)
  PROVE  /\ mem2 \in Memory
         /\ mem2[t][i] = e
         /\ \A j \in Cells : j # i => mem2[t][j] = mem[t][j]
         /\ \A u \in Frames : u # t => mem2[u] = mem[u]
         /\ t \in Frames /\ t # Nowhere
<1>1. /\ mem \in [Frames -> [Cells -> EntryType]] /\ t \in Frames /\ i \in Cells
      /\ e \in EntryType
  BY DEF SetsLeaf, Tree, Tables, Memory
<1>2. mem2 = [mem EXCEPT ![t] = [mem[t] EXCEPT ![i] = e]]
  BY DEF SetsLeaf
<1>3. mem[t] \in [Cells -> EntryType]
  BY <1>1
<1>4. [mem[t] EXCEPT ![i] = e] \in [Cells -> EntryType]
  BY <1>1, <1>3
<1>5. mem2[t] = [mem[t] EXCEPT ![i] = e] /\ \A u \in Frames : u # t => mem2[u] = mem[u]
  BY <1>1, <1>2
<1> QED
  BY <1>1, <1>2, <1>3, <1>4, <1>5, RootFact DEF Memory

(* A leaf write changes nothing about the tables.                             *)
LEMMA LeafTree ==
  ASSUME NEW mem, NEW mem2, NEW t, NEW i, NEW e, SetsLeaf(mem, mem2, t, i, e)
  PROVE  /\ Tree(mem2)
         /\ Tables(mem2) = Tables(mem)
<1>1. /\ LevelsApart(mem) /\ OneParent(mem) /\ Tables(mem) \subseteq Frames
      /\ t \in Level1(mem)
  BY DEF SetsLeaf, Tree
<1>2. \A u \in Interior(mem) : mem2[u] = mem[u]
  <2>1. \A u \in Interior(mem) : u \in Frames /\ u # t
    BY <1>1 DEF Interior, Tables, LevelsApart
  <2> QED
    BY <2>1, LeafRows
<1>3. Level3(mem2) = Level3(mem)
  BY <1>2, ChildrenSame DEF Level3, Interior
<1>4. Level2(mem2) = Level2(mem)
  BY <1>2, <1>3, ChildrenSame DEF Level2, Interior
<1>5. Level1(mem2) = Level1(mem)
  BY <1>2, <1>4, ChildrenSame DEF Level1, Interior
<1>6. Tables(mem2) = Tables(mem) /\ Interior(mem2) = Interior(mem) /\ LevelsApart(mem2)
  BY <1>1, <1>3, <1>4, <1>5 DEF Tables, Interior, LevelsApart
<1>7. OneParent(mem2)
  BY <1>1, <1>2, <1>6 DEF OneParent
<1> QED
  BY <1>1, <1>6, <1>7, LeafRows DEF Tree

(* A leaf write changes the translation of one page, to what it wrote.        *)
LEMMA LeafTranslate ==
  ASSUME NEW mem, NEW mem2, NEW t, NEW i, NEW e, SetsLeaf(mem, mem2, t, i, e),
         NEW v \in Slots, PtOf(mem, v) = t, IndexAt(1, v) = i, NEW w \in Slots
  PROVE  Translate(mem2, w) = IF w = v THEN (IF e.present THEN e.frame ELSE Nowhere)
                                       ELSE Translate(mem, w)
<1>1. /\ LevelsApart(mem) /\ Tables(mem) \subseteq Frames
      /\ t \in Level1(mem) /\ Tree(mem) /\ t # Nowhere /\ t \in Frames
  BY LeafRows DEF SetsLeaf, Tree
<1>2. ASSUME NEW x \in Tables(mem) \cup {Nowhere}, x # t, NEW l, NEW u
      PROVE  Follow(mem2, x, l, u) = Follow(mem, x, l, u)
  <2>1. x = Nowhere \/ mem2[x] = mem[x]
    BY <1>1, <1>2, LeafRows
  <2> QED
    BY <1>1, <2>1, FollowFact
<1>3. ASSUME NEW u \in Slots
      PROVE  PtOf(mem2, u) = PtOf(mem, u)
  <2>1. /\ PdptOf(mem, u) \in Level3(mem) \cup {Nowhere}
        /\ PdOf(mem, u) \in Level2(mem) \cup {Nowhere}
    BY <1>1, WalkFact
  <2>2. /\ PdptOf(mem, u) \in Tables(mem) \cup {Nowhere} /\ PdptOf(mem, u) # t
        /\ PdOf(mem, u) \in Tables(mem) \cup {Nowhere} /\ PdOf(mem, u) # t
        /\ Root \in Tables(mem) /\ Root # t
    BY <1>1, <2>1 DEF LevelsApart, Tables
  <2>3. PdptOf(mem2, u) = PdptOf(mem, u)
    BY <1>2, <2>2 DEF PdptOf
  <2>4. PdOf(mem2, u) = PdOf(mem, u)
    BY <1>2, <2>2, <2>3 DEF PdOf
  <2> QED
    BY <1>2, <2>2, <2>4 DEF PtOf
<1>4. CASE w = v
  <2>1. Translate(mem2, w) = Follow(mem2, t, 1, v) /\ mem2[t][i] = e
    BY <1>3, <1>4, LeafRows DEF Translate
  <2> QED
    BY <1>1, <1>4, <2>1, FollowFact
<1>5. CASE w # v /\ PtOf(mem, w) # t
  <2>1. PtOf(mem, w) \in Tables(mem) \cup {Nowhere}
    BY <1>1, WalkFact DEF Tables
  <2> QED
    BY <1>2, <1>3, <1>5, <2>1 DEF Translate
<1>6. CASE w # v /\ PtOf(mem, w) = t
  <2>1. IndexAt(1, w) # i
    BY <1>1, <1>6, EntryHasOnePage
  <2>2. mem2[t][IndexAt(1, w)] = mem[t][IndexAt(1, w)]
    BY <2>1, IndexFact, LeafRows
  <2>3. Follow(mem2, t, 1, w) = Follow(mem, t, 1, w)
    BY <1>1, <2>2, FollowFact
  <2> QED
    BY <1>3, <1>6, <2>3 DEF Translate
<1> QED
  BY <1>4, <1>5, <1>6

---------------------------------------------------------------------------
(* The tables of a tree are one more than the entries that refer to one,      *)
(* which is how TablesFormATree says it for TLC.                              *)
LEMMA TreeIsCounted ==
  ASSUME NEW mem, Tree(mem)
  PROVE  Cardinality(Tables(mem)) = Cardinality(References(mem)) + 1
<1> DEFINE R == References(mem)
           B == Tables(mem) \ {Root}
           f == [ti \in R |-> mem[ti[1]][ti[2]].frame]
<1>1. /\ LevelsApart(mem) /\ OneParent(mem) /\ Root \in Tables(mem)
      /\ IsFiniteSet(Tables(mem))
  BY PageMapperAssumption, FS_Subset DEF Tree, Tables
<1>2. \A ti \in R : /\ ti[1] \in Interior(mem) /\ ti[2] \in Cells
                    /\ ti = <<ti[1], ti[2]>>
                    /\ mem[ti[1]][ti[2]].present
  BY DEF References, Interior, Cells
<1>3. B = Level3(mem) \cup Level2(mem) \cup Level1(mem)
  BY <1>1 DEF Tables, LevelsApart
<1>4. \A ti \in R : f[ti] \in B
  <2> SUFFICES ASSUME NEW ti \in R PROVE mem[ti[1]][ti[2]].frame \in B
    OBVIOUS
  <2>1. /\ ti[1] = Root \/ ti[1] \in Level3(mem) \/ ti[1] \in Level2(mem)
        /\ ti[2] \in Cells /\ mem[ti[1]][ti[2]].present
    BY <1>2 DEF Interior
  <2>2. ASSUME NEW S, ti[1] \in S
        PROVE  mem[ti[1]][ti[2]].frame \in Children(mem, S)
    BY <2>1, <2>2, ChildrenFact
  <2>3. mem[ti[1]][ti[2]].frame \in Level3(mem) \cup Level2(mem) \cup Level1(mem)
    BY <2>1, <2>2 DEF Level3, Level2, Level1
  <2> QED
    BY <1>3, <2>3
<1>5. \A ti, uj \in R : f[ti] = f[uj] => ti = uj
  BY <1>1, <1>2 DEF OneParent
<1>6. \A x \in B : \E ti \in R : f[ti] = x
  <2> SUFFICES ASSUME NEW x \in B PROVE \E ti \in R : mem[ti[1]][ti[2]].frame = x
    OBVIOUS
  <2>1. \E t \in Interior(mem), i \in Cells : mem[t][i].present /\ mem[t][i].frame = x
    BY <1>3, ChildrenFact DEF Level3, Level2, Level1, Interior
  <2>2. PICK t \in Interior(mem), i \in Cells : mem[t][i].present /\ mem[t][i].frame = x
    BY <2>1
  <2>3. <<t, i>> \in R
    BY <2>2 DEF References, Interior, Cells
  <2> QED
    BY <2>2, <2>3
<1>7. f \in Bijection(R, B)
  <2>1. f \in [R -> B]
    BY <1>4
  <2> HIDE DEF f, R, B
  <2> QED
    BY <1>5, <1>6, <2>1, Fun_IsBij
<1>8. IsFiniteSet(B) /\ Cardinality(B) = Cardinality(Tables(mem)) - 1
  BY <1>1, FS_RemoveElement
<1>9. IsFiniteSet(R) /\ Cardinality(R) = Cardinality(B)
  BY <1>7, <1>8, FS_Bijection, Fun_BijInverse DEF ExistsBijection
<1>10. Cardinality(Tables(mem)) \in Nat
  BY <1>1, FS_CardinalityType
<1> QED
  BY <1>8, <1>9, <1>10

---------------------------------------------------------------------------
(* The fields of a call in progress, or of the last one.                      *)
CallType ==
  [range : Ranges \cup {NoBytes}, page : Slots, end : Nat,
   frame : Targets \cup {Nowhere}, flags : [present : BOOLEAN, user : BOOLEAN],
   level : 0 .. 4, at : Frames]

(* The walk stands where the tables lead the page it is for, and a table that *)
(* is being zeroed is the one it goes on with.                                *)
Walking ==
  /\ pc \in {"walk", "zero"} =>
       /\ call.frame \in Targets /\ call.level \in 1 .. 4
       /\ call.at = TableAt(Settled, call.level, call.page)
  /\ pc = "zero" =>
       /\ call.level > 1 /\ answer \in Frames
       /\ answer = TableAt(Settled, call.level - 1, call.page)

(* The pages of a range before the one being mapped are mapped, and so is     *)
(* that one when only its cached translation is left to flush.                *)
Ranging ==
  /\ pc # "idle" /\ call.range = NoBytes => call.end <= call.page + 1
  /\ pc # "idle" /\ call.range # NoBytes =>
       /\ call.end = EndPage(call.range) /\ call.frame = call.page
       /\ FirstPage(call.range) <= call.page /\ call.page < call.end
       /\ call.flags.present =>
            \A v \in FirstPage(call.range) .. call.page - 1 : Translate(Settled, v) = v
  /\ pc = "flush" =>
       \/ outcome.what = "unmapped" /\ call.range = NoBytes
       \/ /\ outcome.what = "mapped"
          /\ call.flags.present => Translate(Settled, call.page) = call.frame

(* A cached translation is the current one, or about to be flushed, or a      *)
(* stray; a page that was mapped or unmapped has just been flushed.           *)
Cached ==
  /\ \A e \in tlb :
       \/ Translate(Settled, e[1]) = e[2]
       \/ pc = "flush" /\ e[1] = call.page
       \/ e[3] = "stray"
  /\ pc = "flush" => outcome.page = call.page
  /\ pc = "idle" /\ outcome.what \in {"mapped", "unmapped"} =>
       \A e \in tlb : e[1] = outcome.page => Translate(Settled, e[1]) = e[2]

(* The types, the tree and the account of frames; and the whole of it.        *)
Shape == TypeOK /\ call \in CallType /\ Tree(Settled) /\ NoFrameLost
IInv  == Shape /\ Walking /\ Ranging /\ Cached /\ IdentityRangeIsMapped

---------------------------------------------------------------------------
(* Where map_page stands while it walks.                                      *)
LEMMA AtFact ==
  ASSUME IInv, pc \in {"walk", "zero"}
  PROVE  /\ call.level \in 1 .. 4 /\ call.page \in Slots
         /\ IndexAt(call.level, call.page) \in Cells
         /\ call.at \in Frames /\ call.at # Nowhere
         /\ call.level > 1 => call.at \in Interior(Settled)
         /\ call.level = 1 => call.at \in Level1(Settled)
<1>1. /\ call.level \in 1 .. 4 /\ call.page \in Slots /\ call.at \in Frames
      /\ call.at = TableAt(Settled, call.level, call.page) /\ Tree(Settled)
  BY DEF IInv, Shape, Walking, CallType
<1>2. call.at # Nowhere
  BY <1>1, RootFact
<1> DEFINE v == call.page
           m == Settled
<1>3. Tree(m) /\ v \in Slots
  BY <1>1
<1> HIDE DEF v, m
<1>4. /\ PdptOf(m, v) \in Level3(m) \cup {Nowhere}
      /\ PdOf(m, v) \in Level2(m) \cup {Nowhere}
      /\ PtOf(m, v) \in Level1(m) \cup {Nowhere}
  BY <1>3, WalkFact
<1>5. call.at = TableAt(m, call.level, v)
  BY <1>1 DEF m, v
<1>6. /\ call.level = 4 => call.at = Root
      /\ call.level = 3 => call.at = PdptOf(m, v)
      /\ call.level = 2 => call.at = PdOf(m, v)
      /\ call.level = 1 => call.at = PtOf(m, v)
  BY <1>5 DEF TableAt
<1>7. /\ call.level > 1 => call.at \in Interior(m)
      /\ call.level = 1 => call.at \in Level1(m)
  BY <1>1, <1>2, <1>4, <1>6 DEF Interior
<1> QED
  BY <1>1, <1>2, <1>7, IndexFact DEF m

(* A step that leaves the settled tables alone leaves the tree alone.         *)
LEMMA QuietShape ==
  ASSUME Shape, Settled' = Settled, UNCHANGED <<inUse, owned>>,
         TypeOK', call' \in CallType
  PROVE  Shape'
  BY DEF Shape, NoFrameLost

(* The boot state: a zeroed PML4, nothing mapped, nothing cached.             *)
LEMMA InitShape == Init => IInv
<1> SUFFICES ASSUME Init PROVE IInv
  OBVIOUS
<1>1. Root \in Frames /\ Root \in Targets /\ Root # Nowhere
  BY RootFact
<1>2. Absent \in EntryType /\ Entry(Root, FALSE) \in EntryType
  BY <1>1 DEF EntryType, Entry
<1>3. EmptyTable \in [Cells -> EntryType] /\ Contents \in Memory
  BY <1>2, PageMapperAssumption DEF EmptyTable, Cells, Memory
<1>4. table \in Memory /\ Settled = table /\ table[Root] = EmptyTable
  BY <1>1, <1>3 DEF Init, Memory, Settled
<1>5. \A i \in Cells : ~ table[Root][i].present
  BY <1>4 DEF EmptyTable, Absent, Cells
<1>6. Level3(table) = {}
  BY <1>5, ChildrenFact DEF Level3
<1>7. Level2(table) = {}
  BY <1>6, ChildrenFact DEF Level2
<1>8. Level1(table) = {}
  BY <1>7, ChildrenFact DEF Level1
<1>9. Tree(table) /\ Tables(table) = {Root}
  <2>1. Interior(table) = {Root} /\ Tables(table) = {Root}
    BY <1>6, <1>7, <1>8 DEF Interior, Tables
  <2> QED
    BY <1>1, <1>4, <1>5, <1>6, <1>7, <1>8, <2>1 DEF Tree, LevelsApart, OneParent
<1>10. 0 \in Slots
  BY PageMapperAssumption DEF Slots, PagesUnder
<1>11. call \in CallType
  BY <1>1, <1>10 DEF Init, NoCall, CallType
<1>12. TypeOK
  BY <1>1, <1>4, <1>11 DEF Init, TypeOK, Memory, Cells, CallType
<1>13. Shape
  BY <1>4, <1>9, <1>11, <1>12 DEF Shape, NoFrameLost, Init
<1> QED
  BY <1>13 DEF Init, IInv, Walking, Ranging, Cached, IdentityRangeIsMapped, Result

---------------------------------------------------------------------------
(* Callers take and give back frames that are not tables.                     *)
LEMMA CallerSteps ==
  ASSUME IInv, CallerAllocates \/ \E f \in owned : CallerFrees(f)
  PROVE  IInv'
<1>1. /\ pc = "idle" /\ UNCHANGED <<table, pc, call, outcome, tlb>>
      /\ Settled' = Settled
  BY DEF CallerAllocates, CallerFrees, Settled
<1>2. /\ inUse' \subseteq Frames /\ owned' \subseteq Frames
      /\ inUse' = owned' \cup Tables(Settled) /\ owned' \cap Tables(Settled) = {}
  <2>1. /\ inUse \subseteq Frames /\ owned \subseteq Frames
        /\ inUse = owned \cup Tables(Settled) /\ owned \cap Tables(Settled) = {}
    BY DEF IInv, Shape, NoFrameLost, TypeOK
  <2>2. CASE CallerAllocates /\ Grant(1)
    <3>1. PICK s \in Frames : /\ FreeRunAt(s, 1)
                              /\ inUse' = inUse \cup (s .. s + 1 - 1)
                              /\ answer' = s
      BY <2>2 DEF Grant
    <3>2. s .. s + 1 - 1 = {s}
      BY PageMapperAssumption
    <3>3. s \notin inUse /\ s # Refused
      BY <3>1, <3>2, PageMapperAssumption DEF FreeRunAt
    <3>4. owned' = owned \cup {s}
      BY <2>2, <3>1, <3>3 DEF CallerAllocates
    <3> QED
      BY <2>1, <3>1, <3>2, <3>3, <3>4
  <2>3. CASE CallerAllocates /\ Refuse(1)
    BY <2>1, <2>3 DEF CallerAllocates, Refuse
  <2>4. ASSUME NEW f \in owned, CallerFrees(f)
        PROVE  /\ inUse' \subseteq Frames /\ owned' \subseteq Frames
               /\ inUse' = owned' \cup Tables(Settled)
               /\ owned' \cap Tables(Settled) = {}
    BY <2>1, <2>4 DEF CallerFrees, GiveBack
  <2> QED
    BY <2>2, <2>3, <2>4 DEF CallerAllocates
<1>3. TypeOK'
  BY <1>1, <1>2 DEF IInv, Shape, TypeOK
<1>4. Shape'
  BY <1>1, <1>2, <1>3 DEF IInv, Shape, NoFrameLost
<1> QED
  BY <1>1, <1>4 DEF IInv, Walking, Ranging, Cached, IdentityRangeIsMapped

(* The pages of a range are pages, and may be mapped to themselves.           *)
LEMMA RangeFact ==
  ASSUME NEW r \in Ranges
  PROVE  /\ FirstPage(r) \in Nat /\ EndPage(r) \in Nat
         /\ \A v \in FirstPage(r) .. EndPage(r) - 1 : v \in Slots /\ v \in Targets
<1>1. r[1] \in Nat /\ r[2] \in Nat
  BY PageMapperAssumption
<1>2. FirstPage(r) \in Nat /\ EndPage(r) \in Nat
  BY <1>1 DEF FirstPage, EndPage, PAGE_SIZE
<1> QED
  BY <1>2, PageMapperAssumption

(* Pages are numbers.                                                         *)
LEMMA SlotFact == \A v \in Slots : v \in Nat /\ v + 1 \in Nat
  BY DEF Slots

(* map_page starts at the PML4.                                               *)
LEMMA MapPageStep ==
  ASSUME IInv, NEW v \in Pages, NEW f \in owned \cup Devices, NEW fl \in Flags,
         MapPage(v, f, fl)
  PROVE  IInv'
<1>1. /\ pc = "idle" /\ pc' = "walk" /\ Settled' = Settled
      /\ call' = [range |-> NoBytes, page |-> v, end |-> v + 1, frame |-> f,
                  flags |-> fl, level |-> 4, at |-> Root]
      /\ UNCHANGED <<poolVars, table, outcome, tlb, owned>>
  BY DEF MapPage, Begin, Settled
<1>2. /\ v \in Slots /\ f \in Targets /\ Root \in Frames /\ v + 1 \in Nat
      /\ fl \in [present : BOOLEAN, user : BOOLEAN]
  BY PageMapperAssumption, SlotFact, RootFact DEF IInv, Shape, TypeOK, Targets
<1>3. call' \in CallType
  BY <1>1, <1>2 DEF CallType
<1>4. TypeOK'
  BY <1>1, <1>2 DEF IInv, Shape, TypeOK, poolVars
<1>5. Shape'
  BY <1>1, <1>3, <1>4, QuietShape DEF IInv, poolVars
<1>6. Walking'
  BY <1>1, <1>2 DEF Walking, TableAt
<1>7. Ranging'
  BY <1>1, <1>2 DEF Ranging
<1>8. Cached'
  BY <1>1 DEF IInv, Cached
<1> QED
  BY <1>1, <1>5, <1>6, <1>7, <1>8 DEF IInv, IdentityRangeIsMapped

(* identity_map_range starts at its first page, or returns at once.           *)
LEMMA IdentityMapRangeStep ==
  ASSUME IInv, NEW r \in Ranges, NEW fl \in Flags, IdentityMapRange(r, fl)
  PROVE  IInv'
<1>1. /\ pc = "idle" /\ UNCHANGED <<poolVars, table, tlb, owned>>
  BY DEF IdentityMapRange
<1>2. /\ Root \in Frames /\ fl \in [present : BOOLEAN, user : BOOLEAN]
      /\ FirstPage(r) \in Nat /\ EndPage(r) \in Nat
      /\ \A v \in FirstPage(r) .. EndPage(r) - 1 : v \in Slots /\ v \in Targets
  BY PageMapperAssumption, RangeFact
<1>3. CASE FirstPage(r) < EndPage(r)
  <2>1. /\ pc' = "walk" /\ Settled' = Settled
        /\ call' = [range |-> r, page |-> FirstPage(r), end |-> EndPage(r),
                    frame |-> FirstPage(r), flags |-> fl, level |-> 4, at |-> Root]
    BY <1>1, <1>3 DEF IdentityMapRange, Begin, Settled
  <2>2. FirstPage(r) \in Slots /\ FirstPage(r) \in Targets
    BY <1>2, <1>3
  <2>3. call' \in CallType
    BY <1>2, <2>1, <2>2 DEF CallType
  <2>4. TypeOK'
    BY <1>1, <1>2, <2>1 DEF IInv, Shape, TypeOK, poolVars
  <2>5. Shape'
    BY <1>1, <2>1, <2>3, <2>4, QuietShape DEF IInv, poolVars
  <2>6. Walking'
    BY <2>1, <2>2 DEF Walking, TableAt
  <2>7. Ranging'
    <3>1. r # NoBytes
      BY <1>3 DEF NoBytes, FirstPage, EndPage, PAGE_SIZE
    <3> QED
      BY <1>2, <1>3, <2>1, <3>1 DEF Ranging
  <2>8. Cached'
    BY <1>1, <2>1 DEF IInv, Cached
  <2> QED
    BY <2>1, <2>5, <2>6, <2>7, <2>8 DEF IInv, IdentityRangeIsMapped
<1>4. CASE ~(FirstPage(r) < EndPage(r))
  <2>1. /\ pc' = "idle" /\ Settled' = Settled /\ call' = NoCall
        /\ outcome' = Result("nothing", Nowhere, Nowhere)
    BY <1>1, <1>4 DEF IdentityMapRange, Settled
  <2>2. NoCall \in CallType
    BY <1>2, PageMapperAssumption DEF NoCall, CallType, Slots, PagesUnder
  <2>3. TypeOK'
    BY <1>1, <1>2, <2>1 DEF IInv, Shape, TypeOK, poolVars, NoCall
  <2>4. Shape'
    BY <1>1, <2>1, <2>2, <2>3, QuietShape DEF IInv, poolVars
  <2> QED
    BY <1>1, <2>1, <2>4
       DEF IInv, Walking, Ranging, Cached, IdentityRangeIsMapped, Result
<1> QED
  BY <1>3, <1>4

(* The record of no call is one.                                              *)
LEMMA NoCallFact == NoCall \in CallType
  BY PageMapperAssumption DEF NoCall, CallType, Slots, PagesUnder

(* A call that ends without having changed anything since its last write.     *)
LEMMA FailStep ==
  ASSUME IInv, NEW what, what \notin {"mapped", "unmapped"},
         pc # "zero", pc # "flush", pc' = "idle",
         outcome'.what = what, call' = NoCall, UNCHANGED <<inUse, table, tlb, owned>>
  PROVE  IInv'
<1>1. Settled' = Settled
  BY DEF Settled
<1>2. TypeOK'
  BY RootFact DEF IInv, Shape, TypeOK, NoCall
<1>3. Shape'
  BY <1>1, <1>2, NoCallFact, QuietShape DEF IInv
<1> QED
  BY <1>1, <1>3 DEF IInv, Walking, Ranging, Cached, IdentityRangeIsMapped

(* One level down.                                                            *)
LEMMA NextLevel ==
  ASSUME call \in CallType, call.level \in 2 .. 4, NEW f \in Frames,
         call' = [call EXCEPT !.level = @ - 1, !.at = f]
  PROVE  /\ call' \in CallType
         /\ call'.level = call.level - 1 /\ call'.at = f
         /\ call'.page = call.page /\ call'.range = call.range /\ call'.end = call.end
         /\ call'.frame = call.frame /\ call'.flags = call.flags
<1>1. /\ call'.level = call.level - 1 /\ call'.at = f
      /\ call'.page = call.page /\ call'.range = call.range /\ call'.end = call.end
      /\ call'.frame = call.frame /\ call'.flags = call.flags
  BY DEF CallType
<1>2. call.level - 1 \in 0 .. 4
  OBVIOUS
<1> QED
  BY <1>1, <1>2 DEF CallType

(* get_or_create_table finds the table there.                                 *)
LEMMA DescendStep == ASSUME IInv, Descend PROVE IInv'
<1>1. /\ pc = "walk" /\ pc' = "walk" /\ Settled = table /\ Settled' = table
      /\ call.level > 1 /\ EntryAtCall.present
      /\ UNCHANGED <<poolVars, table, outcome, tlb, owned>>
      /\ call' = [call EXCEPT !.level = @ - 1, !.at = EntryAtCall.frame]
  BY DEF Descend, Settled
<1>2. /\ call \in CallType /\ call.level \in 1 .. 4 /\ call.at \in Frames
      /\ call.at # Nowhere /\ call.frame \in Targets
      /\ call.at \in Interior(table) /\ call.page \in Slots
      /\ IndexAt(call.level, call.page) \in Cells
      /\ call.at = TableAt(table, call.level, call.page)
  BY <1>1, AtFact DEF IInv, Shape, Walking
<1>3. EntryAtCall.frame \in Tables(table) /\ Tables(table) \subseteq Frames
  BY <1>1, <1>2, ParentsFact DEF EntryAtCall, IInv, Shape, Tree
<1>4. /\ call' \in CallType
      /\ call'.level = call.level - 1 /\ call'.at = EntryAtCall.frame
      /\ call'.page = call.page /\ call'.range = call.range /\ call'.end = call.end
      /\ call'.frame = call.frame /\ call'.flags = call.flags
  <2> DEFINE f == EntryAtCall.frame
  <2>1. f \in Frames /\ call.level \in 2 .. 4
    BY <1>1, <1>2, <1>3
  <2>2. call' = [call EXCEPT !.level = @ - 1, !.at = f]
    BY <1>1
  <2>3. f = EntryAtCall.frame
    OBVIOUS
  <2> HIDE DEF f
  <2> QED
    BY <1>2, <2>1, <2>2, <2>3, NextLevel
<1>5. EntryAtCall.frame = TableAt(table, call.level - 1, call.page)
  <2>1. Follow(table, call.at, call.level, call.page) = EntryAtCall.frame
    BY <1>1, <1>2, FollowFact DEF EntryAtCall
  <2> QED
    BY <1>1, <1>2, <2>1 DEF TableAt, PdptOf, PdOf, PtOf
<1>6. TypeOK'
  BY <1>1, <1>4 DEF IInv, Shape, TypeOK, poolVars, CallType
<1>7. Shape'
  BY <1>1, <1>4, <1>6, QuietShape DEF IInv, poolVars
<1>8. Walking'
  BY <1>1, <1>2, <1>4, <1>5 DEF Walking
<1>9. Ranging' /\ Cached'
  BY <1>1, <1>4 DEF IInv, Ranging, Cached
<1> QED
  BY <1>1, <1>7, <1>8, <1>9 DEF IInv, IdentityRangeIsMapped

(* Of the pages of the range in progress, those already mapped are pages.     *)
LEMMA DonePages ==
  ASSUME IInv, pc # "idle", call.range # NoBytes
  PROVE  /\ \A v \in FirstPage(call.range) .. call.page : v \in Slots
         /\ FirstPage(call.range) \in Nat /\ call.page \in Nat
         /\ call.page \in FirstPage(call.range) .. call.page
<1>1. /\ call.range \in Ranges /\ call.end = EndPage(call.range)
      /\ call.page < call.end /\ call.page \in Nat
      /\ FirstPage(call.range) <= call.page
  BY SlotFact DEF IInv, Shape, CallType, Ranging
<1>2. /\ FirstPage(call.range) \in Nat /\ EndPage(call.range) \in Nat
      /\ \A v \in FirstPage(call.range) .. EndPage(call.range) - 1 : v \in Slots
  BY <1>1, RangeFact
<1> QED
  BY <1>1, <1>2

(* A step inside a walk that changes no translation.                          *)
LEMMA WalkOn ==
  ASSUME IInv, pc \in {"walk", "zero"}, pc' \in {"walk", "zero"},
         \A v \in Slots : Translate(Settled', v) = Translate(Settled, v),
         UNCHANGED <<outcome, tlb>>,
         call'.page = call.page, call'.range = call.range, call'.end = call.end,
         call'.frame = call.frame, call'.flags = call.flags
  PROVE  Ranging' /\ Cached' /\ IdentityRangeIsMapped'
<1>1. Cached'
  <2>1. \A e \in tlb : e[1] \in Slots
    BY DEF IInv, Shape, TypeOK
  <2> QED
    BY <2>1 DEF IInv, Cached
<1>2. Ranging'
  <2>1. CASE call.range = NoBytes
    BY <2>1 DEF IInv, Ranging
  <2>2. CASE call.range # NoBytes
    <3>1. \A v \in FirstPage(call.range) .. call.page - 1 : v \in Slots
      BY <2>2, DonePages
    <3>2. /\ call.end = EndPage(call.range) /\ call.frame = call.page
          /\ FirstPage(call.range) <= call.page /\ call.page < call.end
          /\ call.flags.present =>
               \A v \in FirstPage(call.range) .. call.page - 1 : Translate(Settled, v) = v
      BY <2>2 DEF IInv, Ranging
    <3> QED
      BY <2>2, <3>1, <3>2 DEF Ranging
  <2> QED
    BY <2>1, <2>2
<1> QED
  BY <1>1, <1>2 DEF IdentityRangeIsMapped

(* get_or_create_table got a frame: once it is zeroed, a table of the tree.   *)
LEMMA InstallTableTree ==
  ASSUME IInv, pc = "walk", call.level > 1, ~ EntryAtCall.present,
         Grant(1), SetEntryAtCall(Entry(answer', FALSE)), pc' = "zero"
  PROVE  /\ table' \in Memory /\ Tree(Settled')
         /\ answer' \in Frames /\ answer' \notin owned
         /\ inUse' = inUse \cup {answer'}
         /\ Tables(Settled') = Tables(Settled) \cup {answer'}
         /\ \A v \in Slots : Translate(Settled', v) = Translate(Settled, v)
         /\ TableAt(Settled', call.level, call.page) = call.at
         /\ TableAt(Settled', call.level - 1, call.page) = answer'
<1> DEFINE t == call.at
           i == IndexAt(call.level, call.page)
           s == answer'
<1>1. Settled = table
  BY DEF Settled
<1>2. /\ call.level \in 2 .. 4 /\ call.page \in Slots /\ i \in Cells
      /\ t \in Frames /\ t \in Interior(table)
      /\ t = TableAt(table, call.level, call.page)
      /\ Tree(table) /\ NoFrameLost
  BY <1>1, AtFact DEF IInv, Shape, Walking
<1>3. s \in Frames /\ s \notin inUse /\ inUse' = inUse \cup {s}
  <2>1. PICK x \in Frames : /\ FreeRunAt(x, 1) /\ inUse' = inUse \cup (x .. x + 1 - 1)
                            /\ answer' = x
    BY DEF Grant
  <2>2. x .. x + 1 - 1 = {x}
    BY PageMapperAssumption
  <2> QED
    BY <2>1, <2>2 DEF FreeRunAt
<1>4. table' = [table EXCEPT ![t][i] = Entry(s, FALSE)]
  BY DEF SetEntryAtCall
<1>5. Settled' = [table' EXCEPT ![s] = EmptyTable]
  BY DEF Settled
<1>6. s \notin Tables(table) /\ s \notin owned /\ t \in Tables(table)
  BY <1>1, <1>2, <1>3 DEF NoFrameLost, Interior, Tables
<1>7. ~ table[t][i].present
  BY DEF EntryAtCall
<1>8. Entry(s, FALSE) \in EntryType /\ Absent \in EntryType
  BY <1>3, RootFact DEF Entry, EntryType
<1>9. table \in [Frames -> [Cells -> EntryType]]
  BY <1>2 DEF Tree, Memory
<1> HIDE DEF t, i, s
<1>10. table' = [table EXCEPT ![t] = [table[t] EXCEPT ![i] = Entry(s, FALSE)]]
  BY <1>4
<1>11. [table[t] EXCEPT ![i] = Entry(s, FALSE)] \in [Cells -> EntryType]
  BY <1>2, <1>8, <1>9
<1>12. table' \in Memory
  BY <1>2, <1>9, <1>10, <1>11 DEF Memory
<1>13. EmptyTable \in [Cells -> EntryType]
  BY <1>8 DEF EmptyTable, Cells
<1>14. Installs(table, Settled', t, i, s)
  <2>1. Settled' \in Memory /\ Settled'[s] = EmptyTable
    BY <1>3, <1>5, <1>12, <1>13 DEF Memory
  <2>2. \A u \in Frames : u # t /\ u # s => Settled'[u] = table[u]
    BY <1>5, <1>9, <1>10, <1>12 DEF Memory
  <2>3. Settled'[t] = [table[t] EXCEPT ![i] = Entry(s, FALSE)]
    BY <1>2, <1>5, <1>6, <1>9, <1>10, <1>12 DEF Memory
  <2>4. /\ \A j \in Cells : j # i => Settled'[t][j] = table[t][j]
        /\ Settled'[t][i] = Entry(s, FALSE)
    BY <1>2, <1>9, <2>3
  <2> QED
    BY <1>2, <1>3, <1>6, <1>7, <2>1, <2>2, <2>4 DEF Installs, Install, Entry
<1>15. Tree(Settled') /\ Tables(Settled') = Tables(table) \cup {s}
  BY <1>14, InstallTree, InstallTables
<1>16. /\ \A v \in Slots : Translate(Settled', v) = Translate(table, v)
       /\ TableAt(Settled', call.level, call.page) = t
       /\ TableAt(Settled', call.level - 1, call.page) = s
  BY <1>2, <1>14, InstallTranslate DEF i
<1> QED
  BY <1>1, <1>3, <1>6, <1>12, <1>15, <1>16 DEF t, s

(* get_or_create_table makes a table, or fails.                               *)
LEMMA InstallTableStep == ASSUME IInv, InstallTable PROVE IInv'
<1>1. /\ pc = "walk" /\ call.level > 1 /\ ~ EntryAtCall.present
  BY DEF InstallTable
<1>2. /\ call.level \in 2 .. 4 /\ call.at \in Frames /\ call.frame \in Targets
      /\ NoFrameLost /\ call \in CallType
  BY <1>1, AtFact DEF IInv, Shape, Walking
<1>3. CASE Refuse(1) /\ Fail("OutOfMemory")
  BY <1>1, <1>3, FailStep DEF Refuse, Fail, Result
<1>4. CASE /\ Grant(1) /\ SetEntryAtCall(Entry(answer', FALSE))
           /\ pc' = "zero" /\ UNCHANGED <<call, outcome, tlb, owned>>
  <2>1. /\ table' \in Memory /\ Tree(Settled')
        /\ answer' \in Frames /\ answer' \notin owned
        /\ inUse' = inUse \cup {answer'}
        /\ Tables(Settled') = Tables(Settled) \cup {answer'}
        /\ \A v \in Slots : Translate(Settled', v) = Translate(Settled, v)
        /\ TableAt(Settled', call.level, call.page) = call.at
        /\ TableAt(Settled', call.level - 1, call.page) = answer'
    BY <1>1, <1>4, InstallTableTree
  <2>2. TypeOK' /\ call' \in CallType
    BY <1>2, <1>4, <2>1 DEF IInv, Shape, TypeOK, Memory, Cells
  <2>3. NoFrameLost'
    BY <1>2, <1>4, <2>1 DEF NoFrameLost
  <2>4. Shape'
    BY <2>1, <2>2, <2>3 DEF Shape
  <2>5. Walking'
    BY <1>2, <1>4, <2>1 DEF Walking
  <2>6. Ranging' /\ Cached' /\ IdentityRangeIsMapped'
    BY <1>1, <1>4, <2>1, WalkOn
  <2> QED
    BY <2>4, <2>5, <2>6 DEF IInv
<1> QED
  BY <1>1, <1>3, <1>4 DEF InstallTable

(* The zeroing of a new table, which Settled had anticipated.                 *)
LEMMA ZeroTableStep == ASSUME IInv, ZeroTable PROVE IInv'
<1>1. /\ pc = "zero" /\ pc' = "walk" /\ table' = [table EXCEPT ![answer] = EmptyTable]
      /\ call' = [call EXCEPT !.level = @ - 1, !.at = answer]
      /\ UNCHANGED <<poolVars, outcome, tlb, owned>>
  BY DEF ZeroTable
<1>2. Settled = table' /\ Settled' = table'
  BY <1>1 DEF Settled
<1>3. /\ call \in CallType /\ call.level \in 2 .. 4 /\ answer \in Frames
      /\ answer = TableAt(Settled, call.level - 1, call.page)
      /\ call.frame \in Targets /\ Settled \in Memory
  BY <1>1 DEF IInv, Shape, Walking, CallType, Tree
<1>4. /\ call' \in CallType
      /\ call'.level = call.level - 1 /\ call'.at = answer
      /\ call'.page = call.page /\ call'.range = call.range /\ call'.end = call.end
      /\ call'.frame = call.frame /\ call'.flags = call.flags
  BY <1>1, <1>3, NextLevel
<1>5. TypeOK'
  BY <1>1, <1>2, <1>3, <1>4 DEF IInv, Shape, TypeOK, poolVars, CallType, Memory, Cells
<1>6. Shape'
  BY <1>1, <1>2, <1>4, <1>5, QuietShape DEF IInv, poolVars
<1>7. Walking'
  BY <1>1, <1>2, <1>3, <1>4 DEF Walking
<1>8. Ranging' /\ Cached' /\ IdentityRangeIsMapped'
  BY <1>1, <1>2, <1>4, WalkOn
<1> QED
  BY <1>6, <1>7, <1>8 DEF IInv

(* Writing entry e of the page table that page v is looked up in: the tables  *)
(* stay what they are, and only the translation of v changes.                 *)
LEMMA LeafWrite ==
  ASSUME Tree(table), NEW v \in Slots, NEW e \in EntryType, NEW t,
         t = PtOf(table, v), t # Nowhere,
         table' = [table EXCEPT ![t][IndexAt(1, v)] = e]
  PROVE  /\ table' \in Memory /\ Tree(table') /\ Tables(table') = Tables(table)
         /\ Translate(table', v) = IF e.present THEN e.frame ELSE Nowhere
         /\ \A w \in Slots : w # v => Translate(table', w) = Translate(table, w)
<1> DEFINE i == IndexAt(1, v)
<1>1. t \in Level1(table) /\ i \in Cells
  BY WalkFact, IndexFact
<1>2. SetsLeaf(table, table', t, i, e)
  BY <1>1 DEF SetsLeaf
<1> HIDE DEF i
<1>3. \A w \in Slots :
        Translate(table', w) = IF w = v THEN (IF e.present THEN e.frame ELSE Nowhere)
                                        ELSE Translate(table, w)
  BY <1>2, LeafTranslate DEF i
<1> QED
  BY <1>2, <1>3, LeafTree, LeafRows

(* map_page writes its leaf, or finds the page taken.                         *)
LEMMA SetLeafStep == ASSUME IInv, SetLeaf PROVE IInv'
<1>1. /\ pc = "walk" /\ call.level = 1 /\ Settled = table /\ UNCHANGED poolVars
  BY DEF SetLeaf, Settled
<1>2. CASE EntryAtCall.present /\ Fail("PageAlreadyMapped")
  BY <1>1, <1>2, FailStep DEF Fail, Result, poolVars
<1>3. CASE /\ ~ EntryAtCall.present
           /\ SetEntryAtCall(Leaf(call.frame, call.flags))
           /\ outcome' = Mapped(call.page, call.frame, call.flags)
           /\ pc' = "flush" /\ UNCHANGED <<poolVars, call, tlb, owned>>
  <2> DEFINE v == call.page
             e == Leaf(call.frame, call.flags)
             t == call.at
  <2>1. /\ v \in Slots /\ t \in Frames /\ t # Nowhere /\ call.frame \in Targets
        /\ call \in CallType /\ Tree(table) /\ t = PtOf(table, v)
    BY <1>1, AtFact DEF IInv, Shape, Walking, TableAt
  <2>2. call.flags.present \in BOOLEAN /\ call.flags.user \in BOOLEAN
    BY <2>1 DEF CallType
  <2>3. e \in EntryType
    BY <2>1, <2>2 DEF Leaf, Entry, EntryType
  <2>4. (IF e.present THEN e.frame ELSE Nowhere)
          = IF call.flags.present THEN call.frame ELSE Nowhere
    BY <2>2 DEF Leaf, Entry, Absent
  <2>5. table' = [table EXCEPT ![t][IndexAt(1, v)] = e]
    BY <1>1, <1>3 DEF SetEntryAtCall
  <2>6. Settled' = table' /\ outcome'.what = "mapped"
    BY <1>3 DEF Settled, Mapped, Result
  <2> HIDE DEF v, e, t
  <2>7. /\ table' \in Memory /\ Tree(table') /\ Tables(table') = Tables(table)
        /\ Translate(table', v) = IF call.flags.present THEN call.frame ELSE Nowhere
        /\ \A w \in Slots : w # v => Translate(table', w) = Translate(table, w)
    BY <2>1, <2>3, <2>4, <2>5, LeafWrite
  <2>8. TypeOK'
    BY <1>3, <2>7 DEF IInv, Shape, TypeOK, poolVars, Memory, Cells
  <2>9. NoFrameLost'
    BY <1>1, <1>3, <2>6, <2>7 DEF IInv, Shape, NoFrameLost, poolVars
  <2>10. Shape'
    BY <1>3, <2>1, <2>6, <2>7, <2>8, <2>9 DEF Shape
  <2>11. Cached'
    <3>1. \A c \in tlb : c[1] \in Slots /\ (Translate(table, c[1]) = c[2] \/ c[3] = "stray")
      BY <1>1 DEF IInv, Shape, TypeOK, Cached
    <3>2. outcome'.page = call.page
      BY <1>3 DEF Mapped, Result
    <3> QED
      BY <1>3, <2>6, <2>7, <3>1, <3>2 DEF Cached, v
  <2>12. Ranging'
    <3>1. CASE call.range = NoBytes
      BY <1>1, <1>3, <2>6, <2>7, <3>1 DEF IInv, Ranging, v
    <3>2. CASE call.range # NoBytes
      <4>1. \A w \in FirstPage(call.range) .. call.page - 1 : w \in Slots /\ w # v
        BY <1>1, <3>2, DonePages DEF v
      <4>2. /\ call.end = EndPage(call.range) /\ call.frame = call.page
            /\ FirstPage(call.range) <= call.page /\ call.page < call.end
            /\ call.flags.present =>
                 \A w \in FirstPage(call.range) .. call.page - 1 :
                   Translate(table, w) = w
        BY <1>1, <3>2 DEF IInv, Ranging
      <4> QED
        BY <1>3, <2>6, <2>7, <3>2, <4>1, <4>2 DEF Ranging, v
    <3> QED
      BY <3>1, <3>2
  <2> QED
    BY <1>3, <2>10, <2>11, <2>12 DEF IInv, Walking, IdentityRangeIsMapped
<1> QED
  BY <1>2, <1>3 DEF SetLeaf

(* Every page a range touches is one of those identity_map_range goes through.*)
LEMMA TouchedPages ==
  ASSUME NEW r \in Ranges, NEW v \in Nat, Touches(v, r)
  PROVE  v \in FirstPage(r) .. EndPage(r) - 1
<1>1. r[1] \in Nat /\ r[2] \in Nat
  BY PageMapperAssumption
<1> DEFINE a == r[1]
           n == r[2]
<1>2. a \in Nat /\ n \in Nat /\ v * 4096 < a + n /\ a < (v + 1) * 4096
  BY <1>1 DEF Touches, PAGE_SIZE
<1> HIDE DEF a, n
<1>3. a \div 4096 <= v /\ v < (a + n + 4096 - 1) \div 4096
  BY <1>2
<1>4. a \div 4096 \in Nat /\ (a + n + 4096 - 1) \div 4096 \in Nat
  BY <1>2
<1> QED
  BY <1>3, <1>4 DEF FirstPage, EndPage, PAGE_SIZE, a, n

(* flush_tlb, and on to the next page of a range.                             *)
LEMMA FlushTlbStep == ASSUME IInv, FlushTlb PROVE IInv'
<1>1. /\ pc = "flush" /\ tlb' = {e \in tlb : e[1] # call.page} /\ Settled = table
      /\ UNCHANGED <<poolVars, table, outcome, owned>>
  BY DEF FlushTlb, Settled
<1>2. /\ call \in CallType /\ call.page \in Slots /\ call.page \in Nat
      /\ call.end \in Nat /\ call.flags \in [present : BOOLEAN, user : BOOLEAN]
  BY SlotFact DEF IInv, Shape, CallType
<1>3. \A e \in tlb' : /\ e \in tlb /\ e[1] # outcome.page
                      /\ Translate(table, e[1]) = e[2] \/ e[3] = "stray"
  BY <1>1 DEF IInv, Cached
<1>4. call.range # NoBytes =>
        /\ call.end = EndPage(call.range) /\ call.frame = call.page
        /\ FirstPage(call.range) <= call.page /\ call.page < call.end
        /\ outcome.what = "mapped"
        /\ call.flags.present =>
             \A v \in FirstPage(call.range) .. call.page : Translate(table, v) = v
  <2> SUFFICES ASSUME call.range # NoBytes
               PROVE  /\ call.end = EndPage(call.range) /\ call.frame = call.page
                      /\ FirstPage(call.range) <= call.page /\ call.page < call.end
                      /\ outcome.what = "mapped"
                      /\ call.flags.present =>
                           \A v \in FirstPage(call.range) .. call.page :
                             Translate(table, v) = v
    OBVIOUS
  <2>1. /\ call.end = EndPage(call.range) /\ call.frame = call.page
        /\ FirstPage(call.range) <= call.page /\ call.page < call.end
        /\ outcome.what = "mapped"
        /\ call.flags.present => Translate(table, call.page) = call.frame
        /\ call.flags.present =>
             \A v \in FirstPage(call.range) .. call.page - 1 : Translate(table, v) = v
    BY <1>1 DEF IInv, Ranging
  <2>2. FirstPage(call.range) \in Nat
    BY <1>1, DonePages
  <2>3. \A v \in FirstPage(call.range) .. call.page :
          v = call.page \/ v \in FirstPage(call.range) .. call.page - 1
    BY <1>2, <2>2
  <2> QED
    BY <2>1, <2>3
<1>5. CASE call.page + 1 < call.end
  <2>1. /\ pc' = "walk" /\ Settled' = table
        /\ call' = [range |-> call.range, page |-> call.page + 1, end |-> call.end,
                    frame |-> call.page + 1, flags |-> call.flags, level |-> 4,
                    at |-> Root]
    BY <1>1, <1>5 DEF FlushTlb, Begin, Settled
  <2>2. call.range # NoBytes /\ call.range \in Ranges
    BY <1>1, <1>2, <1>5 DEF IInv, Ranging, CallType
  <2>3. FirstPage(call.range) \in Nat /\ EndPage(call.range) \in Nat
    BY <2>2, RangeFact
  <2>4. call.page + 1 \in FirstPage(call.range) .. EndPage(call.range) - 1
    BY <1>2, <1>4, <1>5, <2>2, <2>3
  <2>5. call.page + 1 \in Slots /\ call.page + 1 \in Targets
    BY <2>2, <2>4, RangeFact
  <2>6. call' \in CallType
    BY <1>2, <2>1, <2>2, <2>5, RootFact DEF CallType
  <2>7. TypeOK'
    BY <1>1, <2>1, RootFact DEF IInv, Shape, TypeOK, poolVars
  <2>8. Shape'
    BY <1>1, <2>1, <2>6, <2>7, QuietShape DEF IInv, poolVars
  <2>9. Walking'
    BY <2>1, <2>5 DEF Walking, TableAt
  <2>10. Ranging'
    <3>1. (call.page + 1) - 1 = call.page
      BY <1>2
    <3> QED
      BY <1>2, <1>4, <1>5, <2>1, <2>2, <2>3, <2>4, <3>1 DEF Ranging
  <2> QED
    BY <1>3, <2>1, <2>8, <2>9, <2>10 DEF IInv, Cached, IdentityRangeIsMapped
<1>6. CASE ~(call.page + 1 < call.end)
  <2>1. pc' = "idle" /\ call' = call /\ Settled' = table
    BY <1>1, <1>6 DEF FlushTlb, Settled
  <2>2. TypeOK'
    BY <1>1, <2>1 DEF IInv, Shape, TypeOK, poolVars
  <2>3. Shape'
    BY <1>1, <1>2, <2>1, <2>2, QuietShape DEF IInv, poolVars
  <2>4. IdentityRangeIsMapped'
    <3> SUFFICES ASSUME call.flags.present, NEW v \in Slots, Touches(v, call.range)
                 PROVE  Translate(table, v) = v
      BY <1>1, <2>1 DEF IdentityRangeIsMapped
    <3>1. call.range # NoBytes
      BY DEF Touches, NoBytes
    <3>2. call.range \in Ranges
      BY <1>2, <3>1 DEF CallType
    <3>3. v \in FirstPage(call.range) .. EndPage(call.range) - 1 /\ v \in Nat
      BY <3>2, SlotFact, TouchedPages
    <3>4. FirstPage(call.range) \in Nat /\ EndPage(call.range) \in Nat
      BY <3>2, RangeFact
    <3>5. v \in FirstPage(call.range) .. call.page
      BY <1>2, <1>4, <1>6, <3>1, <3>3, <3>4
    <3> QED
      BY <1>4, <3>1, <3>5
  <2>5. Cached'
    BY <1>1, <1>3, <2>1 DEF Cached
  <2> QED
    BY <2>1, <2>3, <2>4, <2>5 DEF IInv, Walking, Ranging
<1> QED
  BY <1>5, <1>6

(* unmap_page clears the leaf, or finds nothing mapped.                       *)
LEMMA UnmapPageStep ==
  ASSUME IInv, NEW v \in Pages, UnmapPage(v)
  PROVE  IInv'
<1>1. /\ pc = "idle" /\ Settled = table /\ UNCHANGED <<poolVars, tlb, owned>>
      /\ v \in Slots /\ v \in Nat /\ Tree(table) /\ NoFrameLost
  BY PageMapperAssumption, SlotFact DEF UnmapPage, Settled, IInv, Shape
<1>2. CASE Translate(table, v) = Nowhere
  <2>1. /\ pc' = "idle" /\ outcome'.what = "InvalidAddress" /\ call' = NoCall
        /\ UNCHANGED table
    BY <1>1, <1>2 DEF UnmapPage, Result
  <2> QED
    BY <1>1, <2>1, FailStep DEF poolVars
<1>3. CASE Translate(table, v) # Nowhere
  <2> DEFINE t == PtOf(table, v)
  <2>1. /\ table' = [table EXCEPT ![t][IndexAt(1, v)] = Absent]
        /\ outcome'.what = "unmapped" /\ pc' = "flush"
        /\ call' = [NoCall EXCEPT !.page = v, !.end = v]
    BY <1>3 DEF UnmapPage, Result
  <2>2. t # Nowhere
    BY <1>3, FollowFact DEF Translate
  <2>3. Absent \in EntryType /\ Settled' = table'
    BY <2>1 DEF EntryType, Settled
  <2>4. /\ call'.range = NoBytes /\ call'.page = v /\ call'.end = v /\ call'.level = 0
        /\ call'.at = Root /\ call' \in CallType
    <3>1. /\ NoCall \in CallType /\ NoCall.level = 0 /\ NoCall.at = Root
          /\ NoCall.range = NoBytes
      BY NoCallFact DEF NoCall
    <3>2. call' = [NoCall EXCEPT !.page = v, !.end = v]
      BY <2>1
    <3> QED
      BY <1>1, <3>1, <3>2 DEF CallType
  <2> HIDE DEF t
  <2>5. /\ table' \in Memory /\ Tree(table') /\ Tables(table') = Tables(table)
        /\ \A w \in Slots : w # v => Translate(table', w) = Translate(table, w)
    BY <1>1, <2>1, <2>2, <2>3, LeafWrite DEF t
  <2>6. TypeOK'
    BY <1>1, <2>1, <2>4, <2>5, RootFact DEF IInv, Shape, TypeOK, poolVars, Memory, Cells
  <2>7. NoFrameLost'
    BY <1>1, <2>3, <2>5 DEF NoFrameLost, poolVars
  <2>8. Shape'
    BY <2>3, <2>4, <2>5, <2>6, <2>7 DEF Shape
  <2>9. Cached'
    <3>1. \A c \in tlb : c[1] \in Slots /\ (Translate(table, c[1]) = c[2] \/ c[3] = "stray")
      BY <1>1 DEF IInv, Shape, TypeOK, Cached
    <3>2. outcome'.page = v
      BY <1>3 DEF UnmapPage, Result
    <3> QED
      BY <1>1, <2>1, <2>3, <2>4, <2>5, <3>1, <3>2 DEF Cached
  <2> QED
    BY <1>1, <2>1, <2>4, <2>8, <2>9
       DEF IInv, Walking, Ranging, IdentityRangeIsMapped
<1> QED
  BY <1>2, <1>3

(* A misaligned address is refused.                                           *)
LEMMA MisalignedStep == ASSUME IInv, Misaligned PROVE IInv'
<1>1. /\ pc = "idle" /\ pc' = "idle" /\ call' = NoCall
      /\ outcome'.what = "InvalidAddress" /\ UNCHANGED <<poolVars, table, tlb, owned>>
  BY DEF Misaligned, Result
<1> QED
  BY <1>1, FailStep DEF poolVars

(* The CPU loads what the tables say, or CR3 is reloaded.                     *)
LEMMA TlbSteps ==
  ASSUME IInv, FlushTlbAll \/ \E v \in Pages : HardwareWalk(v)
  PROVE  IInv'
<1>1. /\ UNCHANGED <<poolVars, table, pc, call, outcome, owned>>
      /\ Settled' = Settled
  BY DEF FlushTlbAll, HardwareWalk, Settled, poolVars
<1>2. \A e \in tlb' : /\ e \in Slots \X Targets \X {"sound", "stray"}
                      /\ \/ e \in tlb
                         \/ Translate(Settled, e[1]) = e[2]
                         \/ e[3] = "stray" /\ pc = "zero"
  <2>1. ASSUME NEW v \in Pages, HardwareWalk(v)
        PROVE  \A e \in tlb' : /\ e \in Slots \X Targets \X {"sound", "stray"}
                               /\ \/ e \in tlb
                                  \/ Translate(Settled, e[1]) = e[2]
                                  \/ e[3] = "stray" /\ pc = "zero"
    <3>1. v \in Slots /\ table \in Memory
      BY PageMapperAssumption DEF IInv, Shape, TypeOK, Memory, Cells
    <3>2. Translate(table, v) \in Targets
      BY <2>1, <3>1, AnyWalkFact DEF HardwareWalk
    <3>3. tlb \subseteq Slots \X Targets \X {"sound", "stray"}
      BY DEF IInv, Shape, TypeOK
    <3>4. PICK kind \in {"sound", "stray"} :
            /\ kind = "stray" \/ Translate(table, v) = Translate(Settled, v)
            /\ kind = "stray" => Translate(table, v) # Translate(Settled, v)
            /\ tlb' = tlb \cup {<<v, Translate(table, v), kind>>}
      BY <2>1 DEF HardwareWalk
    <3>5. pc # "zero" => Settled = table
      BY DEF Settled
    <3> QED
      BY <3>1, <3>2, <3>3, <3>4, <3>5
  <2> QED
    BY <2>1 DEF FlushTlbAll
<1>3. TypeOK'
  BY <1>1, <1>2 DEF IInv, Shape, TypeOK, poolVars
<1>4. Shape'
  <2>1. Shape /\ call' \in CallType
    BY <1>1 DEF IInv, Shape
  <2> QED
    BY <1>1, <1>3, <2>1, QuietShape DEF poolVars
<1>5. Cached'
  BY <1>1, <1>2 DEF IInv, Cached
<1>6. Walking'
  BY <1>1 DEF IInv, Walking, poolVars
<1>7. Ranging' /\ IdentityRangeIsMapped'
  BY <1>1 DEF IInv, Ranging, IdentityRangeIsMapped
<1> QED
  BY <1>4, <1>5, <1>6, <1>7 DEF IInv

(* Every step keeps the invariant.                                            *)
LEMMA NextStep == IInv /\ [Next]_vars => IInv'
<1> SUFFICES ASSUME IInv, [Next]_vars PROVE IInv'
  OBVIOUS
<1>1. CASE UNCHANGED vars
  BY <1>1 DEF vars, poolVars, IInv, Shape, TypeOK, NoFrameLost, Settled, Walking,
              Ranging, Cached, IdentityRangeIsMapped
<1>2. CASE Next
  BY <1>2, CallerSteps, MapPageStep, IdentityMapRangeStep, MisalignedStep, DescendStep,
     InstallTableStep, ZeroTableStep, SetLeafStep, FlushTlbStep, UnmapPageStep,
     TlbSteps DEF Next
<1> QED
  BY <1>1, <1>2

(* The inductive invariant holds of every behaviour, whatever the width of a  *)
(* table, the frames, the pages and the ranges.                               *)
THEOREM PageMapperInvariant == Spec => []IInv
<1> QED
  BY InitShape, NextStep, PTL DEF Spec

(* No step of the mapper leaves the types: in particular a walk never stands  *)
(* on a frame outside the pool, and never goes below level 1.                 *)
THEOREM TypesAreKept == Spec => []TypeOK
<1>1. IInv => TypeOK
  BY DEF IInv, Shape
<1> QED
  BY <1>1, PageMapperInvariant, PTL

(* The page tables always form a tree: get_or_create_table never lets two     *)
(* entries share a table, nor one table sit at two levels.                    *)
THEOREM TreeStaysATree == Spec => []TablesFormATree
<1>1. IInv => TablesFormATree
  BY TreeIsCounted DEF IInv, Shape, TablesFormATree
<1> QED
  BY <1>1, PageMapperInvariant, PTL

(* Every frame given out by the allocator is a caller's or a reachable table, *)
(* never both, also when map_page failed half-way down.                       *)
THEOREM EveryFrameIsAccountedFor == Spec => []NoFrameLost
<1>1. IInv => NoFrameLost
  BY DEF IInv, Shape
<1> QED
  BY <1>1, PageMapperInvariant, PTL

(* Between calls the CPU caches nothing that is out of date but what it       *)
(* loaded through a table that was not yet zeroed, and nothing at all of the  *)
(* page that map_page or unmap_page has just changed and flushed; with its    *)
(* walker free to run between any two writes, whatever the frames held.       *)
THEOREM StaleEntriesAreStrays == Spec => []StaleOnlyIfStray
<1>1. IInv => StaleOnlyIfStray
  BY DEF IInv, Cached, Settled, StaleOnlyIfStray
<1> QED
  BY <1>1, PageMapperInvariant, PTL

(* When identity_map_range returns Ok, every byte of its range translates to  *)
(* itself.                                                                    *)
THEOREM IdentityMapIsComplete == Spec => []IdentityRangeIsMapped
<1>1. IInv => IdentityRangeIsMapped
  BY DEF IInv
<1> QED
  BY <1>1, PageMapperInvariant, PTL

---------------------------------------------------------------------------
(* The address space the tables stand for.                                    *)
SpaceNow == [v \in Slots |-> Translate(Settled, v)]

(* Without a change of translations the address space is the same.            *)
LEMMA SpaceKept ==
  ASSUME \A v \in Slots : Translate(Settled', v) = Translate(Settled, v)
  PROVE  SpaceNow' = SpaceNow
  BY DEF SpaceNow

(* With a change at one page it is changed there.                             *)
LEMMA SpaceChanged ==
  ASSUME NEW v \in Slots, NEW f, Translate(Settled', v) = f,
         \A w \in Slots : w # v => Translate(Settled', w) = Translate(Settled, w)
  PROVE  SpaceNow' = [SpaceNow EXCEPT ![v] = f]
  BY DEF SpaceNow

(* What the address space says of a page.                                     *)
LEMMA SpaceAt == \A v \in Slots : SpaceNow[v] = Translate(Settled, v)
  BY DEF SpaceNow

(* A missing entry on the way down leaves the page unmapped.                  *)
LEMMA MissingEntry ==
  ASSUME NEW mem, NEW v \in Slots, NEW l \in 2 .. 4, NEW t, t # Nowhere,
         t = TableAt(mem, l, v), ~ mem[t][IndexAt(l, v)].present
  PROVE  Translate(mem, v) = Nowhere
<1>1. Follow(mem, t, l, v) = Nowhere
  BY FollowFact
<1>2. \A k : Follow(mem, Nowhere, k, v) = Nowhere
  BY FollowFact
<1>3. CASE l = 4
  BY <1>1, <1>2, <1>3 DEF TableAt, PdptOf, PdOf, PtOf, Translate
<1>4. CASE l = 3
  BY <1>1, <1>2, <1>4 DEF TableAt, PdOf, PtOf, Translate
<1>5. CASE l = 2
  BY <1>1, <1>2, <1>5 DEF TableAt, PtOf, Translate
<1> QED
  BY <1>3, <1>4, <1>5

(* At boot the address space is empty.                                        *)
LEMMA InitSpace == Init => Space!SpaceInit
<1> SUFFICES ASSUME Init PROVE Space!SpaceInit
  OBVIOUS
<1>1. Settled = table /\ table[Root] = EmptyTable
  BY RootFact DEF Init, Settled
<1>2. \A v \in Slots : Translate(table, v) = Nowhere
  <2> TAKE v \in Slots
  <2>1. ~ table[Root][IndexAt(4, v)].present
    BY <1>1, IndexFact DEF EmptyTable, Absent, Cells
  <2>2. TableAt(table, 4, v) = Root
    BY DEF TableAt
  <2> QED
    BY <2>1, <2>2, RootFact, MissingEntry
<1> QED
  BY <1>1, <1>2 DEF Space!SpaceInit, Space!Call, Init, Result

(* The leaf write is where map_page takes effect: Map, MapInert or            *)
(* MapOccupied.                                                               *)
LEMMA SpaceSetLeaf == ASSUME IInv, SetLeaf PROVE Space!SpaceNext
<1> DEFINE v == call.page
           t == call.at
<1>1. /\ pc = "walk" /\ call.level = 1 /\ Settled = table
      /\ v \in Slots /\ t \in Frames /\ t # Nowhere /\ call.frame \in Targets
      /\ call \in CallType /\ Tree(table) /\ t = PtOf(table, v)
      /\ IndexAt(1, v) \in Cells
  BY AtFact DEF SetLeaf, Settled, IInv, Shape, Walking, TableAt
<1>2. EntryAtCall = table[t][IndexAt(1, v)]
  BY <1>1 DEF EntryAtCall
<1>3. CASE EntryAtCall.present /\ Fail("PageAlreadyMapped")
  <2>1. Translate(table, v) # Nowhere
    BY <1>1, <1>2, <1>3, EntryFact, FollowFact DEF Translate, Tree
  <2>2. Settled' = Settled /\ outcome' = Result("PageAlreadyMapped", v, Nowhere)
    BY <1>1, <1>3 DEF Fail, Settled
  <2>3. Space!MapOccupied(v)
    BY <1>1, <2>1, <2>2, SpaceKept, SpaceAt
       DEF Space!MapOccupied, Space!Call, Result, SpaceNow
  <2> QED
    BY <1>1, <2>3 DEF Space!SpaceNext
<1>4. CASE /\ ~ EntryAtCall.present
           /\ SetEntryAtCall(Leaf(call.frame, call.flags))
           /\ outcome' = Mapped(call.page, call.frame, call.flags)
           /\ pc' = "flush"
  <2> DEFINE e == Leaf(call.frame, call.flags)
             f == call.frame
  <2>1. Translate(table, v) = Nowhere
    BY <1>1, <1>2, <1>4, FollowFact DEF Translate
  <2>2. call.flags.present \in BOOLEAN /\ call.flags.user \in BOOLEAN
    BY <1>1 DEF CallType
  <2>3. e \in EntryType
    BY <1>1, <2>2 DEF Leaf, Entry, EntryType
  <2>4. (IF e.present THEN e.frame ELSE Nowhere)
          = IF call.flags.present THEN f ELSE Nowhere
    BY <2>2 DEF Leaf, Entry, Absent
  <2>5. table' = [table EXCEPT ![t][IndexAt(1, v)] = e]
    BY <1>1, <1>4 DEF SetEntryAtCall
  <2>6. Settled' = table'
    BY <1>4 DEF Settled
  <2>7. outcome' = Result("mapped", v, IF call.flags.present THEN f ELSE Nowhere)
    BY <1>4 DEF Mapped
  <2>8. v \in Slots /\ f \in Targets /\ t # Nowhere /\ t = PtOf(table, v)
    BY <1>1
  <2> HIDE DEF v, e, t, f
  <2>9. /\ Translate(table', v) = IF call.flags.present THEN f ELSE Nowhere
        /\ \A w \in Slots : w # v => Translate(table', w) = Translate(table, w)
    BY <1>1, <2>3, <2>4, <2>5, <2>8, LeafWrite
  <2>10. SpaceNow[v] = Nowhere
    BY <1>1, <2>1, <2>8, SpaceAt
  <2>11. CASE call.flags.present
    <3>1. SpaceNow' = [SpaceNow EXCEPT ![v] = f]
      BY <1>1, <2>6, <2>8, <2>9, <2>11, SpaceChanged
    <3>2. Space!Map(v, f)
      BY <2>7, <2>10, <2>11, <3>1 DEF Space!Map, Space!Call, Result, SpaceNow
    <3> QED
      BY <2>8, <3>2 DEF Space!SpaceNext
  <2>12. CASE ~ call.flags.present
    <3>1. SpaceNow' = SpaceNow
      BY <1>1, <2>1, <2>6, <2>9, <2>12, SpaceKept
    <3>2. Space!MapInert(v)
      BY <2>7, <2>10, <2>12, <3>1 DEF Space!MapInert, Space!Call, Result, SpaceNow
    <3> QED
      BY <2>8, <3>2 DEF Space!SpaceNext
  <2> QED
    BY <2>11, <2>12
<1> QED
  BY <1>3, <1>4 DEF SetLeaf

(* A table more is no step of the address space; no table is MapExhausted.    *)
LEMMA SpaceInstallTable ==
  ASSUME IInv, IInv', InstallTable
  PROVE  Space!SpaceNext \/ UNCHANGED <<SpaceNow, outcome>>
<1> DEFINE t == call.at
           i == IndexAt(call.level, call.page)
<1>1. /\ pc = "walk" /\ call.level > 1 /\ ~ EntryAtCall.present /\ Settled = table
  BY DEF InstallTable, Settled
<1>2. /\ call.level \in 2 .. 4 /\ call.page \in Slots
      /\ t # Nowhere /\ t = TableAt(table, call.level, call.page)
      /\ ~ table[t][i].present
  BY <1>1, AtFact DEF IInv, Walking, EntryAtCall
<1>3. CASE Refuse(1) /\ Fail("OutOfMemory")
  <2>1. Translate(table, call.page) = Nowhere
    BY <1>2, MissingEntry
  <2>2. Settled' = Settled /\ outcome' = Result("OutOfMemory", call.page, Nowhere)
    BY <1>1, <1>3 DEF Fail, Settled
  <2>3. Space!MapExhausted(call.page)
    BY <1>1, <1>2, <2>1, <2>2, SpaceKept, SpaceAt
       DEF Space!MapExhausted, Space!Call, Result, SpaceNow
  <2> QED
    BY <1>2, <2>3 DEF Space!SpaceNext
<1>4. CASE /\ Grant(1) /\ SetEntryAtCall(Entry(answer', FALSE))
           /\ pc' = "zero" /\ UNCHANGED <<call, outcome, tlb, owned>>
  <2>1. \A v \in Slots : Translate(Settled', v) = Translate(Settled, v)
    BY <1>1, <1>4, InstallTableTree
  <2> QED
    BY <1>4, <2>1, SpaceKept
<1> QED
  BY <1>3, <1>4 DEF InstallTable

(* The leaf write of unmap_page is Unmap; finding nothing is UnmapNothing.    *)
LEMMA SpaceUnmapPage ==
  ASSUME IInv, NEW v \in Pages, UnmapPage(v)
  PROVE  Space!SpaceNext
<1>1. /\ pc = "idle" /\ Settled = table /\ v \in Slots /\ Tree(table)
  BY PageMapperAssumption DEF UnmapPage, Settled, IInv, Shape
<1>2. CASE Translate(table, v) = Nowhere
  <2>1. Settled' = Settled /\ outcome' = Result("InvalidAddress", v, Nowhere)
    BY <1>1, <1>2 DEF UnmapPage, Settled
  <2>2. Space!UnmapNothing(v)
    BY <1>1, <1>2, <2>1, SpaceKept, SpaceAt
       DEF Space!UnmapNothing, Space!Call, Result, SpaceNow
  <2> QED
    BY <1>1, <2>2 DEF Space!SpaceNext
<1>3. CASE Translate(table, v) # Nowhere
  <2> DEFINE t == PtOf(table, v)
  <2>1. /\ table' = [table EXCEPT ![t][IndexAt(1, v)] = Absent]
        /\ outcome' = Result("unmapped", v, Translate(table, v)) /\ pc' = "flush"
    BY <1>3 DEF UnmapPage
  <2>2. t # Nowhere
    BY <1>3, FollowFact DEF Translate
  <2>3. Absent \in EntryType /\ ~ Absent.present /\ Settled' = table'
    BY <2>1 DEF EntryType, Settled, Absent
  <2> HIDE DEF t
  <2>4. /\ Translate(table', v) = Nowhere
        /\ \A w \in Slots : w # v => Translate(table', w) = Translate(table, w)
    BY <1>1, <2>1, <2>2, <2>3, LeafWrite DEF t
  <2>5. SpaceNow' = [SpaceNow EXCEPT ![v] = Nowhere]
    BY <1>1, <2>3, <2>4, SpaceChanged
  <2>6. SpaceNow[v] = Translate(table, v)
    BY <1>1, SpaceAt
  <2>7. Space!Unmap(v)
    BY <1>3, <2>1, <2>5, <2>6 DEF Space!Unmap, Space!Call, Result, SpaceNow
  <2> QED
    BY <1>1, <2>7 DEF Space!SpaceNext
<1> QED
  BY <1>2, <1>3

(* Every step of the mapper is one of the address space, or none.             *)
LEMMA SpaceStep ==
  ASSUME IInv, IInv', Next
  PROVE  Space!SpaceNext \/ UNCHANGED <<SpaceNow, outcome>>
<1>1. CASE CallerAllocates \/ \E f \in owned : CallerFrees(f)
  BY <1>1 DEF CallerAllocates, CallerFrees, Settled, SpaceNow
<1>2. ASSUME NEW v \in Pages, NEW f \in owned \cup Devices, NEW fl \in Flags,
             MapPage(v, f, fl)
      PROVE  UNCHANGED <<SpaceNow, outcome>>
  BY <1>2 DEF MapPage, Begin, Settled, SpaceNow
<1>3. ASSUME NEW r \in Ranges, NEW fl \in Flags, IdentityMapRange(r, fl)
      PROVE  Space!SpaceNext \/ UNCHANGED <<SpaceNow, outcome>>
  <2>1. SpaceNow' = SpaceNow
    BY <1>3 DEF IdentityMapRange, Begin, Settled, SpaceNow
  <2>2. UNCHANGED outcome \/ outcome' = Result("nothing", Nowhere, Nowhere)
    BY <1>3 DEF IdentityMapRange
  <2> QED
    BY <2>1, <2>2 DEF Space!SpaceNext, Space!MapNothing, Space!Call, Result, SpaceNow
<1>4. CASE Misaligned
  <2>1. SpaceNow' = SpaceNow
    BY <1>4 DEF Misaligned, Settled, SpaceNow
  <2> QED
    BY <1>4, <2>1
       DEF Misaligned, Space!SpaceNext, Space!Misaligned, Space!Call, Result, SpaceNow
<1>5. CASE Descend
  BY <1>5 DEF Descend, Settled, SpaceNow
<1>6. CASE ZeroTable
  BY <1>6 DEF ZeroTable, Settled, SpaceNow
<1>7. CASE FlushTlb
  BY <1>7 DEF FlushTlb, Begin, Settled, SpaceNow
<1>8. CASE FlushTlbAll \/ \E v \in Pages : HardwareWalk(v)
  BY <1>8 DEF FlushTlbAll, HardwareWalk, Settled, SpaceNow, poolVars
<1> QED
  BY <1>1, <1>2, <1>3, <1>4, <1>5, <1>6, <1>7, <1>8,
     SpaceSetLeaf, SpaceInstallTable, SpaceUnmapPage DEF Next

(* The page mapper implements an address space: map_page and unmap_page, in   *)
(* however many writes, change the one page they name, and a call that fails  *)
(* changes none.                                                              *)
THEOREM MapperIsAnAddressSpace == Spec => SpaceSpec
<1>1. IInv /\ IInv' /\ [Next]_vars => [Space!SpaceNext]_(Space!spaceVars)
  <2> SUFFICES ASSUME IInv, IInv', [Next]_vars
               PROVE  Space!SpaceNext \/ UNCHANGED Space!spaceVars
    OBVIOUS
  <2>1. UNCHANGED vars => UNCHANGED <<SpaceNow, outcome>>
    BY DEF vars, poolVars, SpaceNow, Settled
  <2>2. Space!SpaceNext \/ UNCHANGED <<SpaceNow, outcome>>
    BY <2>1, SpaceStep
  <2> QED
    BY <2>2 DEF Space!spaceVars, SpaceNow
<1> QED
  BY <1>1, InitSpace, PageMapperInvariant, PTL DEF Spec, SpaceSpec, Space!SpaceSpec
=============================================================================
