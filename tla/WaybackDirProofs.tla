-------------------------- MODULE WaybackDirProofs --------------------------
(***************************************************************************)
(* Proofs about a directory under Wayback, for any names, inodes and       *)
(* bounds, where time_t has four bytes: type correctness; and that vrevert *)
(* on a directory, undisturbed, brings back what a user sees of it,        *)
(* RevertRestoresNames.                                                    *)
(***************************************************************************)
EXTENDS WaybackDir, WellFoundedInduction, TLAPS

-----------------------------------------------------------------------------
(* What the system calls leave.                                            *)

New(d, p, id, node) ==
  [at |-> [d.at EXCEPT ![p] = id], inode |-> [d.inode EXCEPT ![id] = node]]

LEMMA DirectoryFacts ==
  ASSUME NEW d \in Directory
  PROVE  /\ d.at \in [Paths -> Ids \cup {None}]
         /\ d.inode \in [Ids -> Inode]
         /\ d = [at |-> d.at, inode |-> d.inode]
         /\ \A p \in Paths : Exists(d, p) => d.at[p] \in Ids /\ At(d, p) \in Inode
  BY DEF Directory, Exists, At

LEMMA NewFacts ==
  ASSUME NEW d \in Directory, NEW p \in Paths, NEW id \in Ids, NEW node \in Inode
  PROVE  /\ New(d, p, id, node) \in Directory
         /\ New(d, p, id, node).at = [d.at EXCEPT ![p] = id]
         /\ New(d, p, id, node).inode = [d.inode EXCEPT ![id] = node]
  BY DEF New, Directory

LEMMA MadeFacts ==
  ASSUME NEW d \in Directory, NEW p \in Paths, NEW kind \in Kinds, NEW mode \in Modes,
         Unused(d) # {}
  PROVE  /\ Made(d, p, kind, mode) \in Directory
         /\ \E id \in Unused(d) :
              Made(d, p, kind, mode) = New(d, p, id, [kind |-> kind, mode |-> mode])
<1>1. PICK id : id = CHOOSE i \in Unused(d) : TRUE
  OBVIOUS
<1>2. id \in Unused(d) /\ id \in Ids
  BY <1>1 DEF Unused
<1>3. PICK node \in Inode : node = [kind |-> kind, mode |-> mode]
  <2>1. [kind |-> kind, mode |-> mode] \in Inode
    BY DEF Inode
  <2> QED
    BY <2>1
<1>4. Made(d, p, kind, mode) = New(d, p, id, node)
  BY <1>1, <1>3 DEF Made, New
<1>5. New(d, p, id, node) \in Directory
  BY <1>2, NewFacts
<1>6. \E i \in Unused(d) : Made(d, p, kind, mode) = New(d, p, i, node)
  BY <1>2, <1>4
<1> QED
  BY <1>3, <1>4, <1>5, <1>6

LEMMA UnlinkedFacts ==
  ASSUME NEW d \in Directory, NEW p \in Paths
  PROVE  /\ Unlinked(d, p) \in Directory
         /\ Unlinked(d, p).at = [d.at EXCEPT ![p] = None]
         /\ Unlinked(d, p).inode = d.inode
  BY DEF Unlinked, Directory

LEMMA RenamedFacts ==
  ASSUME NEW d \in Directory, NEW p \in Paths, NEW q \in Paths, p # q
  PROVE  /\ Renamed(d, p, q) \in Directory
         /\ Renamed(d, p, q).inode = d.inode
         /\ d.at[p] # d.at[q] =>
              Renamed(d, p, q).at = [d.at EXCEPT ![q] = d.at[p], ![p] = None]
<1>1. CASE d.at[p] = d.at[q]
  BY <1>1 DEF Renamed
<1>2. CASE d.at[p] # d.at[q]
  <2>1. PICK e : e = [d EXCEPT !.at[q] = d.at[p]]
    OBVIOUS
  <2>2. e \in Directory /\ e.at = [d.at EXCEPT ![q] = d.at[p]] /\ e.inode = d.inode
    BY <2>1 DEF Directory
  <2>3. [e EXCEPT !.at[p] = None] \in Directory
        /\ [e EXCEPT !.at[p] = None].at = [e.at EXCEPT ![p] = None]
        /\ [e EXCEPT !.at[p] = None].inode = e.inode
    BY <2>2 DEF Directory
  <2>4. Renamed(d, p, q) = [e EXCEPT !.at[p] = None]
    BY <1>2, <2>1 DEF Renamed
  <2> QED
    BY <1>2, <2>2, <2>3, <2>4
<1> QED
  BY <1>1, <1>2

LEMMA LinkedToFacts ==
  ASSUME NEW d \in Directory, NEW p \in Paths, NEW q \in Paths
  PROVE  /\ LinkedTo(d, p, q) \in Directory
         /\ LinkedTo(d, p, q).at = [d.at EXCEPT ![q] = d.at[p]]
         /\ LinkedTo(d, p, q).inode = d.inode
  BY DEF LinkedTo, Directory

LEMMA ChmodedFacts ==
  ASSUME NEW d \in Directory, NEW p \in Paths, NEW mode \in Modes, Exists(d, p)
  PROVE  /\ Chmoded(d, p, mode) \in Directory
         /\ Chmoded(d, p, mode).at = d.at
         /\ \A id \in Ids : Chmoded(d, p, mode).inode[id] =
              IF id = d.at[p] THEN [kind |-> At(d, p).kind, mode |-> mode]
              ELSE d.inode[id]
<1>1. PICK id : id = d.at[p]
  OBVIOUS
<1>2. PICK e : e = [d.inode EXCEPT ![id].mode = mode]
  OBVIOUS
<1>3. id \in Ids /\ d.inode \in [Ids -> Inode] /\ d.at \in [Paths -> Ids \cup {None}]
  BY <1>1, DirectoryFacts
<1>4. d.inode[id] \in Inode /\ At(d, p) = d.inode[id]
  BY <1>1, <1>3 DEF At
<1>5. [d.inode[id] EXCEPT !.mode = mode] = [kind |-> At(d, p).kind, mode |-> mode]
  BY <1>4 DEF Inode
<1>6. [kind |-> At(d, p).kind, mode |-> mode] \in Inode
  BY <1>4 DEF Inode
<1>7. e \in [Ids -> Inode]
      /\ \A i \in Ids : e[i] = IF i = id THEN [kind |-> At(d, p).kind, mode |-> mode]
                               ELSE d.inode[i]
  BY <1>2, <1>3, <1>5, <1>6
<1>8. /\ Chmoded(d, p, mode).at = d.at /\ Chmoded(d, p, mode).inode = e
      /\ Chmoded(d, p, mode) \in Directory
  BY <1>1, <1>2, <1>3, <1>7 DEF Chmoded, Directory
<1> QED
  BY <1>1, <1>7, <1>8

(* The name a removed directory gets is a deleted name that was free: the  *)
(* first of those that are.                                                *)
LEMMA DeletedPathFacts ==
  ASSUME NEW d, NEW n \in Names, CanDelete(d, n)
  PROVE  /\ DeletedPath(d, n) \in Paths
         /\ DeletedPath(d, n)[2] # 0
         /\ ~ Exists(d, DeletedPath(d, n))
<1>1. PICK free : free = { k \in 1 .. MaxDeleted : ~ Exists(d, <<n, k>>) }
  OBVIOUS
<1>2. free \subseteq Nat /\ free # {}
  BY <1>1 DEF CanDelete
<1>3. PICK below : below = OpToRel(<, Nat)
  OBVIOUS
<1>4. PICK k \in free : \A j \in free : ~ (<<j, k>> \in below)
  BY <1>2, <1>3, NatLessThanWellFounded, WFMin
<1>5. \A j \in Nat : j < k => <<j, k>> \in below
  BY <1>2, <1>3 DEF OpToRel
<1>6. /\ k \in 1 .. MaxDeleted /\ ~ Exists(d, <<n, k>>)
      /\ \A j \in 1 .. k - 1 : Exists(d, <<n, j>>)
  <2>1. ASSUME NEW j \in 1 .. k - 1
        PROVE  Exists(d, <<n, j>>)
    <3>1. j \in 1 .. MaxDeleted /\ j < k /\ j \in Nat
      BY <1>1, <1>2, DirAssumption
    <3>2. j \notin free
      BY <1>4, <1>5, <3>1
    <3> QED
      BY <1>1, <3>1, <3>2
  <2> QED
    BY <1>1, <2>1
<1>7. PICK c : c = CHOOSE i \in 1 .. MaxDeleted :
         /\ ~ Exists(d, <<n, i>>)
         /\ \A j \in 1 .. i - 1 : Exists(d, <<n, j>>)
  OBVIOUS
<1>8. c \in 1 .. MaxDeleted /\ ~ Exists(d, <<n, c>>)
  BY <1>6, <1>7
<1>9. DeletedPath(d, n) = <<n, c>>
  BY <1>7 DEF DeletedPath
<1> QED
  BY <1>8, <1>9, DirAssumption DEF Paths

-----------------------------------------------------------------------------
(* What a change of a directory with a given entry leaves.                 *)
Follows(d, e, x) ==
  LET p == e.file1
      q == e.file2
  IN /\ e.action = "create" =>
          \/ Exists(d, p)
          \/ \E id \in Unused(d), node \in Inode :
               node.kind # "dir" /\ x = New(d, p, id, node)
     /\ e.action = "mkdir" =>
          /\ ~ Exists(d, p)
          /\ \E id \in Unused(d), node \in Inode :
               node.kind = "dir" /\ x = New(d, p, id, node)
     /\ e.action = "rm" =>
          /\ Exists(d, p) /\ e.stats = At(d, p)
          /\ x = Unlinked(d, p)
     /\ e.action \in {"rename", "rmdir"} =>
          p # q /\ Exists(d, p) /\ x = Renamed(d, p, q)
     /\ e.action = "rmdir" => ~ Exists(d, q)
     /\ e.action = "chmod" =>
          /\ Exists(d, p) /\ At(d, p).kind # "link" /\ e.stats = At(d, p)
          /\ \E mode \in Modes : x = Chmoded(d, p, mode)

(* Only the entries of renames have deleted names for their file1.         *)
Usual(e) == e \in Entry /\ (e.action # "rename" => e.file1[2] = 0)

(* A call that changes the directory.                                      *)
Called ==
  \E e \in Entry :
    /\ Usual(e)
    /\ dir' \in Directory
    /\ pending' = [entry |-> e, before |-> dir]
    /\ Follows(dir, e, dir')

LEMMA EnteredFacts ==
  ASSUME NEW action \in Actions, NEW p \in Paths, NEW q \in Paths, NEW stats \in Inode,
         NEW e, e = Entered(action, p, q, stats)
  PROVE  /\ e \in Entry /\ e.action = action /\ e.file1 = p /\ e.file2 = q
         /\ e.stats = stats
  BY DEF Entered, Entry

LEMMA SeenFacts ==
  ASSUME NEW n \in Names
  PROVE  Seen(n) \in Paths /\ Seen(n)[1] = n /\ Seen(n)[2] = 0
  BY DirAssumption DEF Seen, Paths

LEMMA SeenAgain ==
  ASSUME NEW p \in Paths, p[2] = 0
  PROVE  p[1] \in Names /\ Seen(p[1]) = p
  BY DEF Seen, Paths

LEMMA NothingType == Nothing \in Inode /\ Plain \in Modes /\ Executable \in Modes
                     /\ {"file", "link", "dir"} \subseteq Kinds
  BY DEF Nothing, Inode, Kinds, Modes

LEMMA MakeCalled ==
  ASSUME dir \in Directory, NEW p \in Paths, p[2] = 0, ~ Exists(dir, p),
         Unused(dir) # {}, NEW kind \in Kinds, NEW mode \in Modes,
         NEW action \in {"create", "mkdir"}, kind = "dir" <=> action = "mkdir",
         Changes(Made(dir, p, kind, mode), Entered(action, p, p, Nothing))
  PROVE  Called
<1>1. PICK e : e = Entered(action, p, p, Nothing)
  OBVIOUS
<1>2. e \in Entry /\ e.action = action /\ e.file1 = p
  BY <1>1, EnteredFacts, NothingType DEF Actions
<1>3. PICK id \in Unused(dir) :
        Made(dir, p, kind, mode) = New(dir, p, id, [kind |-> kind, mode |-> mode])
  BY MadeFacts
<1>4. PICK node : node = [kind |-> kind, mode |-> mode]
  OBVIOUS
<1>5. node \in Inode /\ node.kind = kind
  BY <1>4 DEF Inode
<1>6. /\ dir' = New(dir, p, id, node) /\ dir' \in Directory
      /\ pending' = [entry |-> e, before |-> dir]
  BY <1>1, <1>3, <1>4, MadeFacts DEF Changes
<1>7. \E i \in Unused(dir), o \in Inode : o.kind = kind /\ dir' = New(dir, p, i, o)
  BY <1>5, <1>6
<1>8. Follows(dir, e, dir')
  <2>1. CASE action = "create"
    BY <1>2, <1>7, <2>1 DEF Follows
  <2>2. CASE action = "mkdir"
    BY <1>2, <1>7, <2>2 DEF Follows
  <2> QED
    BY <2>1, <2>2
<1>9. Usual(e)
  BY <1>2 DEF Usual
<1> QED
  BY <1>2, <1>6, <1>8, <1>9 DEF Called

LEMMA MknodCalled ==
  ASSUME dir \in Directory, NEW p \in Paths, p[2] = 0,
         Mknod(p) \/ Symlink(p) \/ Mkdir(p)
  PROVE  Called
<1>1. CASE Mknod(p)
  BY <1>1, MakeCalled, NothingType DEF Mknod
<1>2. CASE Symlink(p)
  BY <1>2, MakeCalled, NothingType DEF Symlink
<1>3. CASE Mkdir(p)
  BY <1>3, MakeCalled, NothingType DEF Mkdir
<1> QED
  BY <1>1, <1>2, <1>3

LEMMA UnlinkCalled ==
  ASSUME dir \in Directory, NEW p \in Paths, p[2] = 0, Unlink(p)
  PROVE  Called
<1>1. PICK e : e = Entered("rm", p, p, At(dir, p))
  OBVIOUS
<1>2. Exists(dir, p) /\ At(dir, p) \in Inode
  BY DirectoryFacts DEF Unlink
<1>3. e \in Entry /\ e.action = "rm" /\ e.file1 = p /\ e.stats = At(dir, p)
  BY <1>1, <1>2, EnteredFacts DEF Actions
<1>4. dir' = Unlinked(dir, p) /\ pending' = [entry |-> e, before |-> dir]
  BY <1>1 DEF Unlink, Changes
<1>5. dir' \in Directory
  BY <1>4, UnlinkedFacts
<1>6. Follows(dir, e, dir') /\ Usual(e)
  BY <1>2, <1>3, <1>4 DEF Follows, Usual
<1> QED
  BY <1>3, <1>4, <1>5, <1>6 DEF Called

LEMMA RmdirCalled ==
  ASSUME dir \in Directory, NEW n \in Names, Rmdir(n)
  PROVE  Called
<1>1. PICK q : q = DeletedPath(dir, n)
  OBVIOUS
<1>2. q \in Paths /\ q[2] # 0 /\ ~ Exists(dir, q)
  BY <1>1, DeletedPathFacts DEF Rmdir
<1>3. PICK p \in Paths : p = Seen(n) /\ p[2] = 0
  BY SeenFacts
<1>4. PICK e : e = Entered("rmdir", p, q, Nothing)
  OBVIOUS
<1>5. e \in Entry /\ e.action = "rmdir" /\ e.file1 = p /\ e.file2 = q
  BY <1>2, <1>4, EnteredFacts, NothingType DEF Actions
<1>6. /\ Exists(dir, p)
      /\ dir' = Renamed(dir, p, q) /\ pending' = [entry |-> e, before |-> dir]
  BY <1>1, <1>3, <1>4 DEF Rmdir, Changes, IsDir
<1>7. p # q
  BY <1>2, <1>3
<1>8. dir' \in Directory
  BY <1>2, <1>6, <1>7, RenamedFacts
<1>9. Follows(dir, e, dir') /\ Usual(e)
  BY <1>2, <1>3, <1>5, <1>6, <1>7 DEF Follows, Usual
<1> QED
  BY <1>5, <1>6, <1>8, <1>9 DEF Called

LEMMA RenameCalled ==
  ASSUME dir \in Directory, NEW p \in Paths, NEW q \in Paths, Rename(p, q)
  PROVE  Called
<1>1. PICK e : e = Entered("rename", p, q, Nothing)
  OBVIOUS
<1>2. e \in Entry /\ e.action = "rename" /\ e.file1 = p /\ e.file2 = q
  BY <1>1, EnteredFacts, NothingType DEF Actions
<1>3. /\ Exists(dir, p) /\ p # q
      /\ dir' = Renamed(dir, p, q) /\ pending' = [entry |-> e, before |-> dir]
  BY <1>1 DEF Rename, CanRename, Changes
<1>4. dir' \in Directory
  BY <1>3, RenamedFacts
<1>5. Follows(dir, e, dir') /\ Usual(e)
  BY <1>2, <1>3 DEF Follows, Usual
<1> QED
  BY <1>2, <1>3, <1>4, <1>5 DEF Called

LEMMA LinkCalled ==
  ASSUME dir \in Directory, NEW p \in Paths, p[2] = 0, NEW q \in Paths, Link(p, q)
  PROVE  Called
<1>1. PICK e : e = Entered("create", p, q, Nothing)
  OBVIOUS
<1>2. e \in Entry /\ e.action = "create" /\ e.file1 = p /\ e.file2 = q
  BY <1>1, EnteredFacts, NothingType DEF Actions
<1>3. /\ Exists(dir, p)
      /\ dir' = LinkedTo(dir, p, q) /\ pending' = [entry |-> e, before |-> dir]
  BY <1>1 DEF Link, Changes
<1>4. dir' \in Directory
  BY <1>3, LinkedToFacts
<1>5. Follows(dir, e, dir') /\ Usual(e)
  BY <1>2, <1>3 DEF Follows, Usual
<1> QED
  BY <1>2, <1>3, <1>4, <1>5 DEF Called

LEMMA ChmodCalled ==
  ASSUME dir \in Directory, NEW p \in Paths, p[2] = 0, NEW mode \in Modes, Chmod(p, mode)
  PROVE  Called
<1>1. PICK e : e = Entered("chmod", p, p, At(dir, p))
  OBVIOUS
<1>2. Exists(dir, p) /\ At(dir, p).kind # "link" /\ At(dir, p) \in Inode
  BY DirectoryFacts DEF Chmod
<1>3. e \in Entry /\ e.action = "chmod" /\ e.file1 = p /\ e.stats = At(dir, p)
  BY <1>1, <1>2, EnteredFacts DEF Actions
<1>4. dir' = Chmoded(dir, p, mode) /\ pending' = [entry |-> e, before |-> dir]
  BY <1>1 DEF Chmod, Changes
<1>5. dir' \in Directory
  BY <1>2, <1>4, ChmodedFacts
<1>6. Follows(dir, e, dir') /\ Usual(e)
  BY <1>2, <1>3, <1>4 DEF Follows, Usual
<1> QED
  BY <1>3, <1>4, <1>5, <1>6 DEF Called

-----------------------------------------------------------------------------
(* Types, and what goes together with what.                                *)
Typed ==
  /\ TypeOK
  /\ Len(past) = Len(catalog)
  /\ \A k \in DOMAIN catalog : Usual(catalog[k])
  /\ \A k \in DOMAIN todo : Usual(todo[k])
  /\ pending # None => Usual(pending.entry)
  /\ pc # "idle" =>
       /\ Len(stages) = Len(todo) + 1
       /\ target \in 1 .. Len(todo) /\ since \in 1 .. Len(catalog)
       /\ Len(todo) <= Len(catalog)
  /\ pc \in {"entry", "attributes"} => index \in 1 .. Len(todo)
  /\ pc = "attributes" => todo[index].action = "rm"

LEMMA CalledFacts ==
  ASSUME Called, dir \in Directory
  PROVE  /\ dir' \in Directory
         /\ pending' \in [entry : Entry, before : Directory]
         /\ pending' # None
         /\ Usual(pending'.entry) /\ pending'.before = dir
         /\ Follows(dir, pending'.entry, dir')
<1>1. PICK e \in Entry :
        /\ Usual(e)
        /\ dir' \in Directory
        /\ pending' = [entry |-> e, before |-> dir]
        /\ Follows(dir, e, dir')
  BY DEF Called
<1>2. pending' \in [entry : Entry, before : Directory]
      /\ pending'.entry = e /\ pending'.before = dir
  BY <1>1
<1> QED
  BY <1>1, <1>2, NoneAssumption

LEMMA UserCalled ==
  ASSUME dir \in Directory, UserDoes
  PROVE  Called
<1>1. PICK n \in Names :
        \/ Mknod(Seen(n)) \/ Symlink(Seen(n)) \/ Mkdir(Seen(n))
        \/ Unlink(Seen(n)) \/ Rmdir(n)
        \/ \E m \in Names : Rename(Seen(n), Seen(m)) \/ Link(Seen(n), Seen(m))
        \/ \E mode \in Modes : Chmod(Seen(n), mode)
  BY DEF UserDoes
<1>2. PICK p \in Paths : p = Seen(n) /\ p[2] = 0
  BY SeenFacts
<1>3. CASE Mknod(p) \/ Symlink(p) \/ Mkdir(p)
  BY <1>2, <1>3, MknodCalled
<1>4. CASE Unlink(p)
  BY <1>2, <1>4, UnlinkCalled
<1>5. CASE Rmdir(n)
  BY <1>5, RmdirCalled
<1>6. ASSUME NEW m \in Names, Rename(p, Seen(m)) \/ Link(p, Seen(m))
      PROVE  Called
  BY <1>2, <1>6, SeenFacts, RenameCalled, LinkCalled
<1>7. ASSUME NEW mode \in Modes, Chmod(p, mode)
      PROVE  Called
  BY <1>2, <1>7, ChmodCalled
<1> QED
  BY <1>1, <1>2, <1>3, <1>4, <1>5, <1>6, <1>7

(* The calls of vrevert.                                                   *)
LEMMA AttemptCalled ==
  ASSUME Typed, NEW k \in DOMAIN todo, NEW e, e = todo[k],
         NEW can \in BOOLEAN,
         \/ Attempt(can, Unlink(e.file1)) /\ e.action # "rename"
         \/ Attempt(can, Rmdir(e.file1[1]))
         \/ Attempt(can, Rename(e.file2, e.file1))
         \/ Attempt(can, Chmod(e.file1, e.stats.mode)) /\ e.action # "rename"
         \/ Attempt(can, Mknod(e.file1)) /\ e.action # "rename"
  PROVE  Called \/ UNCHANGED <<dir, pending>>
<1>1. /\ dir \in Directory /\ e \in Entry /\ Usual(e)
  BY DEF Typed, TypeOK, Usual
<1>2. /\ e.file1 \in Paths /\ e.file2 \in Paths /\ e.stats.mode \in Modes
      /\ e.file1[1] \in Names
      /\ e.action # "rename" => e.file1[2] = 0
  BY <1>1 DEF Usual, Entry, Inode, Paths
<1>3. CASE ~ can
  BY <1>3 DEF Attempt
<1>4. CASE can
  <2>1. CASE Unlink(e.file1) /\ e.action # "rename"
    BY <1>1, <1>2, <2>1, UnlinkCalled
  <2>2. CASE Rmdir(e.file1[1])
    BY <1>1, <1>2, <2>2, RmdirCalled
  <2>3. CASE Rename(e.file2, e.file1)
    BY <1>1, <1>2, <2>3, RenameCalled
  <2>4. CASE Chmod(e.file1, e.stats.mode) /\ e.action # "rename"
    BY <1>1, <1>2, <2>4, ChmodCalled
  <2>5. CASE Mknod(e.file1) /\ e.action # "rename"
    BY <1>1, <1>2, <2>5, MknodCalled
  <2> QED
    BY <1>4, <2>1, <2>2, <2>3, <2>4, <2>5 DEF Attempt
<1> QED
  BY <1>3, <1>4

LEMMA NextEntryFacts ==
  ASSUME Typed, pc \in {"entry", "attributes"}, NextEntry
  PROVE  /\ index' \in Nat /\ index' = index - 1
         /\ pc' \in {"entry", "contents"}
         /\ pc' = "entry" => index' \in 1 .. Len(todo)
<1>1. index \in 1 .. Len(todo) /\ Len(todo) \in Nat
  BY DEF Typed, TypeOK
<1> QED
  BY <1>1 DEF NextEntry

(* What a step of vrevert does, whichever entry it reverts.                *)
LEMMA RevertEntryFacts ==
  ASSUME Typed, RevertEntry
  PROVE  /\ Called \/ UNCHANGED <<dir, pending>>
         /\ number' \in Nat /\ nested' \in BOOLEAN
         /\ index' \in Nat /\ pc' \in {"entry", "attributes", "contents"}
         /\ pc' \in {"entry", "attributes"} => index' \in 1 .. Len(todo)
         /\ pc' = "attributes" => index' = index /\ todo[index].action = "rm"
<1>1. PICK e : e = todo[index]
  OBVIOUS
<1>2. pc = "entry" /\ index \in DOMAIN todo /\ index \in 1 .. Len(todo) /\ index \in Nat
  BY DEF RevertEntry, Typed, TypeOK
<1>3. number' \in Nat /\ nested' \in BOOLEAN
  <2>1. SetsNumber(e)
    BY <1>1 DEF RevertEntry
  <2>2. \/ number' = number /\ nested' = nested
        \/ number' \in 0 .. MaxNested /\ nested' = TRUE
    BY <2>1 DEF SetsNumber
  <2>3. number' = number \/ number' \in 0 .. MaxNested
    BY <2>2
  <2>4. nested' = nested \/ nested' = TRUE
    BY <2>2
  <2>5. number' \in Nat
    BY <2>3, DirAssumption DEF Typed, TypeOK
  <2>6. nested' \in BOOLEAN
    BY <2>4 DEF Typed, TypeOK
  <2> QED
    BY <2>5, <2>6
<1>4. CASE e.action = "create"
  <2>1. NextEntry
    BY <1>1, <1>4 DEF RevertEntry
  <2>2. Attempt(Exists(dir, e.file1) /\ ~ IsDir(dir, e.file1), Unlink(e.file1))
    BY <1>1, <1>4 DEF RevertEntry
  <2>3. Called \/ UNCHANGED <<dir, pending>>
    BY <1>1, <1>2, <1>4, <2>2, AttemptCalled
  <2> QED
    BY <1>2, <1>3, <2>1, <2>3, NextEntryFacts
<1>5. CASE e.action = "mkdir"
  <2>1. NextEntry
    BY <1>1, <1>5 DEF RevertEntry
  <2>2. Attempt(IsDir(dir, e.file1), Rmdir(e.file1[1]))
    BY <1>1, <1>5 DEF RevertEntry
  <2>3. Called \/ UNCHANGED <<dir, pending>>
    BY <1>1, <1>2, <1>5, <2>2, AttemptCalled DEF IsDir
  <2> QED
    BY <1>2, <1>3, <2>1, <2>3, NextEntryFacts
<1>6. CASE e.action \in {"rename", "rmdir"}
  <2>1. NextEntry
    BY <1>1, <1>6 DEF RevertEntry
  <2>2. \/ Attempt(e.file1 # e.file2 /\ CanRename(dir, e.file2, e.file1),
                   Rename(e.file2, e.file1))
        \/ UNCHANGED <<dir, pending>>
    BY <1>1, <1>6 DEF RevertEntry
  <2>3. Called \/ UNCHANGED <<dir, pending>>
    BY <1>1, <1>2, <1>6, <2>2, AttemptCalled DEF CanRename
  <2> QED
    BY <1>2, <1>3, <2>1, <2>3, NextEntryFacts
<1>7. CASE e.action = "chmod"
  <2>1. NextEntry
    BY <1>1, <1>7 DEF RevertEntry
  <2>2. Attempt(Exists(dir, e.file1) /\ At(dir, e.file1).kind # "link",
                Chmod(e.file1, e.stats.mode))
    BY <1>1, <1>7 DEF RevertEntry
  <2>3. Called \/ UNCHANGED <<dir, pending>>
    BY <1>1, <1>2, <1>7, <2>2, AttemptCalled DEF Exists
  <2> QED
    BY <1>2, <1>3, <2>1, <2>3, NextEntryFacts
<1>8. CASE e.action = "rm" /\ TakenForFile(e) /\ IsDir(dir, e.file1)
  <2>1. NextEntry /\ UNCHANGED <<dir, pending>>
    BY <1>1, <1>8 DEF RevertEntry
  <2> QED
    BY <1>2, <1>3, <2>1, NextEntryFacts
<1>9. CASE e.action = "rm" /\ ~ (TakenForFile(e) /\ IsDir(dir, e.file1))
  <2>1. pc' = "attributes" /\ index' = index
    BY <1>1, <1>9 DEF RevertEntry
  <2>2. Attempt(TakenForFile(e) /\ ~ Exists(dir, e.file1), Mknod(e.file1))
    BY <1>1, <1>9 DEF RevertEntry
  <2>3. Called \/ UNCHANGED <<dir, pending>>
    BY <1>1, <1>2, <1>9, <2>2, AttemptCalled DEF Exists, TakenForFile
  <2> QED
    BY <1>1, <1>2, <1>3, <1>9, <2>1, <2>3
<1> QED
  <2>1. e \in Entry
    BY <1>1, <1>2 DEF Typed, TypeOK
  <2> QED
    BY <1>4, <1>5, <1>6, <1>7, <1>8, <1>9, <2>1 DEF Entry, Actions

LEMMA RevertAttributesFacts ==
  ASSUME Typed, RevertAttributes
  PROVE  Called \/ UNCHANGED <<dir, pending>>
<1>1. PICK e : e = todo[index]
  OBVIOUS
<1>2. index \in DOMAIN todo /\ e.action = "rm"
  BY <1>1 DEF RevertAttributes, Typed, TypeOK
<1>3. Attempt(Exists(dir, e.file1) /\ At(dir, e.file1).kind # "link",
              Chmod(e.file1, e.stats.mode))
  BY <1>1 DEF RevertAttributes
<1> QED
  BY <1>1, <1>2, <1>3, AttemptCalled DEF Exists


-----------------------------------------------------------------------------
(* Type correctness.                                                       *)
LEMMA KeptFacts ==
  ASSUME Typed, Called \/ UNCHANGED <<dir, pending>>
  PROVE  /\ dir' \in Directory
         /\ pending' \in [entry : Entry, before : Directory] \cup {None}
         /\ pending' # None => Usual(pending'.entry)
<1>1. CASE Called
  BY <1>1, CalledFacts DEF Typed, TypeOK
<1>2. CASE UNCHANGED <<dir, pending>>
  BY <1>2 DEF Typed, TypeOK
<1> QED
  BY <1>1, <1>2

LEMMA TypedInit == Init => Typed
<1> SUFFICES ASSUME Init PROVE Typed
  OBVIOUS
<1>1. dir \in Directory
  <2>1. Nothing \in Inode
    BY NothingType
  <2> QED
    BY <2>1 DEF Init, Directory
<1>2. clean \in BOOLEAN /\ nested \in BOOLEAN /\ inside \in BOOLEAN
  BY DEF Init
<1>3. TypeOK
  BY <1>1, <1>2 DEF Init, TypeOK
<1> QED
  BY <1>3 DEF Init, Typed

LEMMA TypedUser == Typed /\ User => Typed'
<1> SUFFICES ASSUME Typed, User PROVE Typed'
  OBVIOUS
<1>1. /\ dir' \in Directory
      /\ pending' \in [entry : Entry, before : Directory] \cup {None}
      /\ pending' # None => Usual(pending'.entry)
  BY UserCalled, KeptFacts DEF User, Typed, TypeOK
<1>2. clean' \in BOOLEAN /\ nested' \in BOOLEAN /\ inside' \in BOOLEAN
  BY DEF User, Typed, TypeOK, told
<1>3. TypeOK'
  BY <1>1, <1>2 DEF User, Typed, TypeOK, told
<1> QED
  BY <1>1, <1>3 DEF User, Typed, told

LEMMA TypedRecord == Typed /\ Record => Typed'
<1> SUFFICES ASSUME Typed, Record PROVE Typed'
  OBVIOUS
<1>1. /\ pending.entry \in Entry /\ pending.before \in Directory
      /\ Usual(pending.entry)
      /\ catalog \in Seq(Entry) /\ past \in Seq(Directory)
  BY DEF Record, Typed, TypeOK
<1>2. /\ catalog' \in Seq(Entry) /\ past' \in Seq(Directory)
      /\ Len(past') = Len(catalog')
      /\ \A k \in DOMAIN catalog' : Usual(catalog'[k])
      /\ Len(catalog') = Len(catalog) + 1 /\ Len(catalog) \in Nat
  BY <1>1 DEF Record, Typed
<1>3. clean' \in BOOLEAN /\ nested' \in BOOLEAN /\ inside' \in BOOLEAN
  BY DEF Record, Typed, TypeOK, told
<1>4. TypeOK'
  BY <1>2, <1>3 DEF Record, Typed, TypeOK, told, bounds
<1> QED
  <2>1. pc # "idle" =>
          /\ Len(stages) = Len(todo) + 1
          /\ target \in 1 .. Len(todo) /\ since \in 1 .. Len(catalog')
          /\ Len(todo) <= Len(catalog')
    <3>1. Len(todo) \in Nat
      BY DEF Typed, TypeOK
    <3> QED
      BY <1>2, <3>1 DEF Typed
  <2> QED
    BY <1>2, <1>4, <2>1 DEF Record, Typed, told

LEMMA FaultFacts ==
  ASSUME Typed, Fault
  PROVE  /\ dir' \in Directory /\ catalog' \in Seq(Entry) /\ pending' = None
         /\ todo' \in Seq(Entry) /\ number' \in Nat /\ past' \in Seq(Directory)
         /\ silent' \in SUBSET Nat /\ stages' \in Seq(Directory) /\ target' \in Nat
         /\ changes' \in Nat /\ faults' \in Nat
         /\ since' \in Nat
<1>1. silent' \in SUBSET Nat
  <2>1. Len(catalog) \in Nat /\ silent \in SUBSET Nat
    BY DEF Typed, TypeOK
  <2>2. silent' = silent \/ silent' = silent \cup {Len(catalog)}
    BY DEF Fault
  <2> QED
    BY <2>1, <2>2
<1> QED
  BY <1>1 DEF Fault, Typed, TypeOK, told

LEMMA TypedCatalogFails == Typed /\ CatalogFails => Typed'
<1> SUFFICES ASSUME Typed, CatalogFails PROVE Typed'
  OBVIOUS
<1>1. clean' \in BOOLEAN /\ nested' \in BOOLEAN /\ inside' \in BOOLEAN
  BY DEF CatalogFails, Fault, Typed, TypeOK, told
<1>2. pc' = pc /\ index' = index
  BY DEF CatalogFails
<1>3. TypeOK'
  BY <1>1, <1>2, FaultFacts DEF CatalogFails, Typed, TypeOK
<1> QED
  BY <1>2, <1>3 DEF CatalogFails, Fault, Typed, told

(* What vrevert sets out to do.                                            *)
LEMMA LoopFacts ==
  ASSUME Word = 4, Typed, NEW from \in 1 .. Len(catalog), Loop(from),
         stages' = Append(past, dir), target' = from
  PROVE  /\ pc' = "entry" /\ todo' = catalog
         /\ index' = Len(catalog) /\ number' = Len(catalog) - from + 1
         /\ todo' \in Seq(Entry) /\ stages' \in Seq(Directory)
         /\ Len(stages') = Len(todo') + 1 /\ index' \in 1 .. Len(todo')
         /\ number' \in Nat /\ target' \in 1 .. Len(todo')
<1>1. /\ catalog \in Seq(Entry) /\ past \in Seq(Directory) /\ dir \in Directory
      /\ Len(past) = Len(catalog)
  BY DEF Typed, TypeOK
<1>2. ReadDirectory = catalog
  BY DEF ReadDirectory
<1>3. /\ pc' = "entry" /\ todo' = catalog
      /\ index' = Len(catalog) /\ number' = Len(catalog) - from + 1
  BY <1>2 DEF Loop
<1>4. stages' \in Seq(Directory) /\ Len(stages') = Len(catalog) + 1
  BY <1>1
<1>5. index' \in 1 .. Len(catalog) /\ number' \in Nat /\ target' \in 1 .. Len(catalog)
  <2>1. Len(catalog) \in Nat
    BY <1>1
  <2> QED
    BY ONLY <1>3, <2>1, from \in 1 .. Len(catalog), target' = from
<1> QED
  BY <1>1, <1>3, <1>4, <1>5

LEMMA TypedStart ==
  ASSUME Word = 4, NEW from \in DOMAIN catalog
  PROVE  Typed /\ Start(from) => Typed'
<1> SUFFICES ASSUME Typed, Start(from) PROVE Typed'
  OBVIOUS
<1>1. from \in 1 .. Len(catalog) /\ Len(catalog) \in Nat
  BY DEF Typed, TypeOK
<1>2. /\ todo' = catalog /\ todo' \in Seq(Entry) /\ stages' \in Seq(Directory)
      /\ Len(stages') = Len(todo') + 1 /\ index' \in 1 .. Len(todo')
      /\ number' \in Nat /\ target' \in 1 .. Len(todo') /\ pc' = "entry"
  BY <1>1, LoopFacts DEF Start
<1>3. clean' \in BOOLEAN /\ nested' \in BOOLEAN /\ inside' \in BOOLEAN
  BY DEF Start, Restorable
<1>4. since' \in 1 .. Len(catalog)
  <2>1. since' \in 1 .. from \/ since' = from
    BY DEF Start
  <2> QED
    BY <1>1, <2>1
<1>5. UNCHANGED <<dir, catalog, pending, past, silent, changes, faults>>
  BY DEF Start, bounds
<1>6. TypeOK'
  BY <1>1, <1>2, <1>3, <1>4, <1>5 DEF Typed, TypeOK
<1> QED
  BY <1>1, <1>2, <1>4, <1>5, <1>6 DEF Typed

LEMMA TypedAgain == ASSUME Word = 4 PROVE Typed /\ Again => Typed'
<1> SUFFICES ASSUME Typed, Again PROVE Typed'
  OBVIOUS
<1>1. since \in 1 .. Len(catalog) /\ Len(catalog) \in Nat
  BY DEF Again, Typed, TypeOK
<1>2. /\ todo' = catalog /\ todo' \in Seq(Entry) /\ stages' \in Seq(Directory)
      /\ Len(stages') = Len(todo') + 1 /\ index' \in 1 .. Len(todo')
      /\ number' \in Nat /\ target' \in 1 .. Len(todo') /\ pc' = "entry"
  BY <1>1, LoopFacts DEF Again
<1>3. clean' \in BOOLEAN /\ nested' \in BOOLEAN /\ inside' \in BOOLEAN
  BY DEF Again, Typed, TypeOK
<1>4. UNCHANGED <<dir, catalog, pending, past, silent, since, changes, faults>>
  BY DEF Again, bounds
<1>5. TypeOK'
  BY <1>1, <1>2, <1>3, <1>4 DEF Typed, TypeOK
<1> QED
  BY <1>1, <1>2, <1>4, <1>5 DEF Typed

LEMMA TypedDescend == Typed /\ Descend => Typed'
<1> SUFFICES ASSUME Typed, Descend PROVE Typed'
  OBVIOUS
<1>1. /\ pc = "entry" /\ pc' = "contents" /\ index \in 1 .. Len(todo)
      /\ Len(todo) <= Len(catalog) /\ Len(todo) \in Nat /\ Len(catalog) \in Nat
  BY DEF Descend, Typed, TypeOK
<1>2. since' \in 1 .. index
  BY DEF Descend
<1>3. since' \in 1 .. Len(catalog)
  BY <1>1, <1>2
<1>4. clean' \in BOOLEAN /\ nested' \in BOOLEAN /\ inside' \in BOOLEAN
  BY DEF Descend, Typed, TypeOK
<1>5. UNCHANGED <<dir, catalog, pending, past, silent, todo, index, number, stages,
                  target, changes, faults>>
  BY DEF Descend, bounds
<1>6. TypeOK'
  BY <1>1, <1>3, <1>4, <1>5 DEF Typed, TypeOK
<1> QED
  BY <1>1, <1>3, <1>5, <1>6 DEF Typed

LEMMA TypedReturn == Typed /\ Return => Typed'
<1> SUFFICES ASSUME Typed, Return PROVE Typed'
  OBVIOUS
<1>1. clean' \in BOOLEAN /\ nested' \in BOOLEAN /\ inside' \in BOOLEAN
  BY DEF Return, Typed, TypeOK, told
<1>2. TypeOK'
  BY <1>1 DEF Return, Typed, TypeOK, told, bounds
<1> QED
  BY <1>2 DEF Return, Typed, told

LEMMA TypedRevertEntry == Typed /\ RevertEntry => Typed'
<1> SUFFICES ASSUME Typed, RevertEntry PROVE Typed'
  OBVIOUS
<1>1. /\ dir' \in Directory
      /\ pending' \in [entry : Entry, before : Directory] \cup {None}
      /\ pending' # None => Usual(pending'.entry)
  BY RevertEntryFacts, KeptFacts
<1>2. clean' \in BOOLEAN /\ nested' \in BOOLEAN /\ inside' \in BOOLEAN
  BY RevertEntryFacts DEF RevertEntry, Typed, TypeOK, told
<1>3. UNCHANGED <<catalog, past, silent, since, todo, stages, target, clean, changes,
                  faults>>
  BY DEF RevertEntry, told, bounds
<1>4. number' \in Nat /\ index' \in Nat /\ pc' \in {"entry", "attributes", "contents"}
      /\ (pc' \in {"entry", "attributes"} => index' \in 1 .. Len(todo))
      /\ (pc' = "attributes" => index' = index /\ todo[index].action = "rm")
  BY RevertEntryFacts
<1>5. TypeOK'
  BY <1>1, <1>2, <1>3, <1>4 DEF Typed, TypeOK
<1>6. pc = "entry"
  BY DEF RevertEntry
<1> QED
  BY <1>1, <1>3, <1>4, <1>5, <1>6 DEF Typed

LEMMA TypedRevertAttributes == Typed /\ RevertAttributes => Typed'
<1> SUFFICES ASSUME Typed, RevertAttributes PROVE Typed'
  OBVIOUS
<1>1. /\ dir' \in Directory
      /\ pending' \in [entry : Entry, before : Directory] \cup {None}
      /\ pending' # None => Usual(pending'.entry)
  BY RevertAttributesFacts, KeptFacts
<1>2. clean' \in BOOLEAN /\ nested' \in BOOLEAN /\ inside' \in BOOLEAN
  BY DEF RevertAttributes, Typed, TypeOK, told
<1>3. UNCHANGED <<catalog, past, silent, since, todo, stages, target, clean, changes,
                  faults, number>>
  BY DEF RevertAttributes, told, bounds
<1>4. /\ index' \in Nat /\ pc' \in {"entry", "contents"}
      /\ pc' = "entry" => index' \in 1 .. Len(todo)
  BY NextEntryFacts DEF RevertAttributes
<1>5. TypeOK'
  BY <1>1, <1>2, <1>3, <1>4 DEF Typed, TypeOK
<1>6. pc = "attributes"
  BY DEF RevertAttributes
<1> QED
  BY <1>1, <1>3, <1>4, <1>5, <1>6 DEF Typed

LEMMA TypedGone == Typed /\ Gone => Typed'
<1> SUFFICES ASSUME Typed, Gone PROVE Typed'
  OBVIOUS
<1>1. clean' \in BOOLEAN /\ nested' \in BOOLEAN /\ inside' \in BOOLEAN
  BY DEF Gone
<1>2. TypeOK'
  BY <1>1 DEF Gone, Typed, TypeOK, bounds
<1> QED
  BY <1>2 DEF Gone, Typed

LEMMA TypedCrash == Typed /\ Crash => Typed'
<1> SUFFICES ASSUME Typed, Crash PROVE Typed'
  OBVIOUS
<1>1. clean' \in BOOLEAN /\ nested' \in BOOLEAN /\ inside' \in BOOLEAN
  BY DEF Crash, Fault, Typed, TypeOK, told
<1>2. \/ pc' = pc /\ index' = index
      \/ /\ pc' \in {"entry", "contents"} /\ pc # "idle" /\ index' \in Nat
         /\ pc' = "entry" => index' \in 1 .. Len(todo)
  <2>1. CASE UNCHANGED <<pc, index>>
    BY <2>1
  <2>2. CASE pc \in {"entry", "attributes"} /\ index' = index - 1
             /\ pc' = IF index > 1 /\ index - 1 > Len(todo) - number THEN "entry"
                      ELSE "contents"
    <3>1. index \in 1 .. Len(todo) /\ Len(todo) \in Nat
      BY <2>2 DEF Typed, TypeOK
    <3>2. pc' \in {"entry", "contents"} /\ (pc' = "entry" => index > 1)
      BY <2>2
    <3> QED
      BY <2>2, <3>1, <3>2
  <2> QED
    BY <2>1, <2>2 DEF Crash
<1>3. TypeOK'
  BY <1>1, <1>2, FaultFacts DEF Crash, Typed, TypeOK
<1>4. UNCHANGED <<catalog, past, since, todo, stages, target>> /\ pending' = None
  BY DEF Crash, Fault, told
<1> QED
  BY <1>2, <1>3, <1>4 DEF Typed

LEMMA TypedNext == ASSUME Word = 4 PROVE Typed /\ [Next]_vars => Typed'
<1> SUFFICES ASSUME Typed, [Next]_vars PROVE Typed'
  OBVIOUS
<1>1. CASE UNCHANGED vars
  <2>1. clean' = clean /\ nested' = nested /\ inside' = inside
    BY <1>1 DEF vars
  <2>2. clean' \in BOOLEAN /\ nested' \in BOOLEAN /\ inside' \in BOOLEAN
    BY <2>1 DEF Typed, TypeOK
  <2>3. TypeOK'
    BY <1>1, <2>2 DEF vars, Typed, TypeOK
  <2> QED
    BY <1>1, <2>3 DEF vars, Typed
<1> QED
  BY <1>1, TypedUser, TypedRecord, TypedCatalogFails, TypedStart, TypedRevertEntry,
     TypedRevertAttributes, TypedDescend, TypedReturn, TypedAgain, TypedGone, TypedCrash
     DEF Next, Exit, Interrupt

(* Every variable has its type, whatever users, vrevert, crashes and a     *)
(* catalog that cannot be opened do in turn; where time_t has four bytes.  *)
THEOREM TypeCorrect == ASSUME Word = 4 PROVE Spec => []TypeOK
<1>1. Spec => []Typed
  BY TypedInit, TypedNext, PTL DEF Spec
<1>2. Typed => TypeOK
  BY DEF Typed
<1> QED
  BY <1>1, <1>2, PTL

-----------------------------------------------------------------------------
(* What the entries of the catalog say of the directory.                   *)

(* The directory before whatever came after entry k.                       *)
After(k) ==
  IF k < Len(past) THEN past[k + 1]
  ELSE IF pending # None THEN pending.before ELSE dir

(* An entry after which nothing went unrecorded tells how the directory    *)
(* before it became the next.                                              *)
Chained ==
  /\ \A k \in 1 .. Len(past) :
       k \notin silent => Follows(past[k], catalog[k], After(k))
  /\ pending # None => Follows(pending.before, pending.entry, dir)

(* d has what s has: the same names for one inode, the same attributes,    *)
(* the same directories; and nothing else that a user sees.  It may have   *)
(* more deleted names, and other inodes for the files.                     *)
Like(s, d) ==
  /\ \A p \in Paths : Exists(s, p) =>
       Exists(d, p) /\ At(d, p) = At(s, p) /\ (IsDir(s, p) => d.at[p] = s.at[p])
  /\ \A p, q \in Paths : Exists(s, p) /\ Exists(s, q) =>
       (s.at[p] = s.at[q] <=> d.at[p] = d.at[q])
  /\ \A n \in Names : ~ Exists(s, Seen(n)) => ~ Exists(d, Seen(n))

(* vrevert has undone the entries above index, or that one as well.        *)
Walking ==
  pc # "idle" /\ clean /\ ~ nested =>
    /\ \A k \in target .. Len(todo) :
         Follows(stages[k], todo[k], stages[k + 1]) /\ Undoable(todo[k], stages[k])
    /\ number = Len(todo) - target + 1
    /\ pc = "entry" => index \in target .. Len(todo) /\ Like(stages[index + 1], dir)
    /\ pc = "attributes" => index \in target .. Len(todo) /\ Like(stages[index], dir)
    /\ pc \in {"contents", "done"} => Like(stages[target], dir)

-----------------------------------------------------------------------------
(* Undoing one change: from a directory like the one after it to one like  *)
(* the one before it.                                                      *)

LEMMA LikeSelf ==
  ASSUME NEW d
  PROVE  Like(d, d)
  BY DEF Like

(* The names of s are found in x under f, and those of y in d.             *)
LEMMA LikeThrough ==
  ASSUME NEW s, NEW x, NEW d, NEW y, NEW f \in [Paths -> Paths], Like(x, d),
         \A r \in Paths : Exists(s, r) =>
           /\ Exists(x, f[r]) /\ s.at[r] = x.at[f[r]] /\ At(s, r) = At(x, f[r])
           /\ y.at[r] = d.at[f[r]] /\ At(y, r) = At(d, f[r]),
         \A n \in Names : ~ Exists(s, Seen(n)) => ~ Exists(y, Seen(n))
  PROVE  Like(s, y)
<1>1. ASSUME NEW r \in Paths, Exists(s, r)
      PROVE  /\ f[r] \in Paths /\ Exists(x, f[r])
             /\ s.at[r] = x.at[f[r]] /\ At(s, r) = At(x, f[r])
             /\ y.at[r] = d.at[f[r]] /\ At(y, r) = At(d, f[r])
  BY <1>1
<1>2. ASSUME NEW r \in Paths, Exists(s, r)
      PROVE  Exists(y, r) /\ At(y, r) = At(s, r) /\ (IsDir(s, r) => y.at[r] = s.at[r])
  <2>1. Exists(d, f[r]) /\ At(d, f[r]) = At(x, f[r])
        /\ (IsDir(x, f[r]) => d.at[f[r]] = x.at[f[r]])
    BY <1>1, <1>2 DEF Like
  <2>2. IsDir(s, r) => IsDir(x, f[r])
    BY <1>1, <1>2 DEF IsDir
  <2>3. Exists(y, r)
    BY <1>1, <1>2, <2>1 DEF Exists
  <2> QED
    BY <1>1, <1>2, <2>1, <2>2, <2>3
<1>3. ASSUME NEW r \in Paths, NEW t \in Paths, Exists(s, r), Exists(s, t)
      PROVE  s.at[r] = s.at[t] <=> y.at[r] = y.at[t]
  <2>1. x.at[f[r]] = x.at[f[t]] <=> d.at[f[r]] = d.at[f[t]]
    BY <1>1, <1>3 DEF Like
  <2> QED
    BY <1>1, <1>3, <2>1
<1> QED
  BY <1>2, <1>3 DEF Like

(* A directory with an entry more, and what is like it.                    *)
LEMMA NewAgain ==
  ASSUME NEW s \in Directory, NEW p \in Paths, NEW id \in Unused(s), NEW node \in Inode,
         ~ Exists(s, p)
  PROVE  /\ Exists(New(s, p, id, node), p) /\ At(New(s, p, id, node), p) = node
         /\ New(s, p, id, node).at[p] = id
         /\ \A r \in Paths : r # p =>
              /\ New(s, p, id, node).at[r] = s.at[r]
              /\ Exists(s, r) => s.at[r] # id /\ At(New(s, p, id, node), r) = At(s, r)
<1>1. id \in Ids /\ id # None /\ \A r \in Paths : s.at[r] # id
  BY NoneAssumption DEF Unused
<1>2. PICK x : x = New(s, p, id, node)
  OBVIOUS
<1>3. x.at = [s.at EXCEPT ![p] = id] /\ x.inode = [s.inode EXCEPT ![id] = node]
  BY <1>1, <1>2, NewFacts
<1>4. s.at \in [Paths -> Ids \cup {None}] /\ s.inode \in [Ids -> Inode]
  BY DirectoryFacts
<1>5. x.at[p] = id /\ x.inode[id] = node
  BY <1>1, <1>3, <1>4
<1>6. ASSUME NEW r \in Paths, r # p
      PROVE  /\ x.at[r] = s.at[r]
             /\ Exists(s, r) => s.at[r] # id /\ At(x, r) = At(s, r)
  <2>1. x.at[r] = s.at[r] /\ s.at[r] # id
    BY <1>1, <1>3, <1>4, <1>6
  <2>2. Exists(s, r) => s.at[r] \in Ids
    BY DirectoryFacts
  <2>3. Exists(s, r) => x.inode[s.at[r]] = s.inode[s.at[r]]
    BY <1>3, <1>4, <2>1, <2>2
  <2> QED
    BY <2>1, <2>3 DEF At
<1>7. Exists(x, p) /\ At(x, p) = node
  BY <1>1, <1>5 DEF Exists, At
<1> QED
  BY <1>2, <1>5, <1>6, <1>7

(* What is made is undone when its name names nothing, and everything else *)
(* stays.                                                                  *)
LEMMA MadeUndone ==
  ASSUME NEW s \in Directory, NEW d, NEW y, NEW p \in Paths,
         NEW id \in Unused(s), NEW node \in Inode, ~ Exists(s, p),
         Like(New(s, p, id, node), d),
         ~ Exists(y, p),
         \A r \in Paths : Exists(s, r) => y.at[r] = d.at[r] /\ At(y, r) = At(d, r),
         \A n \in Names : ~ Exists(d, Seen(n)) => ~ Exists(y, Seen(n))
  PROVE  Like(s, y)
<1>1. PICK x : x = New(s, p, id, node)
  OBVIOUS
<1>2. PICK f \in [Paths -> Paths] : \A r \in Paths : f[r] = r
  <2>1. [r \in Paths |-> r] \in [Paths -> Paths]
    OBVIOUS
  <2> QED
    BY <2>1
<1>3. ASSUME NEW r \in Paths, Exists(s, r)
      PROVE  /\ Exists(x, f[r]) /\ s.at[r] = x.at[f[r]] /\ At(s, r) = At(x, f[r])
             /\ y.at[r] = d.at[f[r]] /\ At(y, r) = At(d, f[r])
  <2>1. r # p
    BY <1>3
  <2>2. x.at[r] = s.at[r] /\ At(x, r) = At(s, r)
    BY <1>1, <1>3, <2>1, NewAgain
  <2>3. Exists(x, r)
    BY <1>3, <2>2 DEF Exists
  <2> QED
    BY <1>2, <1>3, <2>2, <2>3
<1>4. ASSUME NEW n \in Names, ~ Exists(s, Seen(n))
      PROVE  ~ Exists(y, Seen(n))
  <2>1. CASE Seen(n) = p
    BY <2>1
  <2>2. CASE Seen(n) # p
    <3>1. x.at[Seen(n)] = s.at[Seen(n)]
      BY <1>1, <2>2, SeenFacts, NewAgain
    <3>2. ~ Exists(x, Seen(n))
      BY <1>4, <3>1 DEF Exists
    <3>3. ~ Exists(d, Seen(n))
      BY <1>1, <1>4, <3>2 DEF Like
    <3> QED
      BY <1>4, <3>3
  <2> QED
    BY <2>1, <2>2
<1>5. Like(x, d)
  BY <1>1
<1> QED
  BY <1>2, <1>3, <1>4, <1>5, LikeThrough

(* The other way of a rename.                                              *)
LEMMA RenamedAgain ==
  ASSUME NEW d \in Directory, NEW p \in Paths, NEW q \in Paths, p # q,
         Exists(d, p), ~ Exists(d, q), NEW y, y = Renamed(d, p, q)
  PROVE  /\ y.inode = d.inode
         /\ y.at[q] = d.at[p] /\ At(y, q) = At(d, p)
         /\ ~ Exists(y, p)
         /\ \A r \in Paths \ {p, q} : y.at[r] = d.at[r] /\ At(y, r) = At(d, r)
<1>1. d.at \in [Paths -> Ids \cup {None}]
  BY DirectoryFacts
<1>2. d.at[p] # d.at[q]
  BY DEF Exists
<1>3. y.inode = d.inode /\ y.at = [d.at EXCEPT ![q] = d.at[p], ![p] = None]
  BY <1>2, RenamedFacts
<1>4. y.at[q] = d.at[p] /\ y.at[p] = None /\ \A r \in Paths \ {p, q} : y.at[r] = d.at[r]
  BY <1>1, <1>3
<1> QED
  BY <1>3, <1>4 DEF Exists, At

LEMMA RenamedUndone ==
  ASSUME NEW s \in Directory, NEW d \in Directory, NEW p \in Paths, NEW q \in Paths,
         p # q, p[2] = 0, Exists(s, p), ~ Exists(s, q),
         Like(Renamed(s, p, q), d)
  PROVE  Exists(d, q) /\ ~ Exists(d, p) /\ Like(s, Renamed(d, q, p))
<1>1. PICK x : x = Renamed(s, p, q)
  OBVIOUS
<1>2. PICK y : y = Renamed(d, q, p)
  OBVIOUS
<1>3. /\ x.at[q] = s.at[p] /\ At(x, q) = At(s, p) /\ ~ Exists(x, p)
      /\ \A r \in Paths \ {p, q} : x.at[r] = s.at[r] /\ At(x, r) = At(s, r)
  BY <1>1, RenamedAgain
<1>4. Exists(x, q)
  BY <1>3 DEF Exists
<1>5. Exists(d, q) /\ ~ Exists(d, p)
  <2>1. Exists(d, q)
    BY <1>1, <1>4 DEF Like
  <2>2. p[1] \in Names /\ Seen(p[1]) = p
    BY SeenAgain
  <2>3. ~ Exists(d, p)
    BY <1>1, <1>3, <2>2 DEF Like
  <2> QED
    BY <2>1, <2>3
<1>6. /\ y.at[p] = d.at[q] /\ At(y, p) = At(d, q) /\ ~ Exists(y, q)
      /\ \A r \in Paths \ {p, q} : y.at[r] = d.at[r] /\ At(y, r) = At(d, r)
  BY <1>2, <1>5, RenamedAgain
<1>7. PICK f \in [Paths -> Paths] : f[p] = q /\ \A r \in Paths \ {p} : f[r] = r
  <2>1. PICK g : g = [r \in Paths |-> IF r = p THEN q ELSE r]
    OBVIOUS
  <2>2. g \in [Paths -> Paths] /\ g[p] = q /\ \A r \in Paths \ {p} : g[r] = r
    BY <2>1
  <2> QED
    BY <2>2
<1>8. ASSUME NEW r \in Paths, Exists(s, r)
      PROVE  /\ Exists(x, f[r]) /\ s.at[r] = x.at[f[r]] /\ At(s, r) = At(x, f[r])
             /\ y.at[r] = d.at[f[r]] /\ At(y, r) = At(d, f[r])
  <2>1. CASE r = p
    BY <1>3, <1>4, <1>6, <1>7, <2>1
  <2>2. CASE r # p
    <3>1. r \in Paths \ {p, q} /\ f[r] = r
      BY <1>7, <1>8, <2>2
    <3>2. Exists(x, r)
      BY <1>3, <1>8, <3>1 DEF Exists
    <3> QED
      BY <1>3, <1>6, <3>1, <3>2
  <2> QED
    BY <2>1, <2>2
<1>9. ASSUME NEW n \in Names, ~ Exists(s, Seen(n))
      PROVE  ~ Exists(y, Seen(n))
  <2>1. CASE Seen(n) = q
    BY <1>6, <2>1
  <2>2. CASE Seen(n) # q
    <3>1. Seen(n) \in Paths \ {p, q}
      BY <1>9, <2>2, SeenFacts
    <3>2. ~ Exists(x, Seen(n))
      BY <1>3, <1>9, <3>1 DEF Exists
    <3>3. ~ Exists(d, Seen(n))
      BY <1>1, <3>2 DEF Like
    <3> QED
      BY <1>6, <3>1, <3>3 DEF Exists
  <2> QED
    BY <2>1, <2>2
<1>10. Like(x, d)
  BY <1>1
<1>11. Like(s, y)
  BY <1>7, <1>8, <1>9, <1>10, LikeThrough
<1> QED
  BY <1>2, <1>5, <1>11

(* A file that has one name only, put back under a new inode.              *)
LEMMA UnlinkedUndone ==
  ASSUME NEW s \in Directory, NEW d \in Directory, NEW p \in Paths, p[2] = 0,
         Exists(s, p), ~ IsDir(s, p),
         \A r \in Paths \ {p} : s.at[r] # s.at[p],
         Like(Unlinked(s, p), d)
  PROVE  /\ ~ Exists(d, p)
         /\ \A id \in Unused(d) : Like(s, New(d, p, id, At(s, p)))
<1>1. PICK x : x = Unlinked(s, p)
  OBVIOUS
<1>2. x.at = [s.at EXCEPT ![p] = None] /\ x.inode = s.inode
  BY <1>1, UnlinkedFacts
<1>3. s.at \in [Paths -> Ids \cup {None}]
  BY DirectoryFacts
<1>4. /\ ~ Exists(x, p)
      /\ \A r \in Paths \ {p} : x.at[r] = s.at[r] /\ At(x, r) = At(s, r)
  BY <1>2, <1>3 DEF Exists, At
<1>5. ~ Exists(d, p)
  <2>1. p[1] \in Names /\ Seen(p[1]) = p
    BY SeenAgain
  <2> QED
    BY <1>1, <1>4, <2>1 DEF Like
<1>6. ASSUME NEW id \in Unused(d)
      PROVE  Like(s, New(d, p, id, At(s, p)))
  <2>1. PICK y : y = New(d, p, id, At(s, p))
    OBVIOUS
  <2>2. At(s, p) \in Inode
    BY DirectoryFacts
  <2>3. /\ Exists(y, p) /\ At(y, p) = At(s, p) /\ y.at[p] = id
        /\ \A r \in Paths : r # p =>
             /\ y.at[r] = d.at[r]
             /\ Exists(d, r) => d.at[r] # id /\ At(y, r) = At(d, r)
    BY <1>5, <2>1, <2>2, NewAgain
  <2>4. ASSUME NEW r \in Paths \ {p}, Exists(s, r)
        PROVE  /\ Exists(x, r) /\ Exists(d, r) /\ Exists(y, r)
               /\ At(y, r) = At(d, r) /\ At(d, r) = At(s, r)
               /\ IsDir(s, r) => y.at[r] = s.at[r]
               /\ y.at[r] = d.at[r] /\ y.at[r] # id
    <3>1. Exists(x, r)
      BY <1>4, <2>4 DEF Exists
    <3>2. Exists(d, r) /\ At(d, r) = At(x, r) /\ (IsDir(x, r) => d.at[r] = x.at[r])
      BY <1>1, <2>4, <3>1 DEF Like
    <3>3. y.at[r] = d.at[r] /\ d.at[r] # id /\ At(y, r) = At(d, r)
      BY <2>3, <2>4, <3>2
    <3>4. IsDir(s, r) => IsDir(x, r)
      BY <1>4, <2>4, <3>1 DEF IsDir
    <3>5. Exists(y, r)
      BY <3>2, <3>3 DEF Exists
    <3> QED
      BY <1>4, <2>4, <3>1, <3>2, <3>3, <3>4, <3>5
  <2>5. ASSUME NEW r \in Paths, NEW t \in Paths, Exists(s, r), Exists(s, t)
        PROVE  s.at[r] = s.at[t] <=> y.at[r] = y.at[t]
    <3>1. CASE r = t
      BY <3>1
    <3>2. CASE r # t /\ r = p
      BY <2>3, <2>4, <2>5, <3>2
    <3>3. CASE r # t /\ t = p
      BY <2>3, <2>4, <2>5, <3>3
    <3>4. CASE r # p /\ t # p
      <4>1. x.at[r] = x.at[t] <=> d.at[r] = d.at[t]
        BY <1>1, <2>4, <2>5, <3>4 DEF Like
      <4> QED
        BY <1>4, <2>4, <2>5, <3>4, <4>1
    <3> QED
      BY <3>1, <3>2, <3>3, <3>4
  <2>6. ASSUME NEW n \in Names, ~ Exists(s, Seen(n))
        PROVE  ~ Exists(y, Seen(n))
    <3>1. Seen(n) \in Paths \ {p}
      BY <2>6, SeenFacts
    <3>2. ~ Exists(x, Seen(n))
      BY <1>4, <2>6, <3>1 DEF Exists
    <3>3. ~ Exists(d, Seen(n))
      BY <1>1, <3>2 DEF Like
    <3> QED
      BY <2>3, <3>1, <3>3 DEF Exists
  <2>7. ASSUME NEW r \in Paths, Exists(s, r)
        PROVE  Exists(y, r) /\ At(y, r) = At(s, r) /\ (IsDir(s, r) => y.at[r] = s.at[r])
    <3>1. CASE r = p
      BY <2>3, <3>1
    <3>2. CASE r # p
      BY <2>4, <2>7, <3>2
    <3> QED
      BY <3>1, <3>2
  <2>8. Like(s, y)
    BY <2>5, <2>6, <2>7 DEF Like
  <2> QED
    BY <2>1, <2>8
<1> QED
  BY <1>5, <1>6

(* The attributes of an inode given back, and given again.                 *)
LEMMA ChmodedUndone ==
  ASSUME NEW s \in Directory, NEW d \in Directory, NEW p \in Paths, Exists(s, p),
         NEW mode \in Modes, Like(Chmoded(s, p, mode), d)
  PROVE  /\ Exists(d, p) /\ At(d, p).kind = At(s, p).kind
         /\ Like(s, Chmoded(d, p, At(s, p).mode))
<1>1. PICK x : x = Chmoded(s, p, mode)
  OBVIOUS
<1>2. PICK was : was = At(s, p).mode
  OBVIOUS
<1>3. At(s, p) \in Inode /\ was \in Modes /\ At(s, p) = [kind |-> At(s, p).kind, mode |-> was]
  BY <1>2, DirectoryFacts DEF Inode
<1>4. /\ x.at = s.at
      /\ \A i \in Ids : x.inode[i] = IF i = s.at[p] THEN [kind |-> At(s, p).kind, mode |-> mode]
                                     ELSE s.inode[i]
  BY <1>1, ChmodedFacts
<1>5. /\ \A r \in Paths : Exists(x, r) <=> Exists(s, r)
      /\ \A r \in Paths : Exists(s, r) /\ s.at[r] # s.at[p] => At(x, r) = At(s, r)
      /\ At(x, p).kind = At(s, p).kind
  <2>1. \A r \in Paths : Exists(s, r) => s.at[r] \in Ids
    BY DirectoryFacts
  <2>2. At(x, p) = [kind |-> At(s, p).kind, mode |-> mode]
    BY <1>4, <2>1 DEF At
  <2> QED
    BY <1>4, <2>1, <2>2 DEF Exists, At
<1>6. ASSUME NEW r \in Paths, Exists(s, r)
      PROVE  /\ Exists(d, r) /\ At(d, r) = At(x, r) /\ d.at[r] \in Ids
             /\ IsDir(x, r) => d.at[r] = x.at[r]
             /\ s.at[r] = s.at[p] <=> d.at[r] = d.at[p]
  <2>1. Exists(x, r) /\ Exists(x, p)
    BY <1>5, <1>6
  <2>2. /\ Exists(d, r) /\ At(d, r) = At(x, r)
        /\ IsDir(x, r) => d.at[r] = x.at[r]
        /\ x.at[r] = x.at[p] <=> d.at[r] = d.at[p]
    BY <1>1, <1>6, <2>1 DEF Like
  <2> QED
    BY <1>4, <2>2, DirectoryFacts
<1>7. PICK y : y = Chmoded(d, p, was)
  OBVIOUS
<1>8. Exists(d, p) /\ At(d, p).kind = At(s, p).kind
  BY <1>5, <1>6
<1>9. /\ y.at = d.at
      /\ \A i \in Ids : y.inode[i] = IF i = d.at[p] THEN [kind |-> At(s, p).kind, mode |-> was]
                                     ELSE d.inode[i]
  BY <1>3, <1>7, <1>8, ChmodedFacts
<1>10. ASSUME NEW r \in Paths, Exists(s, r)
       PROVE  Exists(y, r) /\ At(y, r) = At(s, r) /\ (IsDir(s, r) => y.at[r] = s.at[r])
  <2>1. Exists(y, r)
    BY <1>6, <1>9, <1>10 DEF Exists
  <2>2. CASE s.at[r] = s.at[p]
    <3>1. At(s, r) = At(s, p) /\ At(x, r) = At(x, p)
      BY <1>4, <2>2 DEF At
    <3>2. At(y, r) = [kind |-> At(s, p).kind, mode |-> was]
      BY <1>6, <1>9, <1>10, <2>2 DEF At
    <3>3. IsDir(s, r) => IsDir(x, r)
      BY <1>5, <1>10, <3>1 DEF IsDir
    <3> QED
      BY <1>3, <1>4, <1>6, <1>9, <1>10, <2>1, <3>1, <3>2, <3>3
  <2>3. CASE s.at[r] # s.at[p]
    <3>1. At(x, r) = At(s, r)
      BY <1>5, <1>10, <2>3
    <3>2. At(y, r) = At(d, r)
      BY <1>6, <1>9, <1>10, <2>3 DEF At
    <3>3. IsDir(s, r) => IsDir(x, r)
      BY <1>5, <1>10, <3>1 DEF IsDir
    <3> QED
      BY <1>4, <1>6, <1>9, <1>10, <2>1, <3>1, <3>2, <3>3
  <2> QED
    BY <2>2, <2>3
<1>11. ASSUME NEW r \in Paths, NEW t \in Paths, Exists(s, r), Exists(s, t)
       PROVE  s.at[r] = s.at[t] <=> y.at[r] = y.at[t]
  <2>1. x.at[r] = x.at[t] <=> d.at[r] = d.at[t]
    BY <1>1, <1>5, <1>11 DEF Like
  <2> QED
    BY <1>4, <1>9, <2>1
<1>12. ASSUME NEW n \in Names, ~ Exists(s, Seen(n))
       PROVE  ~ Exists(y, Seen(n))
  <2>1. ~ Exists(x, Seen(n))
    BY <1>5, <1>12, SeenFacts
  <2>2. ~ Exists(d, Seen(n))
    BY <1>1, <2>1 DEF Like
  <2> QED
    BY <1>9, <2>2 DEF Exists
<1>13. Like(s, y)
  BY <1>10, <1>11, <1>12 DEF Like
<1> QED
  BY <1>2, <1>7, <1>8, <1>13

LEMMA ChmodedKept ==
  ASSUME NEW s \in Directory, NEW d \in Directory, NEW p \in Paths, Exists(s, p),
         Like(s, d)
  PROVE  Like(s, Chmoded(d, p, At(s, p).mode))
<1>1. Exists(d, p) /\ At(d, p) = At(s, p) /\ At(s, p) \in Inode /\ At(s, p).mode \in Modes
  BY DirectoryFacts DEF Like, Inode
<1>2. PICK y : y = Chmoded(d, p, At(s, p).mode)
  OBVIOUS
<1>3. [kind |-> At(d, p).kind, mode |-> At(s, p).mode] = At(d, p)
  BY <1>1 DEF Inode
<1>4. y.at = d.at /\ \A i \in Ids : y.inode[i] = IF i = d.at[p] THEN At(d, p) ELSE d.inode[i]
  BY <1>1, <1>2, <1>3, ChmodedFacts
<1>5. \A i \in Ids : y.inode[i] = d.inode[i]
  BY <1>4 DEF At
<1>6. \A r \in Paths : Exists(y, r) <=> Exists(d, r)
  BY <1>4 DEF Exists
<1>7. \A r \in Paths : Exists(d, r) => At(y, r) = At(d, r)
  BY <1>4, <1>5, DirectoryFacts DEF At
<1>8. Like(s, y)
  BY <1>4, <1>6, <1>7, SeenFacts DEF Like
<1> QED
  BY <1>2, <1>8

-----------------------------------------------------------------------------
(* The catalog stays a chain.                                              *)
LEMMA CallChained ==
  ASSUME Typed, Chained, pending = None, UNCHANGED <<catalog, past, silent>>,
         Called \/ UNCHANGED <<dir, pending>>
  PROVE  Chained'
<1>1. \A k : After(k)' = After(k)
  <2>1. CASE Called
    <3>1. pending' # None /\ pending'.before = dir
      BY <2>1, CalledFacts DEF Typed, TypeOK
    <3> QED
      BY <3>1 DEF After
  <2>2. CASE UNCHANGED <<dir, pending>>
    BY <2>2 DEF After
  <2> QED
    BY <2>1, <2>2
<1>2. pending' # None => Follows(pending'.before, pending'.entry, dir')
  <2>1. CASE Called
    BY <2>1, CalledFacts DEF Typed, TypeOK
  <2>2. CASE UNCHANGED <<dir, pending>>
    BY <2>2
  <2> QED
    BY <2>1, <2>2
<1>3. ASSUME NEW k \in 1 .. Len(past'), k \notin silent'
      PROVE  Follows(past'[k], catalog'[k], After(k)')
  BY <1>1, <1>3 DEF Chained
<1> QED
  BY <1>2, <1>3 DEF Chained

LEMMA RecordChained ==
  ASSUME Typed, Chained, Record
  PROVE  Chained'
<1>1. /\ catalog \in Seq(Entry) /\ past \in Seq(Directory) /\ Len(past) = Len(catalog)
      /\ Len(past) \in Nat
      /\ pending # None /\ pending.entry \in Entry /\ pending.before \in Directory
  BY DEF Record, Typed, TypeOK
<1>2. /\ catalog' = Append(catalog, pending.entry) /\ past' = Append(past, pending.before)
      /\ pending' = None /\ dir' = dir /\ silent' = silent
  BY DEF Record
<1>3. /\ Len(past') = Len(past) + 1
      /\ \A k \in 1 .. Len(past) : past'[k] = past[k] /\ catalog'[k] = catalog[k]
      /\ past'[Len(past) + 1] = pending.before /\ catalog'[Len(past) + 1] = pending.entry
  BY <1>1, <1>2
<1>4. ASSUME NEW k \in 1 .. Len(past'), k \notin silent'
      PROVE  Follows(past'[k], catalog'[k], After(k)')
  <2>1. CASE k = Len(past) + 1
    <3>1. After(k)' = dir
      BY <1>1, <1>2, <1>3, <2>1 DEF After
    <3>2. past'[k] = pending.before /\ catalog'[k] = pending.entry
      BY <1>3, <2>1
    <3> QED
      BY <1>1, <3>1, <3>2 DEF Chained
  <2>2. CASE k # Len(past) + 1
    <3>1. k \in 1 .. Len(past)
      BY <1>1, <1>3, <1>4, <2>2
    <3>2. After(k)' = past'[k + 1]
      BY <1>1, <1>3, <3>1 DEF After
    <3>3. past'[k + 1] = After(k)
      <4>1. CASE k = Len(past)
        BY <1>1, <1>3, <4>1 DEF After
      <4>2. CASE k < Len(past)
        <5>1. k + 1 \in 1 .. Len(past)
          BY <1>1, <3>1, <4>2
        <5> QED
          BY <1>3, <4>2, <5>1 DEF After
      <4> QED
        BY <1>1, <3>1, <4>1, <4>2
    <3>4. Follows(past[k], catalog[k], After(k))
      BY <1>2, <1>4, <3>1 DEF Chained
    <3> QED
      BY <1>3, <3>1, <3>2, <3>3, <3>4
  <2> QED
    BY <2>1, <2>2
<1> QED
  BY <1>2, <1>4 DEF Chained

LEMMA FaultChained ==
  ASSUME Typed, Chained, Fault
  PROVE  Chained'
<1>1. UNCHANGED <<dir, catalog, past>> /\ pending' = None
  BY DEF Fault
<1>2. ASSUME NEW k \in 1 .. Len(past'), k \notin silent'
      PROVE  Follows(past'[k], catalog'[k], After(k)')
  <2>1. k \notin silent /\ (pending # None => k # Len(past))
    BY <1>2 DEF Fault, Typed
  <2>2. After(k)' = After(k)
    <3>1. CASE pending = None
      BY <1>1, <3>1 DEF After
    <3>2. CASE pending # None
      <4>1. k < Len(past)
        BY <1>1, <1>2, <2>1, <3>2 DEF Typed, TypeOK
      <4> QED
        BY <1>1, <4>1 DEF After
    <3> QED
      BY <3>1, <3>2
  <2> QED
    BY <1>1, <1>2, <2>1, <2>2 DEF Chained
<1> QED
  BY <1>1, <1>2 DEF Chained

LEMMA UserAlone == UserDoes => pending = None
  BY DEF UserDoes, Mknod, Symlink, Mkdir, Unlink, Rmdir, Rename, Link, Chmod, Changes

LEMMA ChainedNext ==
  ASSUME Typed, Chained, [Next]_vars
  PROVE  Chained'
<1>1. CASE User
  BY <1>1, UserCalled, UserAlone, CallChained DEF User, Typed, TypeOK
<1>2. CASE Record
  BY <1>2, RecordChained
<1>3. CASE CatalogFails \/ Crash
  BY <1>3, FaultChained DEF CatalogFails, Crash
<1>4. CASE RevertEntry
  BY <1>4, RevertEntryFacts, CallChained DEF RevertEntry
<1>5. CASE RevertAttributes
  BY <1>5, RevertAttributesFacts, CallChained DEF RevertAttributes
<1>6. CASE UNCHANGED <<dir, catalog, pending, past, silent>>
  BY <1>6 DEF Chained, After
<1>7. ASSUME NEW from \in DOMAIN catalog, Start(from)
      PROVE  UNCHANGED <<dir, catalog, pending, past, silent>>
  BY <1>7 DEF Start
<1>8. Descend \/ Return \/ Again \/ Exit \/ Interrupt \/ UNCHANGED vars
        => UNCHANGED <<dir, catalog, pending, past, silent>>
  BY DEF Descend, Return, Again, Exit, Interrupt, Gone, vars
<1> QED
  BY <1>1, <1>2, <1>3, <1>4, <1>5, <1>6, <1>7, <1>8 DEF Next

-----------------------------------------------------------------------------
(* One turn of vrevert's loop undoes one entry.                            *)
LEMMA CreateUndone ==
  ASSUME NEW s \in Directory, NEW d \in Directory, NEW e \in Entry, NEW x,
         e.action \in {"create", "mkdir"}, Follows(s, e, x), ~ Exists(s, e.file1),
         Like(x, d)
  PROVE  \E id \in Unused(s), node \in Inode :
           /\ x = New(s, e.file1, id, node)
           /\ node.kind = "dir" <=> e.action = "mkdir"
           /\ Exists(d, e.file1) /\ At(d, e.file1) = node
<1>1. PICK id \in Unused(s), node \in Inode :
        x = New(s, e.file1, id, node) /\ (node.kind = "dir" <=> e.action = "mkdir")
  BY DEF Follows
<1>2. e.file1 \in Paths
  BY DEF Entry
<1>3. Exists(x, e.file1) /\ At(x, e.file1) = node
  BY <1>1, <1>2, NewAgain
<1>4. Exists(d, e.file1) /\ At(d, e.file1) = node
  BY <1>2, <1>3 DEF Like
<1> QED
  BY <1>1, <1>4

LEMMA EntryUndone ==
  ASSUME Typed, RevertEntry, NEW s \in Directory, NEW x, NEW e, e = todo[index],
         Follows(s, e, x), Undoable(e, s), Like(x, dir)
  PROVE  Like(s, dir') /\ (pc' # "attributes" => NextEntry)
<1>1. /\ index \in DOMAIN todo /\ e \in Entry /\ Usual(e) /\ dir \in Directory
      /\ e.file1 \in Paths /\ e.file2 \in Paths
  <2>1. pc = "entry"
    BY DEF RevertEntry
  <2>2. index \in DOMAIN todo /\ dir \in Directory
    BY <2>1 DEF Typed, TypeOK
  <2>3. Usual(e)
    BY <2>2 DEF Typed
  <2> QED
    BY <2>2, <2>3 DEF Usual, Entry
<1>2. PICK p \in Paths : p = e.file1
  BY <1>1
<1>3. PICK q \in Paths : q = e.file2
  BY <1>1
<1>4. CASE e.action = "create"
  <2>1. ~ Exists(s, p)
    BY <1>2, <1>4 DEF Undoable
  <2>2. PICK id \in Unused(s), node \in Inode :
          /\ x = New(s, p, id, node) /\ node.kind # "dir"
          /\ Exists(dir, p) /\ At(dir, p) = node
    BY <1>1, <1>2, <1>4, <2>1, CreateUndone
  <2>3. Exists(dir, p) /\ ~ IsDir(dir, p)
    BY <2>2 DEF IsDir
  <2>4. NextEntry /\ Unlink(p)
    BY <1>2, <1>4, <2>3 DEF RevertEntry, Attempt
  <2>5. dir' = Unlinked(dir, p)
    BY <2>4 DEF Unlink, Changes
  <2>6. dir'.at = [dir.at EXCEPT ![p] = None] /\ dir'.inode = dir.inode
        /\ dir.at \in [Paths -> Ids \cup {None}]
    BY <1>1, <2>5, UnlinkedFacts, DirectoryFacts
  <2>7. /\ ~ Exists(dir', p)
        /\ \A r \in Paths : r # p => dir'.at[r] = dir.at[r] /\ At(dir', r) = At(dir, r)
    BY <2>6 DEF Exists, At
  <2>8. \A r \in Paths : Exists(s, r) => dir'.at[r] = dir.at[r] /\ At(dir', r) = At(dir, r)
    BY <2>1, <2>7
  <2>9. \A n \in Names : ~ Exists(dir, Seen(n)) => ~ Exists(dir', Seen(n))
    BY <2>7, SeenFacts DEF Exists
  <2>10. Like(s, dir')
    BY <2>1, <2>2, <2>7, <2>8, <2>9, MadeUndone
  <2> QED
    BY <2>4, <2>10
<1>5. CASE e.action = "mkdir"
  <2>1. ~ Exists(s, p)
    BY <1>2, <1>5 DEF Follows
  <2>2. PICK id \in Unused(s), node \in Inode :
          /\ x = New(s, p, id, node) /\ node.kind = "dir"
          /\ Exists(dir, p) /\ At(dir, p) = node
    BY <1>1, <1>2, <1>5, <2>1, CreateUndone
  <2>3. IsDir(dir, p)
    BY <2>2 DEF IsDir
  <2>4. NextEntry /\ Rmdir(p[1])
    BY <1>2, <1>5, <2>3 DEF RevertEntry, Attempt
  <2>5. p[1] \in Names /\ Seen(p[1]) = p
    BY <1>1, <1>2, <1>5, SeenAgain DEF Usual
  <2>6. PICK t : t = DeletedPath(dir, p[1])
    OBVIOUS
  <2>7. t \in Paths /\ t[2] # 0 /\ ~ Exists(dir, t)
    BY <2>4, <2>5, <2>6, DeletedPathFacts DEF Rmdir
  <2>8. dir' = Renamed(dir, p, t)
    BY <2>4, <2>5, <2>6 DEF Rmdir, Changes
  <2>9. p # t
    BY <2>2, <2>7
  <2>10. /\ ~ Exists(dir', p)
         /\ \A r \in Paths \ {p, t} : dir'.at[r] = dir.at[r] /\ At(dir', r) = At(dir, r)
    BY <1>1, <2>2, <2>7, <2>8, <2>9, RenamedAgain
  <2>11. ASSUME NEW r \in Paths, Exists(s, r)
         PROVE  dir'.at[r] = dir.at[r] /\ At(dir', r) = At(dir, r)
    <3>1. r # p
      BY <2>1, <2>11
    <3>2. x.at[r] = s.at[r]
      BY <2>1, <2>2, <3>1, NewAgain
    <3>3. Exists(x, r)
      BY <2>11, <3>2 DEF Exists
    <3>4. Exists(dir, r)
      BY <3>3 DEF Like
    <3> QED
      BY <2>7, <2>10, <3>1, <3>4
  <2>12. ASSUME NEW n \in Names, ~ Exists(dir, Seen(n))
         PROVE  ~ Exists(dir', Seen(n))
    <3>1. Seen(n) \in Paths /\ Seen(n) # t
      BY <2>7, SeenFacts
    <3> QED
      BY <2>2, <2>10, <2>12, <3>1 DEF Exists
  <2>13. Like(s, dir')
    BY <2>1, <2>2, <2>10, <2>11, <2>12, MadeUndone
  <2> QED
    BY <2>4, <2>13
<1>6. CASE e.action \in {"rename", "rmdir"}
  <2>1. /\ p # q /\ Exists(s, p) /\ x = Renamed(s, p, q)
        /\ e.action = "rmdir" => ~ Exists(s, q)
    BY <1>2, <1>3, <1>6 DEF Follows
  <2>2. p[2] = 0 /\ ~ Exists(s, q)
    BY <1>1, <1>2, <1>3, <1>6, <2>1 DEF Usual, Undoable
  <2>3. Exists(dir, q) /\ ~ Exists(dir, p) /\ Like(s, Renamed(dir, q, p))
    BY <1>1, <2>1, <2>2, RenamedUndone
  <2>4. CanRename(dir, q, p)
    BY <2>3 DEF CanRename
  <2>5. NextEntry /\ Rename(q, p)
    <3>1. ~ RenameRefused(dir, q, p)
      BY <2>3 DEF RenameRefused, IsDir
    <3> QED
      BY <1>2, <1>3, <1>6, <2>1, <2>4, <3>1 DEF RevertEntry, Attempt
  <2>6. dir' = Renamed(dir, q, p)
    BY <2>5 DEF Rename, Changes
  <2> QED
    BY <2>3, <2>5, <2>6
<1>7. CASE e.action = "chmod"
  <2>1. PICK mode \in Modes :
          /\ Exists(s, p) /\ At(s, p).kind # "link" /\ e.stats = At(s, p)
          /\ x = Chmoded(s, p, mode)
    BY <1>2, <1>7 DEF Follows
  <2>2. /\ Exists(dir, p) /\ At(dir, p).kind # "link"
        /\ Like(s, Chmoded(dir, p, e.stats.mode))
    BY <1>1, <2>1, ChmodedUndone
  <2>3. NextEntry /\ Chmod(p, e.stats.mode)
    BY <1>2, <1>7, <2>2 DEF RevertEntry, Attempt
  <2>4. dir' = Chmoded(dir, p, e.stats.mode)
    BY <2>3 DEF Chmod, Changes
  <2> QED
    BY <2>2, <2>3, <2>4
<1>8. CASE e.action = "rm"
  <2>1. /\ Exists(s, p) /\ e.stats = At(s, p) /\ x = Unlinked(s, p)
    BY <1>2, <1>8 DEF Follows
  <2>2. /\ e.stats.kind = "file" /\ e.stats.mode = Plain
        /\ \A r \in Paths \ {p} : s.at[r] # s.at[p]
    BY <1>2, <1>8 DEF Undoable, TakenForFile
  <2>3. p[2] = 0 /\ ~ IsDir(s, p)
    BY <1>1, <1>2, <1>8, <2>1, <2>2 DEF Usual, IsDir
  <2>4. ~ Exists(dir, p) /\ \A id \in Unused(dir) : Like(s, New(dir, p, id, At(s, p)))
    BY <1>1, <2>1, <2>2, <2>3, UnlinkedUndone
  <2>5. ~ IsDir(dir, p)
    BY <2>4 DEF IsDir
  <2>6. pc' = "attributes" /\ Mknod(p)
    BY <1>2, <1>8, <2>2, <2>4, <2>5 DEF RevertEntry, Attempt, TakenForFile
  <2>7. Unused(dir) # {} /\ dir' = Made(dir, p, "file", Plain)
    BY <2>6 DEF Mknod, Changes
  <2>8. PICK id \in Unused(dir) : dir' = New(dir, p, id, [kind |-> "file", mode |-> Plain])
    BY <1>1, <2>7, MadeFacts, NothingType
  <2>9. At(s, p) = [kind |-> "file", mode |-> Plain]
    <3>1. At(s, p) \in Inode
      BY <2>1, DirectoryFacts
    <3> QED
      BY <2>1, <2>2, <3>1 DEF Inode
  <2>10. Like(s, dir')
    BY <2>4, <2>8, <2>9
  <2> QED
    BY <2>6, <2>10
<1> QED
  BY <1>1, <1>4, <1>5, <1>6, <1>7, <1>8 DEF Entry, Actions

LEMMA AttributesUndone ==
  ASSUME Typed, RevertAttributes, NEW s \in Directory, NEW x, NEW e, e = todo[index],
         Follows(s, e, x), Undoable(e, s), Like(s, dir)
  PROVE  Like(s, dir')
<1>1. /\ index \in DOMAIN todo /\ e \in Entry /\ dir \in Directory /\ e.file1 \in Paths
      /\ e.action = "rm"
  <2>1. pc = "attributes"
    BY DEF RevertAttributes
  <2>2. index \in DOMAIN todo /\ dir \in Directory /\ e.action = "rm"
    BY <2>1 DEF Typed, TypeOK
  <2>3. Usual(e)
    BY <2>2 DEF Typed
  <2> QED
    BY <2>2, <2>3 DEF Usual, Entry
<1>2. PICK p \in Paths : p = e.file1
  BY <1>1
<1>3. Exists(s, p) /\ e.stats = At(s, p) /\ e.stats.kind = "file"
  BY <1>1, <1>2 DEF Follows, Undoable, TakenForFile
<1>4. Exists(dir, p) /\ At(dir, p).kind # "link"
  BY <1>3 DEF Like
<1>5. Chmod(p, e.stats.mode)
  BY <1>2, <1>4 DEF RevertAttributes, Attempt
<1>6. dir' = Chmoded(dir, p, e.stats.mode)
  BY <1>5 DEF Chmod, Changes
<1> QED
  BY <1>1, <1>3, <1>6, ChmodedKept

-----------------------------------------------------------------------------
(* vrevert walks down the chain.                                           *)
LEMMA TurnFacts ==
  ASSUME Typed, Walking, pc \in {"entry", "attributes"}, clean, ~ nested
  PROVE  /\ index \in target .. Len(todo)
         /\ stages[index] \in Directory
         /\ Follows(stages[index], todo[index], stages[index + 1])
         /\ Undoable(todo[index], stages[index])
         /\ number = Len(todo) - target + 1
         /\ index \in Nat /\ target \in Nat /\ Len(todo) \in Nat
<1>1. index \in target .. Len(todo) /\ number = Len(todo) - target + 1
  BY DEF Walking
<1>2. Follows(stages[index], todo[index], stages[index + 1])
      /\ Undoable(todo[index], stages[index])
  BY <1>1 DEF Walking
<1>3. /\ stages \in Seq(Directory) /\ Len(stages) = Len(todo) + 1 /\ Len(todo) \in Nat
      /\ target \in 1 .. Len(todo)
  BY DEF Typed, TypeOK
<1>4. index \in 1 .. Len(stages) /\ index \in Nat /\ target \in Nat
  BY <1>1, <1>3
<1>5. stages[index] \in Directory
  BY <1>3, <1>4
<1> QED
  BY <1>1, <1>2, <1>3, <1>4, <1>5

LEMMA TurnDone ==
  ASSUME Typed, Walking, pc \in {"entry", "attributes"}, clean, ~ nested,
         UNCHANGED <<todo, stages, target, number>>,
         NextEntry, Like(stages[index], dir')
  PROVE  Walking'
<1>1. /\ index \in target .. Len(todo) /\ number = Len(todo) - target + 1
      /\ index \in Nat /\ target \in Nat /\ Len(todo) \in Nat
  BY TurnFacts
<1>2. \A k \in target .. Len(todo) :
        Follows(stages[k], todo[k], stages[k + 1]) /\ Undoable(todo[k], stages[k])
  BY DEF Walking
<1>3. index' = index - 1 /\ index' + 1 = index
  BY <1>1 DEF NextEntry
<1>4. Len(todo) - number' = target - 1 /\ target >= 1
  BY <1>1 DEF Typed, TypeOK
<1>5. pc' = IF index > 1 /\ index - 1 > target - 1 THEN "entry" ELSE "contents"
  BY <1>4 DEF NextEntry
<1>6. CASE index = target
  <2>1. pc' = "contents"
    BY <1>1, <1>5, <1>6
  <2> QED
    BY <1>1, <1>2, <1>6, <2>1 DEF Walking
<1>7. CASE index # target
  <2>1. index > target /\ index > 1
    BY <1>1, <1>4, <1>7
  <2>2. pc' = "entry"
    BY <1>1, <1>5, <2>1
  <2>3. index' \in target .. Len(todo)
    BY <1>1, <1>3, <2>1
  <2> QED
    BY <1>1, <1>2, <1>3, <2>2, <2>3 DEF Walking
<1> QED
  BY <1>6, <1>7

LEMMA WalkingRevertEntry == Typed /\ Walking /\ RevertEntry => Walking'
<1> SUFFICES ASSUME Typed, Walking, RevertEntry, clean', ~ nested'
             PROVE  Walking'
  BY DEF Walking
<1>1. pc = "entry" /\ UNCHANGED <<todo, stages, target, clean>>
  BY DEF RevertEntry, told
<1>2. number' = number /\ ~ nested
  <2>1. SetsNumber(todo[index])
    BY DEF RevertEntry
  <2>2. number' = number /\ nested' = nested
    BY <2>1 DEF SetsNumber
  <2> QED
    BY <2>2
<1>3. clean
  BY <1>1
<1>4. /\ index \in target .. Len(todo) /\ stages[index] \in Directory
      /\ Follows(stages[index], todo[index], stages[index + 1])
      /\ Undoable(todo[index], stages[index])
      /\ number = Len(todo) - target + 1
  BY <1>1, <1>2, <1>3, TurnFacts
<1>5. Like(stages[index + 1], dir)
  BY <1>1, <1>2, <1>3 DEF Walking
<1>6. Like(stages[index], dir') /\ (pc' # "attributes" => NextEntry)
  BY <1>4, <1>5, EntryUndone
<1>7. CASE pc' # "attributes"
  BY <1>1, <1>2, <1>3, <1>6, <1>7, TurnDone
<1>8. CASE pc' = "attributes"
  <2>1. index' = index
    BY <1>8, RevertEntryFacts
  <2>2. \A k \in target .. Len(todo) :
          Follows(stages[k], todo[k], stages[k + 1]) /\ Undoable(todo[k], stages[k])
    BY <1>1, <1>2, <1>3 DEF Walking
  <2> QED
    BY <1>1, <1>2, <1>4, <1>6, <1>8, <2>1, <2>2 DEF Walking
<1> QED
  BY <1>7, <1>8

LEMMA WalkingRevertAttributes == Typed /\ Walking /\ RevertAttributes => Walking'
<1> SUFFICES ASSUME Typed, Walking, RevertAttributes, clean', ~ nested'
             PROVE  Walking'
  BY DEF Walking
<1>1. pc = "attributes" /\ UNCHANGED <<todo, stages, target, clean, nested, number>>
  BY DEF RevertAttributes, told
<1>2. clean /\ ~ nested
  BY <1>1
<1>3. /\ stages[index] \in Directory
      /\ Follows(stages[index], todo[index], stages[index + 1])
      /\ Undoable(todo[index], stages[index])
  BY <1>1, <1>2, TurnFacts
<1>4. Like(stages[index], dir)
  BY <1>1, <1>2 DEF Walking
<1>5. Like(stages[index], dir')
  BY <1>3, <1>4, AttributesUndone
<1>6. NextEntry
  BY DEF RevertAttributes
<1> QED
  BY <1>1, <1>2, <1>5, <1>6, TurnDone

LEMMA WalkingStart ==
  ASSUME Word = 4, Typed, Chained, NEW from \in DOMAIN catalog, Start(from), clean'
  PROVE  Walking'
<1>1. /\ catalog \in Seq(Entry) /\ past \in Seq(Directory) /\ Len(past) = Len(catalog)
      /\ from \in 1 .. Len(catalog) /\ Len(catalog) \in Nat /\ dir \in Directory
  BY DEF Typed, TypeOK
<1>2. /\ pc' = "entry" /\ todo' = catalog /\ index' = Len(catalog)
      /\ number' = Len(catalog) - from + 1 /\ target' = from
      /\ stages' = Append(past, dir) /\ dir' = dir /\ pending = None
  BY <1>1, LoopFacts DEF Start, Loop
<1>3. Restorable(from)
  BY DEF Start
<1>4. /\ \A k \in 1 .. Len(catalog) : stages'[k] = past[k]
      /\ stages'[Len(catalog) + 1] = dir
  <2>1. PICK n \in Nat : n = Len(catalog) /\ n = Len(past)
    BY <1>1
  <2>2. PICK s : s = Append(past, dir)
    OBVIOUS
  <2>3. (\A k \in 1 .. n : s[k] = past[k]) /\ s[n + 1] = dir
    BY ONLY <1>1, <2>1, <2>2
  <2> QED
    BY <1>2, <2>1, <2>2, <2>3
<1>5. ASSUME NEW k \in from .. Len(catalog)
      PROVE  Follows(stages'[k], todo'[k], stages'[k + 1]) /\ Undoable(todo'[k], stages'[k])
  <2>1. k \in 1 .. Len(catalog) /\ stages'[k] = past[k]
    BY <1>1, <1>4, <1>5
  <2>2. k \notin silent /\ Undoable(catalog[k], past[k])
    BY <1>3 DEF Restorable
  <2>3. Follows(past[k], catalog[k], After(k))
    BY <1>1, <2>1, <2>2 DEF Chained
  <2>4. stages'[k + 1] = After(k)
    <3>1. CASE k = Len(catalog)
      <4>1. ~ (k < Len(past))
        BY <1>1, <3>1
      <4>2. After(k) = dir
        BY <1>2, <4>1 DEF After
      <4> QED
        BY <1>4, <3>1, <4>2
    <3>2. CASE k # Len(catalog)
      <4>1. k < Len(past) /\ k + 1 \in 1 .. Len(catalog)
        BY <1>1, <2>1, <3>2
      <4>2. stages'[k + 1] = past[k + 1]
        BY <1>4, <4>1
      <4>3. After(k) = past[k + 1]
        BY <4>1 DEF After
      <4> QED
        BY <4>2, <4>3
    <3> QED
      BY <3>1, <3>2
  <2> QED
    BY <1>2, <2>1, <2>2, <2>3, <2>4
<1>6. Like(stages'[index' + 1], dir')
  BY <1>2, <1>4, LikeSelf
<1>7. index' \in target' .. Len(todo')
  BY <1>1, <1>2
<1> QED
  BY <1>2, <1>5, <1>6, <1>7 DEF Walking

LEMMA WalkingNext ==
  ASSUME Word = 4, Typed, Chained, Walking, [Next]_vars
  PROVE  Walking'
<1>1. CASE User
  BY <1>1 DEF User, Walking
<1>2. CASE Record
  BY <1>2 DEF Record, Walking, told
<1>3. CASE CatalogFails
  BY <1>3 DEF CatalogFails, Fault, Walking, told
<1>4. ASSUME NEW from \in DOMAIN catalog, Start(from)
      PROVE  Walking'
  BY <1>4, WalkingStart DEF Walking
<1>5. CASE RevertEntry
  BY <1>5, WalkingRevertEntry
<1>6. CASE RevertAttributes
  BY <1>6, WalkingRevertAttributes
<1>7. CASE Exit \/ Interrupt \/ Again
  BY <1>7 DEF Exit, Interrupt, Gone, Again, Walking
<1>8. CASE Crash
  BY <1>8 DEF Crash, Walking
<1>9. CASE UNCHANGED vars
  BY <1>9 DEF vars, Walking
<1>10. CASE Descend
  BY <1>10 DEF Descend, Walking
<1>11. CASE Return
  BY <1>11 DEF Return, Walking, told
<1> QED
  BY <1>1, <1>2, <1>3, <1>4, <1>5, <1>6, <1>7, <1>8, <1>9, <1>10, <1>11 DEF Next

LEMMA LikeView ==
  ASSUME NEW s, NEW d, Like(s, d)
  PROVE  View(d) = View(s)
<1> DEFINE Sight(x, n) == IF ~ Exists(x, Seen(n)) THEN None
                          ELSE [is |-> At(x, Seen(n)),
                                id |-> IF IsDir(x, Seen(n)) THEN x.at[Seen(n)] ELSE None]
<1>1. ASSUME NEW n \in Names
      PROVE  Sight(d, n) = Sight(s, n)
  <2>1. PICK p \in Paths : p = Seen(n)
    BY SeenFacts
  <2>2. CASE ~ Exists(s, p)
    BY <2>1, <2>2 DEF Like
  <2>3. CASE Exists(s, p)
    <3>1. Exists(d, p) /\ At(d, p) = At(s, p) /\ (IsDir(s, p) => d.at[p] = s.at[p])
      BY <2>3 DEF Like
    <3>2. IsDir(d, p) <=> IsDir(s, p)
      BY <2>3, <3>1 DEF IsDir
    <3> QED
      BY <2>1, <2>3, <3>1, <3>2
  <2> QED
    BY <2>2, <2>3
<1>2. View(d) = [n \in Names |-> Sight(d, n)] /\ View(s) = [n \in Names |-> Sight(s, n)]
  BY DEF View
<1> QED
  BY <1>1, <1>2

(* The catalog tells every change it was given, and vrevert follows it.     *)
IInv == Typed /\ Chained /\ Walking

(* vrevert on a directory, run where no directory has a catalog and left   *)
(* alone from its start to its end, with all it needs in the catalog and   *)
(* none of its nested calls setting $number, shows users the names,        *)
(* attributes and directories there were before the first of the entries   *)
(* it reverted; for any number of entries, where time_t has four bytes.    *)
THEOREM UndisturbedRevertRestores ==
  ASSUME Word = 4
  PROVE  Spec => []RevertRestoresNames
<1>1. Init => IInv
  <2>1. Init => Chained /\ Walking
    BY DEF Init, Chained, Walking
  <2> QED
    BY <2>1, TypedInit DEF IInv
<1>2. IInv /\ [Next]_vars => IInv'
  BY TypedNext, ChainedNext, WalkingNext DEF IInv
<1>3. IInv => RevertRestoresNames
  <2> SUFFICES ASSUME IInv, pc = "done", clean, ~ nested
               PROVE  View(dir) = View(stages[target])
    BY DEF RevertRestoresNames
  <2>1. Like(stages[target], dir)
    BY DEF IInv, Walking
  <2> QED
    BY <2>1, LikeView
<1> QED
  BY <1>1, <1>2, <1>3, PTL DEF Spec
=============================================================================
