------------------------------ MODULE SourceProofs ------------------------------
(***************************************************************************)
(* Theorems about SourceTree and SourceSnapshot, for every cap, any        *)
(* (finite) set of paths, files of any size, length and indentation.       *)
(*                                                                         *)
(* The tree: an archive is unpacked whole or refused, refused only when it *)
(* is over the cap, and never leaves more than the cap and a byte on disk. *)
(* The running total is what makes it inductive: while entries are read it *)
(* is what the archive has sent, within the cap, and no less than what is  *)
(* on disk (a second entry of a name takes the place of the first).        *)
(*                                                                         *)
(* The excerpts: in a file whose values it has rules for, the machine of   *)
(* source_snapshot.go hides every value the grammar of SourceSnapshot      *)
(* writes and nothing else.  Its invariant says that until a line comes    *)
(* that has none, the machine keeps step with the grammar: privateBlock is *)
(* set exactly inside a private key, openQuote exactly inside a quoted     *)
(* value, and blockIndent is that of the field whose block value the file  *)
(* is in; inside a raw value nothing is set but for a key.                 *)
(***************************************************************************)
EXTENDS SourceSnapshot, FoldTheorems

USE TreeAssumption, SnapshotAssumption

-------------------------------------------------------------------------------
(* The bytes of a tree                                                       *)

SizesOf(tree) == [n \in Names |-> IF tree[n] = Absent THEN 0 ELSE tree[n]]

(* TreeBytes is the sum of the sizes of the files *)
LEMMA BytesSum ==
  ASSUME NEW tree \in [Names -> Files]
  PROVE  \E f : TreeBytes(tree) = f[Names] /\ Sums(f, Names, SizesOf(tree))
<1> DEFINE E(g) == [s \in SUBSET Names |->
                      IF s = {} THEN 0
                      ELSE (IF tree[CHOOSE x \in s : TRUE] = Absent THEN 0
                            ELSE tree[CHOOSE x \in s : TRUE]) + g[s \ {CHOOSE x \in s : TRUE}]]
<1>1. PICK f : TreeBytes(tree) = f[Names] /\ f = CHOOSE g : g = E(g)
  BY DEF TreeBytes, MapThenSumSet, MapThenFoldSet
<1>2. \A g : E(g) = [s \in SUBSET Names |->
                      IF s = {} THEN 0 ELSE SizesOf(tree)[Chosen(s)] + g[s \ {Chosen(s)}]]
  <2>1. \A s \in SUBSET Names : s # {} => Chosen(s) \in Names
    BY ChosenIn
  <2>2. \A s \in SUBSET Names : s # {} =>
          SizesOf(tree)[Chosen(s)] = IF tree[Chosen(s)] = Absent THEN 0 ELSE tree[Chosen(s)]
    BY <2>1 DEF SizesOf
  <2>3. \A g : E(g) = [s \in SUBSET Names |->
                      IF s = {} THEN 0
                      ELSE (IF tree[Chosen(s)] = Absent THEN 0 ELSE tree[Chosen(s)])
                           + g[s \ {Chosen(s)}]]
    BY DEF Chosen
  <2> HIDE DEF E
  <2>4. ASSUME NEW g, NEW s \in SUBSET Names
        PROVE  (IF s = {} THEN 0 ELSE (IF tree[Chosen(s)] = Absent THEN 0 ELSE tree[Chosen(s)])
                                      + g[s \ {Chosen(s)}])
               = (IF s = {} THEN 0 ELSE SizesOf(tree)[Chosen(s)] + g[s \ {Chosen(s)}])
    BY <2>2
  <2>5. QED BY <2>3, <2>4
<1>3. \A g : g = E(g) <=> Sums(g, Names, SizesOf(tree))
  <2> HIDE DEF E
  <2>1. QED BY <1>2 DEF Sums
<1>4. SizesOf(tree) \in [Names -> Nat]
  BY DEF SizesOf, Files
<1>5. \E g : g = E(g)
  <2> HIDE DEF E
  <2>1. QED BY <1>3, <1>4, SumExists
<1>6. f = E(f)
  <2> HIDE DEF E
  <2>1. QED BY <1>1, <1>5
<1>7. Sums(f, Names, SizesOf(tree))
  <2> HIDE DEF E
  <2>1. QED BY <1>3, <1>6
<1>8. QED BY <1>1, <1>7

LEMMA BytesType == ASSUME NEW tree \in [Names -> Files] PROVE TreeBytes(tree) \in Nat
<1>1. PICK f : TreeBytes(tree) = f[Names] /\ Sums(f, Names, SizesOf(tree))
  BY BytesSum
<1>2. SizesOf(tree) \in [Names -> Nat]
  BY DEF SizesOf, Files
<1>3. QED BY <1>1, <1>2, SumType

(* A file written in a tree, in the place of another or not, adds its size at most *)
LEMMA BytesGrow ==
  ASSUME NEW tree \in [Names -> Files], NEW name \in Names, NEW k \in Nat
  PROVE  TreeBytes([tree EXCEPT ![name] = k]) <= TreeBytes(tree) + k
<1> DEFINE new == [tree EXCEPT ![name] = k]
<1>1. new \in [Names -> Files]
  BY DEF Files
<1>2. SizesOf(tree) \in [Names -> Nat] /\ SizesOf(new) \in [Names -> Nat]
  BY DEF SizesOf, Files
<1>3. SizesOf(new)[name] = k /\ \A n \in Names : n # name => SizesOf(new)[n] = SizesOf(tree)[n]
  BY DEF SizesOf
<1>4. PICK f : TreeBytes(tree) = f[Names] /\ Sums(f, Names, SizesOf(tree))
  BY BytesSum
<1> HIDE DEF new
<1>5. PICK h : TreeBytes(new) = h[Names] /\ Sums(h, Names, SizesOf(new))
  BY <1>1, BytesSum
<1>6. h[Names] <= f[Names] + SizesOf(new)[name]
  BY <1>2, <1>3, <1>4, <1>5, SumGrows
<1>7. QED BY <1>3, <1>4, <1>5, <1>6 DEF new

-------------------------------------------------------------------------------
(* The tree                                                                  *)

(* What holds at each place of the fetch *)
Reading == pc = "entries" =>
  kind = "archive" /\ disk = held /\ written = sent /\ written \in Nat /\ ~Over(written)

Begun == pc = "start" => disk = held /\ written = 0 /\ sent = 0

Cloning == pc \in {"cloned", "stripped"} => kind = "clone"

TreeInv == Reading /\ Begun /\ Cloning /\ DoneIsWhole /\ RefusedRightly

(* An entry that is cut short brings the total over the cap, by one byte, and  *)
(* what was sent as well.                                                    *)
LEMMA LimitLemma ==
  ASSUME written \in Nat, ~Over(written), NEW size \in Sizes
  PROVE  /\ written + Limit(size) \in Nat
         /\ ~Over(written + Limit(size)) => Limit(size) = size
         /\ Over(written + Limit(size)) => written + size > MaxBytes
BY DEF Limit, Over, Capped

LEMMA TreeInitInv == TreeInit => TreeInv
BY DEF TreeInit, TreeInv, Reading, Begun, Cloning, DoneIsWhole, RefusedRightly, Empty,
       Over, Capped

LEMMA FileEntryKeeps ==
  ASSUME TreeInv, NEW name \in Names, NEW size \in Sizes, FileEntry(name, size)
  PROVE  TreeInv'
<1>1. /\ kind = "archive" /\ disk = held /\ written = sent
      /\ written \in Nat /\ ~Over(written)
  BY DEF FileEntry, TreeInv, Reading
<1>2. /\ written + Limit(size) \in Nat
      /\ ~Over(written + Limit(size)) => Limit(size) = size
      /\ Over(written + Limit(size)) => written + size > MaxBytes
  BY <1>1, LimitLemma
<1>3. CASE Over(written + Limit(size))
  <2>1. pc' = "toolarge" /\ kind' = "archive" /\ sent' = written + size
    BY <1>1, <1>3 DEF FileEntry
  <2> QED
    BY <1>2, <1>3, <2>1 DEF TreeInv, Reading, Begun, Cloning, DoneIsWhole, RefusedRightly
<1>4. CASE ~Over(written + Limit(size))
  <2>1. /\ pc' = "entries" /\ kind' = "archive" /\ disk' = held'
        /\ written' = sent' /\ written' = written + Limit(size)
    BY <1>1, <1>2, <1>4 DEF FileEntry
  <2> QED
    BY <1>2, <1>4, <2>1
       DEF TreeInv, Reading, Begun, Cloning, DoneIsWhole, RefusedRightly, Over
<1> QED BY <1>3, <1>4

LEMMA MeasureKeeps == ASSUME TreeInv, Measure PROVE TreeInv'
<1>1. kind = "clone" BY DEF Measure, TreeInv, Cloning
<1>2. pc' = "toolarge" => TreeBytes(disk) > MaxBytes
  BY DEF Measure, Over
<1>3. TreeBytes(disk)' = TreeBytes(disk) BY DEF Measure
<1> QED
  BY <1>1, <1>2, <1>3
     DEF Measure, TreeInv, Reading, Begun, Cloning, DoneIsWhole, RefusedRightly

LEMMA TreeStepInv == TreeInv /\ [FetchTree]_treeVars => TreeInv'
<1> SUFFICES ASSUME TreeInv, [FetchTree]_treeVars PROVE TreeInv' OBVIOUS
<1> USE DEF TreeInv, Reading, Begun, Cloning, DoneIsWhole, RefusedRightly
<1>1. CASE OpenArchive BY <1>1 DEF OpenArchive, Over, Capped
<1>2. CASE EndArchive BY <1>2 DEF EndArchive
<1>3. ASSUME NEW name \in Names, NEW size \in Sizes, FileEntry(name, size) PROVE TreeInv'
  BY <1>3, FileEntryKeeps
<1>4. ASSUME NEW name \in Names, NEW size \in Sizes, BrokenEntry(name, size) PROVE TreeInv'
  BY <1>4 DEF BrokenEntry
<1>5. CASE Clone BY <1>5 DEF Clone
<1>6. CASE Strip BY <1>6 DEF Strip
<1>7. CASE Measure BY <1>7, MeasureKeeps
<1>8. CASE UNCHANGED treeVars BY <1>8 DEF treeVars, Over
<1> QED BY <1>1, <1>2, <1>3, <1>4, <1>5, <1>6, <1>7, <1>8 DEF FetchTree, Archive

LEMMA TreeInvariance == TreeSpec => []TreeInv
<1>1. TreeInit => TreeInv BY TreeInitInv
<1>2. TreeInv /\ [FetchTree]_treeVars => TreeInv' BY TreeStepInv
<1> QED BY <1>1, <1>2, PTL DEF TreeSpec

(* A tree that an archive leaves to be scanned holds every byte of every       *)
(* regular file of the archive: the cap truncates nothing in silence.         *)
THEOREM UnpackedWhole == TreeSpec => []DoneIsWhole
<1>1. TreeInv => DoneIsWhole BY DEF TreeInv
<1> QED BY <1>1, TreeInvariance, PTL

(* Nothing that fits the cap is refused for its size. *)
THEOREM RefusedOnlyOverCap == TreeSpec => []RefusedRightly
<1>1. TreeInv => RefusedRightly BY DEF TreeInv
<1> QED BY <1>1, TreeInvariance, PTL

(* What is on disk of an archive is no more than the running total, and that   *)
(* is over the cap by one byte at most.                                      *)
Sized ==
  /\ kind = "archive" /\ pc \in {"start", "entries", "done"} =>
       TreeBytes(disk) <= written /\ ~Over(written)
  /\ DiskBounded

(* What is handed over was measured, and a clone stripped *)
Meets ==
  /\ kind = "clone" /\ pc = "done" => ~Over(TreeBytes(disk))
  /\ kind = "clone" /\ pc \in {"stripped", "done"} => ~meta

SizeInv == TreeTypeOK /\ TreeInv /\ Sized /\ Meets

LEMMA EmptyBytes == TreeBytes(Empty) = 0
<1>1. Empty \in [Names -> Files] /\ SizesOf(Empty) = [n \in Names |-> 0]
  BY DEF Empty, Files, SizesOf
<1>2. PICK f : TreeBytes(Empty) = f[Names] /\ Sums(f, Names, [n \in Names |-> 0])
  BY <1>1, BytesSum
<1>3. f[Names] = 0
  BY <1>2, SumZero
<1>4. QED BY <1>2, <1>3

LEMMA SizeInitInv == TreeInit => SizeInv
<1> SUFFICES ASSUME TreeInit PROVE SizeInv
  OBVIOUS
<1>1. TreeTypeOK
  BY DEF TreeInit, TreeTypeOK, Empty, Files
<1>2. TreeBytes(disk) = 0
  BY EmptyBytes DEF TreeInit
<1>3. Sized /\ Meets
  BY <1>2 DEF TreeInit, Sized, Meets, DiskBounded, Over, Capped
<1>4. QED BY <1>1, <1>3, TreeInitInv DEF SizeInv

LEMMA LimitType ==
  ASSUME written \in Nat, ~Over(written), NEW size \in Sizes
  PROVE  /\ Limit(size) \in Nat /\ size \in Nat
         /\ Capped => written + Limit(size) <= MaxBytes + 1
BY DEF Limit, Over, Capped

LEMMA TreeTyped == TreeTypeOK /\ TreeInv /\ [FetchTree]_treeVars => TreeTypeOK'
<1> SUFFICES ASSUME TreeTypeOK, TreeInv, [FetchTree]_treeVars PROVE TreeTypeOK'
  OBVIOUS
<1> USE DEF TreeTypeOK, Ended, Files
<1>1. CASE OpenArchive BY <1>1 DEF OpenArchive
<1>2. CASE EndArchive BY <1>2 DEF EndArchive
<1>3. ASSUME NEW name \in Names, NEW size \in Sizes, FileEntry(name, size) PROVE TreeTypeOK'
  <2>1. Limit(size) \in Nat /\ size \in Nat
    BY <1>3, LimitType DEF FileEntry, TreeInv, Reading
  <2>2. meta' \in BOOLEAN
    BY <1>3 DEF FileEntry
  <2>3. QED BY <1>3, <2>1, <2>2 DEF FileEntry
<1>4. ASSUME NEW name \in Names, NEW size \in Sizes, BrokenEntry(name, size) PROVE TreeTypeOK'
  <2>1. Limit(size) \in Nat /\ size \in Nat
    BY <1>4, LimitType DEF BrokenEntry, TreeInv, Reading
  <2>2. PICK n \in 0 .. Limit(size) : disk' = [disk EXCEPT ![name] = n]
    BY <1>4 DEF BrokenEntry
  <2>3. disk' \in [Names -> Files]
    BY <2>1, <2>2
  <2>4. meta' \in BOOLEAN
    BY <1>4 DEF BrokenEntry
  <2>5. QED BY <1>4, <2>1, <2>3, <2>4 DEF BrokenEntry
<1>5. CASE Clone
  <2>1. disk' \in [Names -> Files]
    BY <1>5 DEF Clone
  <2>2. links' \in SUBSET Names
    BY <1>5 DEF Clone
  <2>3. QED BY <1>5, <2>1, <2>2 DEF Clone
<1>6. CASE Strip BY <1>6 DEF Strip
<1>7. CASE Measure BY <1>7 DEF Measure
<1>8. CASE UNCHANGED treeVars BY <1>8 DEF treeVars
<1>9. QED BY <1>1, <1>2, <1>3, <1>4, <1>5, <1>6, <1>7, <1>8 DEF FetchTree, Archive

LEMMA FileEntrySized ==
  ASSUME SizeInv, NEW name \in Names, NEW size \in Sizes, FileEntry(name, size)
  PROVE  Sized' /\ Meets'
<1>1. /\ pc = "entries" /\ kind = "archive" /\ kind' = kind
      /\ written \in Nat /\ ~Over(written) /\ disk \in [Names -> Files]
      /\ TreeBytes(disk) <= written
  BY DEF FileEntry, SizeInv, TreeInv, Reading, TreeTypeOK, Sized, Meets
<1>2. /\ Limit(size) \in Nat
      /\ Capped => written + Limit(size) <= MaxBytes + 1
  BY <1>1, LimitType
<1>3. disk' = [disk EXCEPT ![name] = Limit(size)] /\ written' = written + Limit(size)
      /\ pc' = IF Over(written') THEN "toolarge" ELSE "entries"
  BY DEF FileEntry
<1>4. disk' \in [Names -> Files]
  BY <1>1, <1>2, <1>3 DEF Files
<1>5. TreeBytes(disk) \in Nat /\ TreeBytes(disk') \in Nat
      /\ TreeBytes(disk') <= TreeBytes(disk) + Limit(size)
  BY <1>1, <1>2, <1>3, <1>4, BytesType, BytesGrow
<1>6. TreeBytes(disk') <= written'
  BY <1>1, <1>2, <1>3, <1>5
<1>7. Capped => TreeBytes(disk') <= MaxBytes + 1
  BY <1>1, <1>2, <1>3, <1>5
<1>8. QED BY <1>1, <1>3, <1>6, <1>7 DEF Sized, Meets, DiskBounded, Capped, Over

LEMMA BrokenEntrySized ==
  ASSUME SizeInv, NEW name \in Names, NEW size \in Sizes, BrokenEntry(name, size)
  PROVE  Sized' /\ Meets'
<1>1. /\ pc = "entries" /\ kind = "archive" /\ kind' = kind
      /\ written \in Nat /\ ~Over(written) /\ disk \in [Names -> Files]
      /\ TreeBytes(disk) <= written /\ pc' = "failed"
  BY DEF BrokenEntry, SizeInv, TreeInv, Reading, TreeTypeOK, Sized, Meets
<1>2. /\ Limit(size) \in Nat
      /\ Capped => written + Limit(size) <= MaxBytes + 1
  BY <1>1, LimitType
<1>3. PICK n \in 0 .. Limit(size) : disk' = [disk EXCEPT ![name] = n]
  BY DEF BrokenEntry
<1>4. n \in Nat /\ n <= Limit(size)
  BY <1>2
<1>5. disk' \in [Names -> Files]
  BY <1>1, <1>3, <1>4 DEF Files
<1>6. TreeBytes(disk) \in Nat /\ TreeBytes(disk') \in Nat
      /\ TreeBytes(disk') <= TreeBytes(disk) + n
  BY <1>1, <1>3, <1>4, <1>5, BytesType, BytesGrow
<1>7. Capped => TreeBytes(disk') <= MaxBytes + 1
  BY <1>1, <1>2, <1>4, <1>6
<1>8. QED BY <1>1, <1>7 DEF Sized, Meets, DiskBounded, Capped

LEMMA SizeStepInv == SizeInv /\ [FetchTree]_treeVars => SizeInv'
<1> SUFFICES ASSUME SizeInv, [FetchTree]_treeVars PROVE Sized' /\ Meets'
  BY TreeTyped, TreeStepInv DEF SizeInv
<1> USE DEF SizeInv, Sized, Meets, DiskBounded, TreeInv, Cloning
<1>0. TreeBytes(disk)' = TreeBytes(disk') /\ (disk' = disk => TreeBytes(disk') = TreeBytes(disk))
  OBVIOUS
<1>1. CASE OpenArchive BY <1>0, <1>1 DEF OpenArchive, Over, Capped
<1>2. CASE EndArchive
  <2>1. kind = "archive"
    BY <1>2 DEF EndArchive, Reading
  <2>2. QED BY <1>0, <1>2, <2>1 DEF EndArchive, Over, Capped
<1>3. ASSUME NEW name \in Names, NEW size \in Sizes, FileEntry(name, size) PROVE Sized' /\ Meets'
  BY <1>3, FileEntrySized
<1>4. ASSUME NEW name \in Names, NEW size \in Sizes, BrokenEntry(name, size) PROVE Sized' /\ Meets'
  BY <1>4, BrokenEntrySized
<1>5. CASE Clone BY <1>5 DEF Clone
<1>6. CASE Strip BY <1>6 DEF Strip
<1>7. CASE Measure BY <1>0, <1>7 DEF Measure, Over, Capped
<1>8. CASE UNCHANGED treeVars BY <1>0, <1>8 DEF treeVars, Over, Capped
<1>9. QED BY <1>1, <1>2, <1>3, <1>4, <1>5, <1>6, <1>7, <1>8 DEF FetchTree, Archive

LEMMA SizeInvariance == TreeSpec => []SizeInv
<1>1. TreeInit => SizeInv BY SizeInitInv
<1>2. SizeInv /\ [FetchTree]_treeVars => SizeInv' BY SizeStepInv
<1> QED BY <1>1, <1>2, PTL DEF TreeSpec

(* However an extraction ends, and however often an archive repeats a name, no *)
(* more than the cap and a byte is on disk.                                  *)
THEOREM DiskBoundedHolds == TreeSpec => []DiskBounded
<1>1. SizeInv => DiskBounded BY DEF SizeInv, Sized
<1> QED BY <1>1, SizeInvariance, PTL

(* The tree that is scanned meets the cap, an archive's and a clone's alike,   *)
(* and holds nothing of a clone's .git.                                      *)
THEOREM ScannedTreeMeetsHolds == TreeSpec => []ScannedTreeMeets
<1>1. SizeInv => ScannedTreeMeets
  <2> SUFFICES ASSUME SizeInv, pc = "done"
               PROVE  /\ Capped => TreeBytes(disk) <= MaxBytes
                      /\ kind = "clone" => ~meta
    BY DEF ScannedTreeMeets
  <2>1. TreeBytes(disk) \in Nat /\ written \in Nat /\ kind \in {"archive", "clone"}
    BY BytesType DEF SizeInv, TreeTypeOK
  <2>2. QED BY <2>1 DEF SizeInv, Sized, Meets, Over
<1> QED BY <1>1, SizeInvariance, PTL

-------------------------------------------------------------------------------
(* The excerpts                                                              *)

InStep ==
  /\ key <=> pem
  /\ form \in {"code", "quoted", "block", "raw"}
  /\ base \in Nat
  /\ ~unruled => /\ quote <=> form = "quoted"
                 /\ blockIndent = IF form = "block" THEN base ELSE -1

Boolean == /\ key \in BOOLEAN /\ quote \in BOOLEAN /\ pem \in BOOLEAN /\ unruled \in BOOLEAN

IInv == Boolean /\ InStep /\ (lost <=> blind) /\ 0 \notin located /\ ValuesHidden /\ CodeKept

LEMMA LineType ==
  ASSUME NEW l \in Lines
  PROVE  /\ l.blank \in BOOLEAN /\ l.cred \in BOOLEAN /\ l.closes \in BOOLEAN
         /\ l.begin \in BOOLEAN /\ l.end \in BOOLEAN
         /\ l.indent \in Nat
         /\ l.value \in {"none", "block", "open", "plain"}
         /\ l.blank => ~l.cred /\ ~l.begin /\ l.value = "none"
<1>1. CASE l = Blank BY <1>1 DEF Blank
<1>2. CASE l # Blank
  <2>1. l \in [blank : {FALSE}, indent : 0 .. MaxIndent, cred : BOOLEAN,
                value : {"none", "block", "open", "plain"}, closes : BOOLEAN,
                begin : BOOLEAN, end : BOOLEAN]
    BY <1>2 DEF Lines
  <2>2. l.blank = FALSE /\ l.indent \in 0 .. MaxIndent BY <2>1
  <2>3. l.cred \in BOOLEAN /\ l.closes \in BOOLEAN /\ l.begin \in BOOLEAN /\ l.end \in BOOLEAN
    BY <2>1
  <2>4. l.value \in {"none", "block", "open", "plain"} BY <2>1
  <2>5. l.indent \in Nat BY <2>2
  <2>6. l.blank \in BOOLEAN /\ ~l.blank BY <2>2
  <2> QED BY <2>3, <2>4, <2>5, <2>6, Zenon
<1> QED BY <1>1, <1>2

(* The locations the machine accepts are those of one or more lines of the file *)
LEMMA Placed ==
  ASSUME NEW f \in Locations, NEW lines \in Nat
  PROVE  ~Unplaced(f, lines) <=>
           (f.parsed /\ Located(f) # {} /\ Located(f) \subseteq 1 .. lines)
<1>0. f.line \in Nat /\ f.end \in Nat BY DEF Locations
<1>1. ASSUME ~Unplaced(f, lines)
      PROVE  f.parsed /\ Located(f) # {} /\ Located(f) \subseteq 1 .. lines
  <2>1. f.line \in Located(f) BY <1>0, <1>1 DEF Located, Unplaced
  <2>2. Located(f) \subseteq 1 .. lines BY <1>0, <1>1 DEF Located, Unplaced
  <2> QED BY <1>1, <2>1, <2>2 DEF Unplaced
<1>2. ASSUME f.parsed, Located(f) # {}, Located(f) \subseteq 1 .. lines
      PROVE  ~Unplaced(f, lines)
  <2>1. PICK n : n \in Located(f) BY <1>2
  <2>2. f.end = 0 \/ f.end >= f.line BY <1>0, <2>1 DEF Located
  <2>3. f.line \in Located(f) /\ (f.end = 0 \/ f.end \in Located(f))
    BY <1>0, <2>2 DEF Located
  <2> QED BY <1>0, <1>2, <2>2, <2>3 DEF Unplaced
<1> QED BY <1>1, <1>2

LEMMA SnapInitInv == Init => IInv
<1> SUFFICES ASSUME SnapInit PROVE IInv BY DEF Init
<1>1. Boolean /\ InStep BY DEF SnapInit, Boolean, InStep
<1>2. (lost <=> blind) /\ last.holds = "empty" /\ located = {} BY DEF SnapInit, Nothing
<1> QED BY <1>1, <1>2 DEF IInv, ValuesHidden, CodeKept

LEMMA FreshInv == ASSUME Fresh, lost' <=> blind', 0 \notin located' PROVE IInv'
BY DEF Fresh, IInv, Boolean, InStep, ValuesHidden, CodeKept, Nothing

LEMMA OpenFileInv == ASSUME NEW name \in Names, OpenFile(name) PROVE IInv'
<1>1. Fresh BY DEF OpenFile
<1>2. len' \in Nat BY DEF OpenFile
<1>3. ASSUME NEW f \in Locations, blind' = Unplaced(f, len'),
             lost' = ~(f.parsed /\ Located(f) # {} /\ Located(f) \subseteq 1 .. len')
      PROVE  lost' <=> blind'
  BY <1>2, <1>3, Placed
<1>4. lost' <=> blind' BY <1>3 DEF OpenFile
<1>5. ASSUME NEW f \in Locations, ~Unplaced(f, len') PROVE 0 \notin Located(f)
  BY <1>2, <1>5 DEF Locations, Located, Unplaced
<1>6. 0 \notin located' BY <1>5 DEF OpenFile
<1> QED BY <1>1, <1>4, <1>6, FreshInv

(* The machine and the grammar go on together *)
LEMMA ReadLineInStep ==
  ASSUME IInv, NEW l \in Lines, ReadLine(l)
  PROVE  Boolean' /\ InStep'
<1> USE DEF IInv, Boolean, InStep, ReadLine, Redact, InKey, InBlock, Tracks, Inside
<1>0. /\ l.blank \in BOOLEAN /\ l.cred \in BOOLEAN /\ l.closes \in BOOLEAN
      /\ l.begin \in BOOLEAN /\ l.end \in BOOLEAN
      /\ l.indent \in Nat
      /\ l.value \in {"none", "block", "open", "plain"}
      /\ l.blank => ~l.cred /\ ~l.begin /\ l.value = "none"
  BY LineType
<1>1. CASE Continues(l)
  <2>1. CASE form = "raw"
    BY <1>0, <1>1, <2>1 DEF Continues, Overlooked
  <2>2. CASE form # "raw"
    BY <1>0, <1>1, <2>2 DEF Continues
  <2> QED BY <2>1, <2>2
<1>2. CASE Starts(l)
  <2>1. ~key /\ (key' <=> pem') /\ Boolean' BY <1>0, <1>2 DEF Starts, StartsField, StartsSecret
  <2>2. form' \in {"code", "quoted", "block", "raw"} /\ base' \in Nat
    BY <1>0, <1>2 DEF Starts, StartsField, StartsSecret
  <2>3. ASSUME ~unruled'
        PROVE  (quote' <=> form' = "quoted") /\ blockIndent' = IF form' = "block" THEN base' ELSE -1
    <3>1. ~unruled /\ ~quote /\ ~InBlock(l)
      BY <1>0, <1>2, <2>3 DEF Starts, StartsField, StartsSecret
    <3>2. CASE StartsField(l)
      BY <1>0, <1>2, <2>1, <2>3, <3>1, <3>2 DEF Starts, StartsField
    <3>3. CASE StartsSecret(l)
      BY <1>0, <1>2, <2>1, <2>3, <3>1, <3>3 DEF Starts, StartsSecret
    <3> QED BY <1>2, <3>2, <3>3 DEF Starts
  <2> QED BY <2>1, <2>2, <2>3
<1>3. CASE Ordinary(l) BY <1>0, <1>3 DEF Ordinary
<1> QED BY <1>1, <1>2, <1>3

LEMMA ReadLineHides ==
  ASSUME IInv, NEW l \in Lines, ReadLine(l)
  PROVE  ValuesHidden' /\ CodeKept' /\ (lost' <=> blind') /\ 0 \notin located'
<1> USE DEF IInv, Boolean, InStep, InKey, InBlock, Inside
<1>0. /\ l.blank \in BOOLEAN /\ l.cred \in BOOLEAN
      /\ l.begin \in BOOLEAN /\ l.indent \in Nat
      /\ l.blank => ~l.cred /\ ~l.begin /\ l.value = "none"
  BY LineType
<1>1. PICK h \in Hides : last' = [holds |-> h, out |-> Output(l)]
  BY DEF ReadLine
<1>2. last'.holds = h /\ last'.out = Output(l) BY <1>1
<1>3. lost' = lost /\ blind' = blind /\ located' = located BY DEF ReadLine
<1>7. at' \in located' => last'.out # "kept"
  BY <1>2, <1>3 DEF ReadLine, Output, Sensitive
<1>4. CASE Continues(l)
  <2>1. last'.holds \in {"empty", "content"} /\ (last'.holds = "content" => ~l.blank)
    BY <1>0, <1>4 DEF Continues
  <2>2. ASSUME ~l.blank, ~unruled' PROVE Output(l) = "hidden"
    <3>1. CASE form = "raw"
      BY <1>0, <1>4, <2>2, <3>1 DEF Continues, Overlooked, Output
    <3>2. CASE form # "raw"
      BY <1>0, <1>4, <2>2, <3>2 DEF Continues, Output
    <3> QED BY <3>1, <3>2
  <2> QED BY <1>2, <1>3, <1>7, <2>1, <2>2 DEF ValuesHidden, CodeKept
<1>5. CASE Starts(l)
  <2>1. CASE StartsField(l)
    <3>1. Output(l) # "kept" /\ last'.holds = "field"
      BY <1>0, <2>1 DEF StartsField, Output
    <3> QED BY <1>2, <1>3, <1>7, <3>1 DEF ValuesHidden, CodeKept
  <2>2. CASE StartsSecret(l)
    <3>1. last'.holds = "content" BY <2>2 DEF StartsSecret
    <3>2. ASSUME ~unruled' PROVE Output(l) = "hidden"
      BY <1>0, <1>5, <2>2, <3>2 DEF StartsSecret, Output, Sensitive
    <3> QED BY <1>2, <1>3, <1>7, <3>1, <3>2 DEF ValuesHidden, CodeKept
  <2> QED BY <1>5, <2>1, <2>2 DEF Starts
<1>6. CASE Ordinary(l)
  BY <1>0, <1>2, <1>3, <1>6, <1>7 DEF Ordinary, Output, ValuesHidden, CodeKept
<1> QED BY <1>3, <1>4, <1>5, <1>6 DEF ReadLine

LEMMA SnapStepInv == IInv /\ [Next]_<<treeVars, snapVars>> => IInv'
<1> SUFFICES ASSUME IInv, [Next]_<<treeVars, snapVars>> PROVE IInv' OBVIOUS
<1>1. ASSUME NEW name \in Names, OpenFile(name) PROVE IInv'
  BY <1>1, OpenFileInv
<1>2. ASSUME NEW l \in Lines, ReadLine(l) PROVE IInv'
  BY <1>2, ReadLineInStep, ReadLineHides DEF IInv
<1>3. CASE CloseFile BY <1>3, FreshInv DEF CloseFile
<1>4. CASE NextFinding
  BY <1>4 DEF NextFinding, IInv, Boolean, InStep, ValuesHidden, CodeKept
<1>5. CASE UNCHANGED snapVars
  BY <1>5 DEF snapVars, IInv, Boolean, InStep, ValuesHidden, CodeKept
<1> QED BY <1>1, <1>2, <1>3, <1>4, <1>5 DEF Next, Attach

LEMMA SnapInvariance == Spec => []IInv
<1>1. Init => IInv BY SnapInitInv
<1>2. IInv /\ [Next]_<<treeVars, snapVars>> => IInv' BY SnapStepInv
<1> QED BY <1>1, <1>2, PTL DEF Spec

(* Of a field only the name is kept, and every line of a secret is hidden, in  *)
(* a file whose values are on their fields' lines, quoted, blocks, keys, or   *)
(* on sensitive lines none of which looks like an assignment: of any length,  *)
(* and in any order.  In any other file no located line is kept whole.        *)
THEOREM ValuesAreHidden == Spec => []ValuesHidden
<1>1. IInv => ValuesHidden BY DEF IInv
<1> QED BY <1>1, SnapInvariance, PTL

(* In such a file no line of code is hidden because of a value before it.     *)
THEOREM CodeIsKept == Spec => []CodeKept
<1>1. IInv => CodeKept BY DEF IInv
<1> QED BY <1>1, SnapInvariance, PTL

-------------------------------------------------------------------------------
(* Types, the window, and the tree below the excerpts                        *)

(* Making and storing excerpts leaves the tree alone. *)
THEOREM TreeUnderExcerpts == Spec => TreeSpec
<1>1. Init => TreeInit BY DEF Init
<1>2. [Next]_<<treeVars, snapVars>> => [FetchTree]_treeVars
  BY DEF Next
<1> QED BY <1>1, <1>2, PTL DEF Spec, TreeSpec

SnapTypes ==
  /\ spc \in {"off", "lines", "stored"}
  /\ len \in 0 .. MaxLines /\ highlight \in 0 .. len /\ at \in 0 .. len
  /\ located \in SUBSET (1 .. MaxLines + 1) /\ blind \in BOOLEAN
  /\ key \in BOOLEAN /\ quote \in BOOLEAN /\ blockIndent \in -1 .. MaxIndent
  /\ form \in {"code", "quoted", "block", "raw"} /\ base \in 0 .. MaxIndent
  /\ pem \in BOOLEAN /\ lost \in BOOLEAN /\ unruled \in BOOLEAN
  /\ last.holds \in Hides /\ last.out \in {"kept", "name", "hidden"}

(* The window is the one of the highlighted line, and unread lines are the rest *)
Placing ==
  /\ spc # "off" => highlight \in 1 .. len /\ window = Window(highlight, len)
  /\ spc # "lines" => at = 0

ShapeInv == SnapTypes /\ Placing

LEMMA FreshTypes ==
  ASSUME Fresh, len' \in Nat
  PROVE  /\ at' = 0 /\ at' \in 0 .. len'
         /\ key' \in BOOLEAN /\ quote' \in BOOLEAN /\ blockIndent' \in -1 .. MaxIndent
         /\ form' \in {"code", "quoted", "block", "raw"} /\ base' \in 0 .. MaxIndent
         /\ pem' \in BOOLEAN /\ unruled' \in BOOLEAN
         /\ last'.holds \in Hides /\ last'.out \in {"kept", "name", "hidden"}
<1>1. 0 \in 0 .. len' /\ -1 \in -1 .. MaxIndent /\ 0 \in 0 .. MaxIndent
  OBVIOUS
<1>2. last'.holds = "empty" /\ last'.out = "kept"
  BY DEF Fresh, Nothing
<1>3. /\ at' = 0 /\ key' = FALSE /\ quote' = FALSE /\ pem' = FALSE /\ unruled' = FALSE
      /\ blockIndent' = -1 /\ form' = "code" /\ base' = 0
  BY DEF Fresh
<1>4. QED BY <1>1, <1>2, <1>3, Zenon DEF Hides

LEMMA OpenFileShape == ASSUME NEW name \in Names, OpenFile(name) PROVE ShapeInv'
<1>1. /\ Fresh /\ spc' = "lines" /\ len' \in 1 .. MaxLines
      /\ highlight' \in 1 .. len' /\ window' = Window(highlight', len')
  BY DEF OpenFile
<1>2. located' \in SUBSET (1 .. MaxLines + 1) /\ blind' \in BOOLEAN /\ lost' \in BOOLEAN
  <2>1. CASE located' = {} /\ blind' = FALSE /\ lost' = FALSE BY <2>1
  <2>2. ASSUME NEW f \in Locations, blind' = Unplaced(f, len'),
               located' = (IF blind' THEN {} ELSE Located(f)),
               lost' = ~(f.parsed /\ Located(f) # {} /\ Located(f) \subseteq 1 .. len')
        PROVE  located' \in SUBSET (1 .. MaxLines + 1) /\ blind' \in BOOLEAN /\ lost' \in BOOLEAN
    <3>1. ~Unplaced(f, len') => Located(f) \subseteq 1 .. len'
      BY <1>1, Placed
    <3>2. 1 .. len' \subseteq 1 .. MaxLines + 1
      BY <1>1
    <3>3. located' \in SUBSET (1 .. MaxLines + 1)
      BY <2>2, <3>1, <3>2
    <3>4. blind' \in BOOLEAN
      BY <2>2 DEF Unplaced
    <3>5. QED BY <2>2, <3>3, <3>4
  <2>3. QED BY <2>1, <2>2 DEF OpenFile
<1>3. SnapTypes'
  BY <1>1, <1>2, FreshTypes DEF SnapTypes
<1>4. QED BY <1>1, <1>3 DEF ShapeInv, Placing

LEMMA ReadLineShape == ASSUME ShapeInv, NEW l \in Lines, ReadLine(l) PROVE ShapeInv'
<1>0. l.indent \in 0 .. MaxIndent /\ l.blank \in BOOLEAN
  <2>1. CASE l = Blank BY <2>1 DEF Blank
  <2>2. CASE l # Blank
    <3>1. l \in [blank : {FALSE}, indent : 0 .. MaxIndent, cred : BOOLEAN,
                 value : {"none", "block", "open", "plain"}, closes : BOOLEAN,
                 begin : BOOLEAN, end : BOOLEAN]
      BY <2>2 DEF Lines
    <3>2. QED BY <3>1
  <2>3. QED BY <2>1, <2>2
<1>1. l.closes \in BOOLEAN /\ l.begin \in BOOLEAN /\ l.end \in BOOLEAN /\ l.cred \in BOOLEAN
  BY LineType
<1>2. /\ spc' = spc /\ len' = len /\ highlight' = highlight /\ window' = window
      /\ located' = located /\ blind' = blind /\ lost' = lost
      /\ spc = "lines" /\ at < len /\ at' = at + 1
  BY DEF ReadLine
<1>3. at' \in 0 .. len'
  BY <1>2 DEF ShapeInv, SnapTypes
<1>4. key' \in BOOLEAN /\ quote' \in BOOLEAN
  BY DEF ReadLine, Redact
<1>5. blockIndent' \in -1 .. MaxIndent
  BY <1>0 DEF ReadLine, Redact, ShapeInv, SnapTypes
<1>6. last'.holds \in Hides /\ last'.out \in {"kept", "name", "hidden"}
  <2>1. PICK h \in Hides : last' = [holds |-> h, out |-> Output(l)]
    BY DEF ReadLine
  <2>2. Output(l) \in {"kept", "name", "hidden"}
    BY DEF Output
  <2>3. QED BY <2>1, <2>2
<1>7. /\ form' \in {"code", "quoted", "block", "raw"} /\ base' \in 0 .. MaxIndent
      /\ pem' \in BOOLEAN /\ unruled' \in BOOLEAN
  <2>1. CASE Continues(l) BY <2>1 DEF Continues, ShapeInv, SnapTypes
  <2>2. CASE Starts(l)
    <3>1. base' \in 0 .. MaxIndent
      BY <1>0, <2>2 DEF Starts
    <3>2. pem' \in BOOLEAN /\ unruled' \in BOOLEAN
      BY <2>2 DEF Starts, StartsField, StartsSecret
    <3>3. form' \in {"code", "quoted", "block", "raw"}
      <4>1. l.value \in {"none", "block", "open", "plain"}
        BY LineType
      <4>2. CASE StartsField(l)
        BY <4>1, <4>2 DEF StartsField
      <4>3. CASE StartsSecret(l)
        BY <4>3 DEF StartsSecret
      <4> QED BY <2>2, <4>2, <4>3 DEF Starts
    <3> QED BY <3>1, <3>2, <3>3
  <2>3. CASE Ordinary(l)
    <3>1. form' = "code" /\ base' = 0 /\ pem' = FALSE /\ unruled' \in BOOLEAN
      BY <2>3 DEF Ordinary, ShapeInv, SnapTypes
    <3>2. 0 \in 0 .. MaxIndent
      OBVIOUS
    <3>3. QED BY <3>1, <3>2, Zenon
  <2>4. QED BY <2>1, <2>2, <2>3 DEF ReadLine
<1>8. QED BY <1>2, <1>3, <1>4, <1>5, <1>6, <1>7 DEF ShapeInv, SnapTypes, Placing

LEMMA ShapeInitInv == Init => ShapeInv
<1> SUFFICES ASSUME SnapInit PROVE ShapeInv
  BY DEF Init
<1>1. 0 \in 0 .. MaxLines /\ 0 \in 0 .. 0 /\ -1 \in -1 .. MaxIndent /\ 0 \in 0 .. MaxIndent
  OBVIOUS
<1>2. last.holds = "empty" /\ last.out = "kept"
  BY DEF SnapInit, Nothing
<1>3. SnapTypes
  BY <1>1, <1>2, Zenon DEF SnapInit, SnapTypes, Hides
<1>4. QED BY <1>3 DEF SnapInit, ShapeInv, Placing

LEMMA ShapeStepInv == ShapeInv /\ [Next]_<<treeVars, snapVars>> => ShapeInv'
<1> SUFFICES ASSUME ShapeInv, [Next]_<<treeVars, snapVars>> PROVE ShapeInv'
  OBVIOUS
<1>1. ASSUME NEW name \in Names, OpenFile(name) PROVE ShapeInv'
  BY <1>1, OpenFileShape
<1>2. ASSUME NEW l \in Lines, ReadLine(l) PROVE ShapeInv'
  BY <1>2, ReadLineShape
<1>3. CASE CloseFile
  <2>1. Fresh /\ located' = {} /\ blind' = FALSE /\ lost' = FALSE /\ spc' \in {"stored", "off"}
    BY <1>3 DEF CloseFile
  <2>2. \/ spc' = "stored" /\ len' = len /\ highlight' = highlight /\ window' = window
        \/ spc' = "off" /\ len' = 0 /\ highlight' = 0
    BY <1>3 DEF CloseFile
  <2>3. len' \in 0 .. MaxLines /\ highlight' \in 0 .. len'
    BY <2>2 DEF ShapeInv, SnapTypes
  <2>4. SnapTypes'
    <3>1. len' \in Nat
      BY <2>3
    <3>2. blind' \in BOOLEAN /\ lost' \in BOOLEAN /\ located' \in SUBSET (1 .. MaxLines + 1)
      BY <2>1
    <3>3. spc' \in {"off", "lines", "stored"}
      BY <2>1
    <3>4. QED BY <2>1, <2>3, <3>1, <3>2, <3>3, FreshTypes, Zenon DEF SnapTypes
  <2>5. Placing'
    BY <1>3, <2>1, <2>2, <2>3, FreshTypes DEF CloseFile, Placing, ShapeInv
  <2>6. QED BY <2>4, <2>5 DEF ShapeInv
<1>4. CASE NextFinding
  BY <1>4 DEF NextFinding, ShapeInv, SnapTypes, Placing
<1>5. CASE UNCHANGED snapVars
  BY <1>5 DEF snapVars, ShapeInv, SnapTypes, Placing
<1> QED BY <1>1, <1>2, <1>3, <1>4, <1>5 DEF Next, Attach

LEMMA ShapeInvariance == Spec => []ShapeInv
<1>1. Init => ShapeInv BY ShapeInitInv
<1>2. ShapeInv /\ [Next]_<<treeVars, snapVars>> => ShapeInv' BY ShapeStepInv
<1> QED BY <1>1, <1>2, PTL DEF Spec

(* Every variable of the tree and of the excerpts keeps its type. *)
THEOREM SnapTyping == Spec => []SnapTypeOK
<1>1. SizeInv /\ ShapeInv => SnapTypeOK
  BY DEF SizeInv, ShapeInv, SnapTypes, SnapTypeOK
<1> QED BY <1>1, TreeUnderExcerpts, SizeInvariance, ShapeInvariance, PTL

(* The excerpt is every line of the file within Radius of the highlighted one. *)
THEOREM WindowAroundHolds == Spec => []WindowAround
<1>1. ShapeInv => WindowAround
  <2> SUFFICES ASSUME ShapeInv, spc # "off"
               PROVE  (window[1] + 1) .. window[2] =
                        {n \in 1 .. len : n - highlight \in -Radius .. Radius}
    BY DEF WindowAround
  <2>1. len \in Nat /\ highlight \in 1 .. len /\ window = Window(highlight, len)
    BY DEF ShapeInv, SnapTypes, Placing
  <2>2. /\ window[1] = IF highlight - (Radius + 1) < 0 THEN 0 ELSE highlight - (Radius + 1)
        /\ window[2] = IF highlight + Radius > len THEN len ELSE highlight + Radius
    BY <2>1 DEF Window
  <2>3. QED BY <2>1, <2>2
<1> QED BY <1>1, ShapeInvariance, PTL
===============================================================================
