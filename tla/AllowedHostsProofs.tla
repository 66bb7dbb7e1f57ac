--------------------------- MODULE AllowedHostsProofs ---------------------------
(***************************************************************************)
(* Theorems about AllowedHosts, for any hosts, any number of editors and   *)
(* texts of any length.  What editors do to each other's saves holds       *)
(* whatever Parse does (Inv).  What a save lets in does not: ParseSteps    *)
(* and MergeSteps unfold the folds, and Parsed, ParsedAgain and Merged say *)
(* what they compute, by induction on the entries.                         *)
(***************************************************************************)
EXTENDS AllowedHosts, FoldTheorems, SequenceTheorems, TLAPS

-------------------------------------------------------------------------------
(* Lists of hosts                                                            *)

Entries == Hosts \cup Urls \cup {Nothing, Bad}

(* A list that names no host twice *)
Distinct(list) == \A i, j \in 1 .. Len(list) : list[i] = list[j] => i = j

HostLists == {list \in Seq(Hosts) : Distinct(list)}

LEMMA Kinds ==
  /\ Careful \subseteq Editors
  /\ IsFiniteSet(Hosts) /\ Base \in Seq(Hosts)
  /\ Typed \subseteq Seq(Entries)
  /\ Hosts \cap Urls = {} /\ Nothing \notin Hosts \cup Urls
  /\ None \notin Hosts /\ None \notin Seq(Hosts)
BY HostsAssumption DEF HostsAssumption, Entries

LEMMA NoneIsNoList == None \notin HostLists
BY Kinds DEF HostLists

LEMMA AddHost ==
  ASSUME NEW list \in HostLists, NEW h \in Hosts
  PROVE  /\ Add(list, h) \in HostLists
         /\ ToSet(Add(list, h)) = ToSet(list) \cup {h}
<1>1. list \in Seq(Hosts) /\ Distinct(list)
  BY DEF HostLists
<1>2. CASE h \in ToSet(list)
  BY <1>2 DEF Add
<1>3. CASE h \notin ToSet(list)
  <2> DEFINE new == Append(list, h)
  <2>1. Add(list, h) = new
    BY <1>3 DEF Add
  <2>2. /\ new \in Seq(Hosts) /\ Len(new) = Len(list) + 1 /\ Len(list) \in Nat
        /\ \A i \in 1 .. Len(list) : new[i] = list[i]
        /\ new[Len(list) + 1] = h
    BY <1>1, AppendProperties
  <2>3. \A i \in 1 .. Len(list) : list[i] # h
    BY <1>1, <1>3 DEF ToSet
  <2> HIDE DEF new
  <2>4. \A i \in 1 .. Len(list) + 1 : i = Len(list) + 1 \/ i \in 1 .. Len(list)
    BY <2>2
  <2>5. Distinct(new)
    BY <1>1, <2>2, <2>3, <2>4 DEF Distinct
  <2>6. DOMAIN new = 1 .. Len(list) + 1 /\ DOMAIN list = 1 .. Len(list)
    BY <1>1, <2>2
  <2>7. ToSet(new) = ToSet(list) \cup {h}
    BY <2>2, <2>4, <2>6 DEF ToSet
  <2>8. QED BY <2>1, <2>2, <2>5, <2>7 DEF HostLists
<1>4. QED BY <1>2, <1>3

(* NormalizeHost gives a host, or None for what is not one *)
LEMMA Normalized ==
  ASSUME NEW entry
  PROVE  /\ NormalizeHost(entry) \in Hosts \cup {None}
         /\ entry \in Hosts => NormalizeHost(entry) = entry
         /\ entry \in Urls /\ NormalizeHost(entry) # None =>
              Clean(entry) /\ NormalizeHost(entry) = entry.host
         /\ NormalizeHost(entry) # None => entry \in Hosts \cup Urls
BY Kinds DEF NormalizeHost

-------------------------------------------------------------------------------
(* What Parse makes of a text                                                *)

(* What a fold makes of a list and the i-th entry *)
Took(list, entry) ==
  IF list = None \/ entry = Nothing THEN list
  ELSE IF NormalizeHost(entry) = None THEN None
  ELSE Add(list, NormalizeHost(entry))

LEMMA TookType ==
  ASSUME NEW list \in HostLists \cup {None}, NEW entry
  PROVE  Took(list, entry) \in HostLists \cup {None}
<1>1. NormalizeHost(entry) \in Hosts \cup {None}
  BY Normalized
<1>2. CASE list # None /\ NormalizeHost(entry) # None
  BY <1>1, <1>2, AddHost DEF Took
<1>3. CASE list = None \/ NormalizeHost(entry) = None
  BY <1>3 DEF Took
<1>4. QED BY <1>2, <1>3

(* The lists Parse goes through: r[k] is what it has after k entries *)
LEMMA ParseSteps ==
  ASSUME NEW text, NEW n \in Nat, DOMAIN text = 1 .. n
  PROVE  \E r : /\ r[0] = <<>> /\ r[n] = Parse(text)
                /\ \A k \in Nat : k < n => r[k + 1] = Took(r[k], text[k + 1])
<1> DEFINE A == HostLists \cup {None}
           G == [p \in (1 .. n) \X A |-> Took(p[2], text[p[1]])]
           E(g) == [s \in SUBSET (1 .. n) |->
                      IF s = {} THEN <<>> ELSE Took(g[s \ {Top(s)}], text[Top(s)])]
<1>1. PICK f : Parse(text) = f[1 .. n] /\ f = CHOOSE g : g = E(g)
  <2>1. QED BY Zenon DEF Parse, FoldLeft, MapThenFoldSet, Max, Top, Took
<1>2. <<>> \in A
  BY DEF HostLists, Distinct
<1>3. G \in [(1 .. n) \X A -> A] /\ \A i \in 1 .. n, a \in A : G[<<i, a>>] = Took(a, text[i])
  <2>1. \A p \in (1 .. n) \X A : Took(p[2], text[p[1]]) \in A
    BY TookType
  <2> HIDE DEF A
  <2>2. QED BY <2>1
<1>4. PICK h \in [SUBSET (1 .. n) -> A] : LeftFold(h, n, <<>>, G)
  <2> HIDE DEF A, G
  <2>1. QED BY <1>2, <1>3, LeftFoldExists
<1>5. h = E(h)
  <2>1. ASSUME NEW s \in SUBSET (1 .. n), s # {}
        PROVE  h[s] = Took(h[s \ {Top(s)}], text[Top(s)])
    <3>1. Top(s) \in 1 .. n
      BY <2>1, TopIn
    <3>2. h[s] = G[<<Top(s), h[s \ {Top(s)}]>>]
      BY <1>4, <2>1 DEF LeftFold
    <3> HIDE DEF G, A
    <3>3. h[s \ {Top(s)}] \in A
      OBVIOUS
    <3>4. QED BY <1>3, <3>1, <3>2, <3>3
  <2>2. h[{}] = <<>>
    BY <1>4 DEF LeftFold
  <2> HIDE DEF G, A
  <2>3. QED BY <2>1, <2>2
<1>6. f = E(f)
  <2> HIDE DEF E
  <2>1. QED BY <1>1, <1>5
<1> DEFINE r == [k \in Nat |-> f[1 .. k]]
<1>7. r[0] = <<>> /\ r[n] = Parse(text)
  <2>1. 1 .. 0 = {} /\ {} \in SUBSET (1 .. n)
    OBVIOUS
  <2>2. f[1 .. 0] = <<>>
    BY <1>6, <2>1
  <2>3. QED BY <1>1, <2>2
<1>8. ASSUME NEW k \in Nat, k < n PROVE r[k + 1] = Took(r[k], text[k + 1])
  <2>1. 1 .. k + 1 \in SUBSET (1 .. n) /\ 1 .. k + 1 # {} /\ (1 .. k + 1) \ {k + 1} = 1 .. k
    BY <1>8, IntervalLess
  <2>2. Top(1 .. k + 1) = k + 1
    BY TopOfInterval
  <2>3. f[1 .. k + 1] = Took(f[1 .. k], text[k + 1])
    BY <1>6, <2>1, <2>2
  <2>4. QED BY <2>3
<1>9. QED BY <1>7, <1>8

(* What is parsed names the host of every entry, once, and nothing else; or an *)
(* entry is no host.                                                         *)
LEMMA Parsed ==
  ASSUME NEW S, NEW text \in Seq(S), Parse(text) # None
  PROVE  /\ Parse(text) \in HostLists
         /\ \A h \in ToSet(Parse(text)) :
              \E entry \in ToSet(text) : entry # Nothing /\ NormalizeHost(entry) = h
         /\ \A entry \in ToSet(text) : entry # Nothing =>
              NormalizeHost(entry) # None /\ NormalizeHost(entry) \in ToSet(Parse(text))
<1> DEFINE n == Len(text)
<1>1. n \in Nat /\ DOMAIN text = 1 .. n
  OBVIOUS
<1> HIDE DEF n
<1>2. PICK r : /\ r[0] = <<>> /\ r[n] = Parse(text)
               /\ \A k \in Nat : k < n => r[k + 1] = Took(r[k], text[k + 1])
  BY <1>1, ParseSteps
<1> DEFINE Whole(k) ==
             /\ r[k] \in HostLists
             /\ \A h \in ToSet(r[k]) :
                  \E i \in 1 .. k : text[i] # Nothing /\ NormalizeHost(text[i]) = h
             /\ \A i \in 1 .. k : text[i] # Nothing =>
                  NormalizeHost(text[i]) # None /\ NormalizeHost(text[i]) \in ToSet(r[k])
           P == {k \in Nat : r[k] = None \/ Whole(k)}
<1>3. 0 \in P
  <2>1. ToSet(<<>>) = {} /\ <<>> \in HostLists
    BY DEF ToSet, HostLists, Distinct
  <2>2. QED BY <1>2, <2>1
<1>4. ASSUME NEW k \in Nat, k < n, k \in P PROVE k + 1 \in P
  <2> DEFINE entry == text[k + 1]
             h == NormalizeHost(entry)
  <2>1. r[k + 1] = Took(r[k], entry)
    BY <1>2, <1>4
  <2>2. CASE r[k] = None \/ (entry # Nothing /\ h = None)
    <3>1. r[k + 1] = None
      BY <2>1, <2>2 DEF Took
    <3>2. QED BY <3>1
  <2>3. CASE r[k] # None /\ ~(entry # Nothing /\ h = None)
    <3>1. Whole(k)
      BY <1>4, <2>3
    <3>2. \A i \in 1 .. k + 1 : i \in 1 .. k \/ i = k + 1
      OBVIOUS
    <3>3. \A i \in 1 .. k : i \in 1 .. k + 1
      OBVIOUS
    <3>4. k + 1 \in 1 .. k + 1
      OBVIOUS
    <3>5. CASE entry = Nothing
      <4>1. r[k + 1] = r[k]
        BY <2>1, <3>5 DEF Took
      <4>2. Whole(k + 1)
        BY <3>1, <3>2, <3>3, <3>5, <4>1
      <4>3. QED BY <4>2
    <3>6. CASE entry # Nothing
      <4>1. h \in Hosts /\ h # None
        BY <2>3, <3>6, Normalized
      <4>2. r[k + 1] = Add(r[k], h)
        BY <2>1, <2>3, <3>6 DEF Took
      <4>3. r[k + 1] \in HostLists /\ ToSet(r[k + 1]) = ToSet(r[k]) \cup {h}
        BY <3>1, <4>1, <4>2, AddHost
      <4> HIDE DEF h
      <4>4. \A g \in ToSet(r[k + 1]) :
              \E i \in 1 .. k + 1 : text[i] # Nothing /\ NormalizeHost(text[i]) = g
        BY <3>1, <3>3, <3>4, <3>6, <4>3 DEF h
      <4>5. \A i \in 1 .. k + 1 : text[i] # Nothing =>
              NormalizeHost(text[i]) # None /\ NormalizeHost(text[i]) \in ToSet(r[k + 1])
        BY <3>1, <3>2, <4>1, <4>3 DEF h
      <4>6. Whole(k + 1)
        BY <4>3, <4>4, <4>5
      <4>7. QED BY <4>6
    <3>7. QED BY <3>5, <3>6
  <2>4. QED BY <2>2, <2>3
<1>5. n \in P
  <2> HIDE DEF P
  <2>1. QED BY <1>1, <1>3, <1>4, InductionUpTo
<1>6. Whole(n) /\ r[n] = Parse(text)
  BY <1>2, <1>5
<1>7. ToSet(text) = {text[i] : i \in 1 .. n}
  BY <1>1 DEF ToSet
<1>8. QED BY <1>6, <1>7

(* A list that was parsed once is parsed as it is *)
LEMMA ParsedAgain == ASSUME NEW list \in HostLists PROVE Parse(list) = list
<1> DEFINE n == Len(list)
<1>1. n \in Nat /\ DOMAIN list = 1 .. n /\ list \in Seq(Hosts) /\ Distinct(list)
  BY DEF HostLists
<1>2. \A i \in 1 .. n : list[i] \in Hosts
  BY <1>1
<1> HIDE DEF n
<1>3. PICK r : /\ r[0] = <<>> /\ r[n] = Parse(list)
               /\ \A k \in Nat : k < n => r[k + 1] = Took(r[k], list[k + 1])
  BY <1>1, ParseSteps
<1> DEFINE First(k) == [i \in 1 .. k |-> list[i]]
           P == {k \in Nat : r[k] = First(k)}
<1>4. 0 \in P
  <2>1. First(0) = <<>>
    OBVIOUS
  <2>2. QED BY <1>3, <2>1
<1>5. ASSUME NEW k \in Nat, k < n, k \in P PROVE k + 1 \in P
  <2>1. r[k + 1] = Took(First(k), list[k + 1])
    BY <1>3, <1>5
  <2>2. list[k + 1] \in Hosts /\ list[k + 1] # Nothing /\ list[k + 1] # None
    BY <1>1, <1>2, <1>5, Kinds
  <2>3. First(k) \in Seq(Hosts) /\ Len(First(k)) = k /\ DOMAIN First(k) = 1 .. k
    <3>1. First(k) \in [1 .. k -> Hosts]
      BY <1>1, <1>2, <1>5
    <3>2. QED BY <3>1
  <2>4. First(k) # None
    BY <2>3, Kinds
  <2>5. list[k + 1] \notin ToSet(First(k))
    <3>1. \A i \in 1 .. k : list[i] # list[k + 1]
      BY <1>1, <1>5 DEF Distinct, n
    <3>2. QED BY <2>3, <3>1 DEF ToSet
  <2>6. NormalizeHost(list[k + 1]) = list[k + 1]
    BY <2>2, Normalized
  <2>7. r[k + 1] = Append(First(k), list[k + 1])
    BY <2>1, <2>2, <2>4, <2>5, <2>6 DEF Took, Add
  <2>8. Append(First(k), list[k + 1]) = First(k + 1)
    <3>1. First(k + 1) \in [1 .. k + 1 -> Hosts]
      BY <1>1, <1>2, <1>5
    <3>2. First(k + 1) \in Seq(Hosts) /\ Len(First(k + 1)) = k + 1
      BY <3>1
    <3> DEFINE new == Append(First(k), list[k + 1])
    <3>3. /\ new \in Seq(Hosts) /\ Len(new) = k + 1
          /\ \A i \in 1 .. k : new[i] = First(k)[i]
          /\ new[k + 1] = list[k + 1]
      BY <2>2, <2>3, AppendProperties
    <3>4. \A i \in 1 .. k + 1 : new[i] = First(k + 1)[i]
      <4> HIDE DEF new
      <4>1. \A i \in 1 .. k + 1 : i \in 1 .. k \/ i = k + 1
        OBVIOUS
      <4>2. QED BY <3>3, <4>1
    <3> HIDE DEF new, First
    <3>5. new = First(k + 1)
      BY <3>2, <3>3, <3>4, SeqEqual
    <3>6. QED BY <3>5 DEF new
  <2>9. QED BY <2>7, <2>8
<1>6. n \in P
  <2> HIDE DEF P
  <2>1. QED BY <1>1, <1>4, <1>5, InductionUpTo
<1>7. First(n) = list
  BY <1>1
<1>8. QED BY <1>3, <1>6, <1>7

-------------------------------------------------------------------------------
(* What MergeAllowedHosts makes of two lists                                 *)

LEMMA Flattened ==
  ASSUME NEW s \in Seq(Hosts), NEW t \in Seq(Hosts)
  PROVE  FlattenSeq(<<s, t>>) = s \o t
<1>1. PICK l : l = <<s, t>>
  OBVIOUS
<1>2. Len(l) = 2 /\ l[1] = s /\ l[2] = t
  BY <1>1
<1> DEFINE E(g) == [i \in 1 .. Len(l) |-> IF i = 1 THEN l[i] ELSE g[i - 1] \o l[i]]
           w == [i \in 1 .. 2 |-> IF i = 1 THEN s ELSE s \o t]
<1>3. PICK f : FlattenSeq(l) = f[Len(l)] /\ f = CHOOSE g : g = E(g)
  <2>1. Len(l) # 0
    BY <1>2
  <2>2. QED BY <2>1, FlattenUnfolds
<1>4. w = E(w)
  <2>1. w[1] = s /\ DOMAIN w = 1 .. 2
    OBVIOUS
  <2>2. \A i \in 1 .. 2 : i = 1 \/ (i = 2 /\ i - 1 = 1)
    OBVIOUS
  <2>3. \A i \in 1 .. 2 : w[i] = IF i = 1 THEN l[i] ELSE w[i - 1] \o l[i]
    BY <1>2, <2>1, <2>2
  <2>4. w = [i \in 1 .. 2 |-> w[i]]
    OBVIOUS
  <2> HIDE DEF w
  <2>5. QED BY <1>2, <2>3, <2>4
<1>5. f = E(f)
  <2> HIDE DEF E
  <2>1. QED BY <1>3, <1>4
<1>6. \A i \in 1 .. 2 : f[i] = IF i = 1 THEN l[i] ELSE f[i - 1] \o l[i]
  BY <1>2, <1>5
<1>7. f[1] = s /\ f[2] = f[1] \o t
  <2>1. 1 \in 1 .. 2 /\ 2 \in 1 .. 2 /\ 2 # 1 /\ 2 - 1 = 1
    OBVIOUS
  <2> HIDE DEF E, w
  <2>2. f[1] = l[1] /\ f[2] = f[2 - 1] \o l[2]
    BY <1>6, <2>1
  <2>3. QED BY <1>2, <2>1, <2>2
<1>8. FlattenSeq(l) = f[1] \o t
  BY <1>2, <1>3, <1>7
<1>9. QED BY <1>1, <1>7, <1>8

LEMMA MergeUnfolds ==
  ASSUME NEW lists
  PROVE  \E f : /\ MergeAllowedHosts(lists) = f[DOMAIN FlattenSeq(lists)]
                /\ f = CHOOSE g : g = [s \in SUBSET DOMAIN FlattenSeq(lists) |->
                         IF s = {} THEN <<>>
                         ELSE Add(g[s \ {Top(s)}], FlattenSeq(lists)[Top(s)])]
BY Zenon DEF MergeAllowedHosts, FoldLeft, MapThenFoldSet, Max, Top

LEMMA MergeSteps ==
  ASSUME NEW lists, FlattenSeq(lists) \in Seq(Hosts), NEW n \in Nat, n = Len(FlattenSeq(lists))
  PROVE  \E r : /\ r[0] = <<>> /\ r[n] = MergeAllowedHosts(lists)
                /\ \A k \in Nat : k < n => r[k + 1] = Add(r[k], FlattenSeq(lists)[k + 1])
<1> DEFINE text == FlattenSeq(lists)
           G == [p \in (1 .. n) \X HostLists |-> Add(p[2], text[p[1]])]
           E(g) == [s \in SUBSET DOMAIN text |->
                      IF s = {} THEN <<>> ELSE Add(g[s \ {Top(s)}], text[Top(s)])]
<1>0. DOMAIN text = 1 .. n /\ \A i \in 1 .. n : text[i] \in Hosts
  OBVIOUS
<1>1. PICK f : MergeAllowedHosts(lists) = f[DOMAIN text] /\ f = CHOOSE g : g = E(g)
  BY MergeUnfolds
<1> HIDE DEF text
<1>2. <<>> \in HostLists
  BY DEF HostLists, Distinct
<1>3. G \in [(1 .. n) \X HostLists -> HostLists]
      /\ \A i \in 1 .. n, a \in HostLists : G[<<i, a>>] = Add(a, text[i])
  <2>1. \A p \in (1 .. n) \X HostLists : Add(p[2], text[p[1]]) \in HostLists
    BY <1>0, AddHost
  <2>2. QED BY <2>1
<1>4. PICK h \in [SUBSET (1 .. n) -> HostLists] : LeftFold(h, n, <<>>, G)
  <2> HIDE DEF G
  <2>1. QED BY <1>2, <1>3, LeftFoldExists
<1>5. h = E(h)
  <2>1. ASSUME NEW s \in SUBSET (1 .. n), s # {}
        PROVE  h[s] = Add(h[s \ {Top(s)}], text[Top(s)])
    <3>1. Top(s) \in 1 .. n
      BY <2>1, TopIn
    <3>2. h[s] = G[<<Top(s), h[s \ {Top(s)}]>>]
      BY <1>4, <2>1 DEF LeftFold
    <3> HIDE DEF G
    <3>3. h[s \ {Top(s)}] \in HostLists
      OBVIOUS
    <3>4. QED BY <1>3, <3>1, <3>2, <3>3
  <2>2. h[{}] = <<>>
    BY <1>4 DEF LeftFold
  <2> HIDE DEF G
  <2>3. QED BY <1>0, <2>1, <2>2
<1>6. f = E(f)
  <2> HIDE DEF E
  <2>1. QED BY <1>1, <1>5
<1> DEFINE r == [k \in Nat |-> f[1 .. k]]
<1>7. r[0] = <<>> /\ r[n] = MergeAllowedHosts(lists)
  <2>1. 1 .. 0 = {} /\ {} \in SUBSET DOMAIN text
    OBVIOUS
  <2>2. f[1 .. 0] = <<>>
    BY <1>6, <2>1
  <2>3. QED BY <1>0, <1>1, <2>2
<1>8. ASSUME NEW k \in Nat, k < n PROVE r[k + 1] = Add(r[k], text[k + 1])
  <2>1. 1 .. k + 1 \in SUBSET (1 .. n) /\ 1 .. k + 1 # {} /\ (1 .. k + 1) \ {k + 1} = 1 .. k
    BY <1>8, IntervalLess
  <2>2. Top(1 .. k + 1) = k + 1
    BY TopOfInterval
  <2>3. f[1 .. k + 1] = Add(f[1 .. k], text[k + 1])
    BY <1>0, <1>6, <2>1, <2>2
  <2>4. QED BY <2>3
<1>9. QED BY <1>7, <1>8 DEF text

(* The hosts of both lists, and no others *)
LEMMA Merged ==
  ASSUME NEW s \in Seq(Hosts), NEW t \in Seq(Hosts)
  PROVE  ToSet(MergeAllowedHosts(<<s, t>>)) = ToSet(s) \cup ToSet(t)
<1> DEFINE text == s \o t
           n == Len(text)
<1>0. text \in Seq(Hosts) /\ FlattenSeq(<<s, t>>) = text
  <2>1. text \in Seq(Hosts)
    BY ConcatProperties
  <2>2. QED BY <2>1, Flattened
<1>1. ToSet(text) = ToSet(s) \cup ToSet(t)
  <2>1. /\ DOMAIN s = 1 .. Len(s) /\ DOMAIN t = 1 .. Len(t) /\ DOMAIN text = 1 .. Len(s) + Len(t)
        /\ Len(s) \in Nat /\ Len(t) \in Nat
        /\ \A i \in 1 .. Len(s) : text[i] = s[i]
        /\ \A i \in 1 .. Len(t) : text[Len(s) + i] = t[i]
    BY ConcatProperties
  <2> HIDE DEF text
  <2>2. \A i \in DOMAIN text : i \in DOMAIN s \/ (i - Len(s) \in DOMAIN t /\ Len(s) + (i - Len(s)) = i)
    BY <2>1
  <2>3. \A i \in DOMAIN s : i \in DOMAIN text
    BY <2>1
  <2>4. \A i \in DOMAIN t : Len(s) + i \in DOMAIN text
    BY <2>1
  <2>5. ToSet(text) \subseteq ToSet(s) \cup ToSet(t)
    <3> SUFFICES ASSUME NEW i \in DOMAIN text PROVE text[i] \in ToSet(s) \cup ToSet(t)
      BY DEF ToSet
    <3>1. CASE i \in DOMAIN s
      BY <2>1, <3>1 DEF ToSet
    <3>2. CASE i \notin DOMAIN s
      <4>1. text[i] = t[i - Len(s)] /\ i - Len(s) \in DOMAIN t
        BY <2>1, <2>2, <3>2
      <4>2. QED BY <4>1 DEF ToSet
    <3>3. QED BY <3>1, <3>2
  <2>6. ToSet(s) \subseteq ToSet(text)
    BY <2>1, <2>3 DEF ToSet
  <2>7. ToSet(t) \subseteq ToSet(text)
    BY <2>1, <2>4 DEF ToSet
  <2>8. QED BY <2>5, <2>6, <2>7
<1> HIDE DEF text
<1>2. n \in Nat /\ DOMAIN text = 1 .. n /\ \A i \in 1 .. n : text[i] \in Hosts
  BY <1>0
<1>3. PICK r : /\ r[0] = <<>> /\ r[n] = MergeAllowedHosts(<<s, t>>)
               /\ \A k \in Nat : k < n => r[k + 1] = Add(r[k], text[k + 1])
  BY <1>0, MergeSteps
<1> HIDE DEF n
<1> DEFINE P == {k \in Nat : r[k] \in HostLists /\ ToSet(r[k]) = {text[i] : i \in 1 .. k}}
<1>4. 0 \in P
  <2>1. ToSet(<<>>) = {} /\ <<>> \in HostLists
    BY DEF ToSet, HostLists, Distinct
  <2>2. {text[i] : i \in 1 .. 0} = {}
    OBVIOUS
  <2>3. QED BY <1>3, <2>1, <2>2
<1>5. ASSUME NEW k \in Nat, k < n, k \in P PROVE k + 1 \in P
  <2>1. r[k + 1] = Add(r[k], text[k + 1]) /\ text[k + 1] \in Hosts
    BY <1>2, <1>3, <1>5
  <2>2. r[k + 1] \in HostLists /\ ToSet(r[k + 1]) = ToSet(r[k]) \cup {text[k + 1]}
    BY <1>5, <2>1, AddHost
  <2>3. {text[i] : i \in 1 .. k + 1} = {text[i] : i \in 1 .. k} \cup {text[k + 1]}
    <3>1. \A i \in 1 .. k + 1 : i \in 1 .. k \/ i = k + 1
      OBVIOUS
    <3>2. (\A i \in 1 .. k : i \in 1 .. k + 1) /\ k + 1 \in 1 .. k + 1
      OBVIOUS
    <3>3. QED BY <3>1, <3>2
  <2>4. QED BY <1>5, <2>2, <2>3
<1>6. n \in P
  <2> HIDE DEF P
  <2>1. QED BY <1>2, <1>4, <1>5, InductionUpTo
<1>7. QED BY <1>1, <1>2, <1>3, <1>6 DEF ToSet

-------------------------------------------------------------------------------
(* Concurrent editors                                                        *)

Tables ==
  /\ pc \in [Editors -> {"idle", "read", "swap"}]
  /\ seen = [e \in Editors |-> seen[e]]
  /\ typed = [e \in Editors |-> typed[e]]
  /\ raw  = [e \in Editors |-> raw[e]]
  /\ answer \in [Editors -> {"none", "saved", "conflict", "error"}]
  /\ stale \in [Editors -> BOOLEAN]

(* What an editor holds while nobody has saved, and while its PUT is on its    *)
(* way: the revision of the row, and the value the swap will find there.      *)
Holds(e) ==
  /\ pc[e] # "idle" => seen[e] # None
  /\ seen[e] # None /\ ~stale[e] => seen[e] = Value
  /\ pc[e] = "swap" /\ ~stale[e] => raw[e] = Value
  /\ pc[e] = "swap" /\ e \in Careful => raw[e] = seen[e]
  /\ answer[e] = "conflict" => stale[e]

Inv == Tables /\ \A e \in Editors : Holds(e)

LEMMA InitInv == Init => Inv
BY DEF Init, Inv, Tables, Holds

LEMMA NextInv == Inv /\ [Next]_vars => Inv'
<1> SUFFICES ASSUME Inv, [Next]_vars PROVE Inv'
  OBVIOUS
<1> USE DEF Inv, Tables, Holds
<1>1. ASSUME NEW e \in Editors, Load(e) PROVE Inv'
  BY <1>1 DEF Load, Value
<1>2. ASSUME NEW e \in Editors, Submit(e) PROVE Inv'
  <2>1. PICK text : typed' = [typed EXCEPT ![e] = text]
    BY <1>2 DEF Submit
  <2>2. QED BY <1>2, <2>1 DEF Submit, Value
<1>3. ASSUME NEW e \in Editors, ReadCurrent(e) PROVE Inv'
  BY <1>3 DEF ReadCurrent, Answer, Value
<1>4. ASSUME NEW e \in Editors, Swap(e) PROVE Inv'
  <2>0. pc[e] = "swap" /\ UNCHANGED raw
    BY <1>4 DEF Swap
  <2>1. CASE /\ setting' = Saved(e)
             /\ Answer(e, "saved") /\ seen' = [seen EXCEPT ![e] = Saved(e)]
             /\ stale' = [other \in Editors |-> other # e]
    BY <2>0, <2>1 DEF Answer, Value
  <2>2. CASE /\ setting' = Saved(e)
             /\ Answer(e, "error") /\ UNCHANGED seen
             /\ stale' = [other \in Editors |-> TRUE]
    BY <2>0, <2>2 DEF Answer, Value
  <2>3. CASE ~Hits(raw[e]) /\ Answer(e, "conflict") /\ UNCHANGED <<setting, seen, stale>>
    BY <2>0, <2>3 DEF Answer, Value, Hits
  <2>4. CASE Answer(e, "error") /\ UNCHANGED <<setting, seen, stale>>
    BY <2>0, <2>4 DEF Answer, Value
  <2>5. QED BY <1>4, <2>1, <2>2, <2>3, <2>4 DEF Swap
<1>5. CASE UNCHANGED vars
  BY <1>5 DEF vars, Value
<1>6. QED BY <1>1, <1>2, <1>3, <1>4, <1>5 DEF Next, Handler

(* A 412 is only ever given to an editor whose revision is out of date. *)
THEOREM NoSpuriousConflictHolds == Spec => []NoSpuriousConflict
<1>1. Inv => NoSpuriousConflict
  BY DEF Inv, Holds, NoSpuriousConflict
<1>2. QED BY <1>1, InitInv, NextInv, PTL DEF Spec

(* An editor that sends If-Match replaces exactly the list it was shown. *)
THEOREM NoLostUpdateHolds == Spec => NoLostUpdate
<1>1. Inv /\ [Next]_vars => [\A e \in Careful : Saves(e) => Value = seen[e]]_vars
  <2> SUFFICES ASSUME Inv, Next, NEW e \in Careful, Saves(e) PROVE Value = seen[e]
    BY DEF vars
  <2>1. e \in Editors
    BY HostsAssumption DEF HostsAssumption
  <2>2. \A other \in Editors : other # e => ~Load(other) /\ ~Submit(other) /\ ~Handler(other)
    BY <2>1 DEF Saves, Load, Submit, Handler, ReadCurrent, Swap, Answer, Inv, Tables
  <2>3. Swap(e) /\ Hits(raw[e])
    BY <2>1, <2>2 DEF Next, Saves, Load, Submit, Handler, ReadCurrent, Swap
  <2>4. QED BY <2>1, <2>3 DEF Inv, Holds, Saves, Hits, Value
<1>2. QED BY <1>1, InitInv, NextInv, PTL DEF Spec, NoLostUpdate

-------------------------------------------------------------------------------
(* What is stored, and what a save lets in                                   *)

Rows ==
  /\ setting \in HostLists \cup {None}
  /\ pc     \in [Editors -> {"idle", "read", "swap"}]
  /\ seen   \in [Editors -> HostLists \cup {None}]
  /\ typed  \in [Editors -> Typed \cup {<<>>}]
  /\ raw    \in [Editors -> HostLists]
  /\ answer \in [Editors -> {"none", "saved", "conflict", "error"}]
  /\ stale  \in [Editors -> BOOLEAN]

(* A PUT on its way has parsed its body; a 200 holds until the row is saved again *)
Told(e) ==
  /\ pc[e] # "idle" => answer[e] = "none" /\ Parse(typed[e]) # None
  /\ answer[e] = "saved" /\ ~stale[e] => setting = Parse(typed[e]) /\ setting # None

RowInv == Rows /\ \A e \in Editors : Told(e)

LEMMA EmptyList == <<>> \in HostLists
BY DEF HostLists, Distinct

LEMMA ValueType == ASSUME Rows PROVE Value \in HostLists /\ Value # None
BY EmptyList, NoneIsNoList DEF Rows, Value

LEMMA TypedText == ASSUME Rows, NEW e \in Editors PROVE typed[e] \in Seq(Entries)
<1>1. typed[e] \in Typed \cup {<<>>}
  BY DEF Rows
<1>2. <<>> \in Seq(Entries)
  OBVIOUS
<1>3. QED BY <1>1, <1>2, Kinds

LEMMA RowInitInv == Init => RowInv
BY EmptyList DEF Init, RowInv, Rows, Told

LEMMA RowNextInv == RowInv /\ [Next]_vars => RowInv'
<1> SUFFICES ASSUME RowInv, [Next]_vars PROVE RowInv'
  OBVIOUS
<1> USE DEF RowInv, Rows, Told
<1>0. Value \in HostLists
  BY ValueType
<1>1. ASSUME NEW e \in Editors, Load(e) PROVE RowInv'
  BY <1>0, <1>1 DEF Load
<1>2. ASSUME NEW e \in Editors, Submit(e) PROVE RowInv'
  <2>1. PICK text \in Typed : typed' = [typed EXCEPT ![e] = text]
    BY <1>2 DEF Submit
  <2>2. typed'[e] = text
    BY <2>1
  <2>3. CASE Parse(text) # None
    BY <1>2, <2>1, <2>2, <2>3 DEF Submit
  <2>4. CASE Parse(text) = None
    BY <1>2, <2>1, <2>2, <2>4 DEF Submit
  <2>5. QED BY <2>3, <2>4
<1>3. ASSUME NEW e \in Editors, ReadCurrent(e) PROVE RowInv'
  BY <1>0, <1>3 DEF ReadCurrent, Answer
<1>4. ASSUME NEW e \in Editors, Swap(e) PROVE RowInv'
  <2>0. pc[e] = "swap" /\ UNCHANGED raw /\ Parse(typed[e]) # None
    BY <1>4 DEF Swap
  <2>1. Saved(e) \in HostLists /\ Saved(e) = Parse(typed[e])
    BY <2>0, TypedText, Parsed DEF Saved
  <2>2. CASE /\ setting' = Saved(e)
             /\ Answer(e, "saved") /\ seen' = [seen EXCEPT ![e] = Saved(e)]
             /\ stale' = [other \in Editors |-> other # e]
    BY <2>0, <2>1, <2>2 DEF Answer
  <2>3. CASE /\ setting' = Saved(e)
             /\ Answer(e, "error") /\ UNCHANGED seen
             /\ stale' = [other \in Editors |-> TRUE]
    BY <2>0, <2>1, <2>3 DEF Answer
  <2>4. CASE ~Hits(raw[e]) /\ Answer(e, "conflict") /\ UNCHANGED <<setting, seen, stale>>
    BY <2>0, <2>4 DEF Answer
  <2>5. CASE Answer(e, "error") /\ UNCHANGED <<setting, seen, stale>>
    BY <2>0, <2>5 DEF Answer
  <2>6. QED BY <1>4, <2>2, <2>3, <2>4, <2>5 DEF Swap
<1>5. CASE UNCHANGED vars
  BY <1>5 DEF vars
<1>6. QED BY <1>1, <1>2, <1>3, <1>4, <1>5 DEF Next, Handler

LEMMA RowInvariance == Spec => []RowInv
BY RowInitInv, RowNextInv, PTL DEF Spec

(* Distinct hosts make a list no longer than there are hosts *)
LEMMA HostListsAreLists == HostLists \subseteq Lists
<1> SUFFICES ASSUME NEW list \in HostLists PROVE list \in Lists
  OBVIOUS
<1> DEFINE n == Len(list)
<1>1. n \in Nat /\ list \in [1 .. n -> Hosts] /\ Distinct(list)
  BY DEF HostLists
<1> HIDE DEF n
<1>2. list \in Injection(1 .. n, Hosts)
  BY <1>1 DEF Injection, IsInjective, Distinct, n
<1>3. Cardinality(1 .. n) <= Cardinality(Hosts)
  BY <1>2, Kinds, FS_Injection
<1>4. Cardinality(1 .. n) = n
  BY <1>1, FS_Interval
<1>5. Cardinality(Hosts) \in Nat
  BY Kinds, FS_CardinalityType
<1>6. n \in 0 .. Cardinality(Hosts)
  BY <1>1, <1>3, <1>4, <1>5
<1>7. QED BY <1>1, <1>6 DEF Lists, SeqOf

(* Every list in the table or in an editor's hands names each host once. *)
THEOREM HostsTyping == Spec => []TypeOK
<1>1. RowInv => TypeOK
  BY HostListsAreLists DEF RowInv, Rows, TypeOK
<1>2. QED BY <1>1, RowInvariance, PTL

(* What GET parses is what PUT stored. *)
THEOREM StoredAsParsedHolds == Spec => []StoredAsParsed
<1>1. RowInv => StoredAsParsed
  BY ValueType, ParsedAgain DEF RowInv, StoredAsParsed
<1>2. QED BY <1>1, RowInvariance, PTL

(* A 200 lets in what was typed, every repository URL of it, and nothing else. *)
THEOREM SavedIsAllowedHolds == Spec => []SavedIsAllowed
<1>1. RowInv => SavedIsAllowed
  <2> SUFFICES ASSUME RowInv, NEW e \in Editors, answer[e] = "saved", ~stale[e]
               PROVE  /\ \A entry \in ToSet(typed[e]) \cap Urls : Accepts(entry)
                      /\ \A host \in ToSet(Allowed) \ ToSet(Base) :
                           \E entry \in ToSet(typed[e]) :
                             entry = host \/ (entry \in Urls /\ entry.host = host)
    BY DEF SavedIsAllowed
  <2>1. setting = Parse(typed[e]) /\ Parse(typed[e]) # None /\ setting # None
    BY DEF RowInv, Told
  <2>2. Value = Parse(typed[e]) /\ Value \in HostLists
    BY <2>1, ValueType DEF Value, RowInv
  <2>3. ToSet(Allowed) = ToSet(Base) \cup ToSet(Parse(typed[e]))
    <3>1. Parse(Value) = Value
      BY <2>2, ParsedAgain
    <3>2. Value \in Seq(Hosts) /\ Base \in Seq(Hosts)
      BY <2>2, Kinds DEF HostLists
    <3>3. QED BY <2>2, <3>1, <3>2, Merged DEF Allowed
  <2>4. /\ \A h \in ToSet(Parse(typed[e])) :
             \E entry \in ToSet(typed[e]) : entry # Nothing /\ NormalizeHost(entry) = h
        /\ \A entry \in ToSet(typed[e]) : entry # Nothing =>
             NormalizeHost(entry) # None /\ NormalizeHost(entry) \in ToSet(Parse(typed[e]))
    BY <2>1, TypedText, Parsed DEF RowInv
  <2>5. ASSUME NEW entry \in ToSet(typed[e]) \cap Urls PROVE Accepts(entry)
    <3>1. entry # Nothing
      BY Kinds
    <3>2. NormalizeHost(entry) # None /\ NormalizeHost(entry) \in ToSet(Parse(typed[e]))
      BY <2>4, <3>1
    <3>3. Clean(entry) /\ NormalizeHost(entry) = entry.host
      BY <3>2, Normalized
    <3>4. QED BY <2>3, <3>2, <3>3 DEF Accepts
  <2>6. ASSUME NEW host \in ToSet(Allowed) \ ToSet(Base)
        PROVE  \E entry \in ToSet(typed[e]) :
                 entry = host \/ (entry \in Urls /\ entry.host = host)
    <3>1. host \in ToSet(Parse(typed[e]))
      BY <2>3
    <3>2. PICK entry \in ToSet(typed[e]) : entry # Nothing /\ NormalizeHost(entry) = host
      BY <2>4, <3>1
    <3>3. host # None
      <4>1. Parse(typed[e]) \in Seq(Hosts)
        BY <2>2 DEF HostLists
      <4>2. host \in Hosts
        BY <3>1, <4>1 DEF ToSet
      <4>3. QED BY <4>2, Kinds
    <3>4. entry = host \/ (entry \in Urls /\ entry.host = host)
      BY <3>2, <3>3, Normalized
    <3>5. QED BY <3>4
  <2>7. QED BY <2>5, <2>6
<1>2. QED BY <1>1, RowInvariance, PTL
===============================================================================
