--------------------------- MODULE Storage_proofs ----------------------------
(* Theorems about what is kept of the user's files, for every value of the *)
(* constants.                                                              *)
EXTENDS Backup, DigestCache, Lemmas, SequenceTheorems, TLAPS

-----------------------------------------------------------------------------
(* The search for duplicates, for any files, contents and names, any       *)
(* number of commands and writes.                                          *)

(* Classes: what has a fellow, and who is together.                        *)
LEMMA Together ==
  ASSUME NEW S, NEW f, NEW p, p \in S, NEW q, q \in S, p # q, f[p] = f[q]
  PROVE  \E g \in Classes(S, f) : p \in g /\ q \in g
<1> DEFINE g == {y \in S : f[y] = f[p]}
<1>1. g \in Classes(S, f) BY DEF Classes
<1>2. p \in g /\ q \in g OBVIOUS
<1> QED BY <1>1, <1>2

LEMMA OfClasses ==
  ASSUME NEW S, NEW f
  PROVE  /\ \A g \in Classes(S, f) : g \subseteq S /\ \A p, q \in g : f[p] = f[q]
         /\ \A g, h \in Classes(S, f) : g \cap h # {} => g = h
BY DEF Classes

(* Among keeps the elements of a set that all occur.                       *)
LEMMA WalkAmong ==
  ASSUME NEW S, S \subseteq Path
  PROVE  InOrder(S) \in Seq(Path) /\ ToSet(InOrder(S)) = S
<1>1. Walk \in Seq(Path) /\ ToSet(Walk) = Path BY DigestAssumption
<1>2. Among(Walk, S) \in Seq(Path) /\ ToSet(Among(Walk, S)) = ToSet(Walk) \cap S
  BY <1>1, AmongElements
<1> QED BY <1>1, <1>2 DEF InOrder

(* Groups that are together when their contents are the same, and apart,   *)
(* are the classes of the same content.                                    *)
LEMMA TogetherIsSame ==
  ASSUME NEW d, NEW groups, NEW S,
         \A g, h \in groups : g \cap h # {} => g = h,
         \A g \in groups : \A p \in g \cap S : d[p] # Gone,
         \A p, q \in S : p # q /\ d[p] # Gone =>
           (d[p] = d[q] <=> \E g \in groups : p \in g /\ q \in g)
  PROVE  {g \cap S : g \in {h \in groups : h \cap S # {}}} \ {{p} : p \in S}
           = Classes({p \in S : d[p] # Gone}, d)
<1> DEFINE There == {p \in S : d[p] # Gone}
           Same(p) == {q \in There : d[q] = d[p]}
<1>1. ASSUME NEW g \in groups, NEW p \in g \cap S PROVE g \cap S = Same(p)
  <2>1. p \in There OBVIOUS
  <2>2. ASSUME NEW q \in g \cap S PROVE q \in Same(p) BY <2>1
  <2>3. ASSUME NEW q \in Same(p) PROVE q \in g \cap S
    <3>1. CASE q = p BY <3>1
    <3>2. CASE q # p
      <4>1. PICK h \in groups : p \in h /\ q \in h BY <2>1, <3>2
      <4>2. h = g BY <4>1
      <4> QED BY <4>1, <4>2
    <3> QED BY <3>1, <3>2
  <2> QED BY <2>2, <2>3
<1>2. ASSUME NEW x \in {g \cap S : g \in {h \in groups : h \cap S # {}}} \ {{p} : p \in S}
      PROVE  x \in Classes(There, d)
  <2>1. PICK g \in groups : x = g \cap S /\ g \cap S # {} OBVIOUS
  <2>2. PICK p \in g \cap S : TRUE BY <2>1
  <2>3. PICK q \in g \cap S : q # p BY <2>1, <2>2
  <2>4. x = Same(p) BY <1>1, <2>1, <2>2
  <2>5. q \in Same(p) BY <2>1, <2>3, <2>4
  <2>6. p \in There /\ q \in There \ {p} /\ d[q] = d[p] BY <2>2, <2>3, <2>5
  <2> QED BY <2>4, <2>6 DEF Classes
<1>3. ASSUME NEW x \in Classes(There, d)
      PROVE  x \in {g \cap S : g \in {h \in groups : h \cap S # {}}} \ {{p} : p \in S}
  <2>0. PICK p \in {r \in There : \E y \in There \ {r} : d[y] = d[r]} : x = Same(p) BY DEF Classes
  <2>1. PICK q \in There \ {p} : d[q] = d[p] BY <2>0
  <2>2. PICK g \in groups : p \in g /\ q \in g BY <2>0, <2>1
  <2>3. x = g \cap S BY <1>1, <2>0, <2>2
  <2>4. p \in x /\ q \in x /\ p # q BY <2>0, <2>1
  <2> QED BY <2>2, <2>3, <2>4
<1> QED BY <1>2, <1>3

-----------------------------------------------------------------------------
(* The inductive invariant.                                                *)
Part == Bytes \cup {EndsOf[x] : x \in Bytes}
Pair == Part \X Part
Rows == Path \X {"partial", "sha256"}
Entry == [stat : Nat \X Nat, digest : Pair]

JobType ==
  [at : {"idle", "scan", "partial", "full", "names", "done", "failed"}, todo : Seq(Path),
   step : {"next", "get", "first", "second", "put"}, first : Part \cup {None},
   digest : Pair \cup {None}, dirty : BOOLEAN, verify : BOOLEAN, hash : BOOLEAN,
   groups : SUBSET SUBSET Path, size : [Path -> Nat \cup {None}],
   key : [Path -> Pair \cup {None}], sha : [Path -> Pair \cup {None}]]

DigestTypes ==
  /\ disk \in [Path -> Bytes \cup {Gone}] /\ mtime \in [Path -> Nat] /\ writes \in Nat
  /\ cache \in [Rows -> Entry \cup {None}] /\ poisoned \subseteq Rows
  /\ touched \in [Searcher -> SUBSET Path] /\ misled \in [Searcher -> SUBSET Path]

(* No time of a file or of a row is later than the last write.             *)
Dated ==
  /\ \A p \in Path : mtime[p] <= writes
  /\ \A row \in Rows : cache[row] # None => cache[row].stat[2] <= writes

Kind(j) == IF j.at = "partial" THEN "partial" ELSE "sha256"
Part1(x, kind) == IF kind = "partial" THEN EndsOf[x] ELSE x
Right(x, kind) == <<Part1(x, kind), Part1(x, kind)>>

(* A row that fits and was not stored for a file under a write is right.   *)
RowsTrue ==
  \A p \in Path, kind \in {"partial", "sha256"} :
    /\ <<p, kind>> \notin poisoned /\ cache[<<p, kind>>] # None /\ disk[p] # Gone
    /\ cache[<<p, kind>>].stat = <<SizeOf[disk[p]], mtime[p]>>
    => cache[<<p, kind>>].digest = Right(disk[p], kind)

(* Where a command may be, and what it holds there.                        *)
Ordered(j) ==
  /\ j.step # "next" => j.todo # <<>> /\ j.at \in {"scan", "partial", "full", "names"}
  /\ j.at = "scan" /\ j.step # "next" => j.hash
  /\ j.hash => j.at \in {"scan", "done"}
  /\ j.at = "idle" => j = Idle
  /\ j.step = "second" => j.first \in Part
  /\ j.step = "put" => j.digest \in Pair

(* What was read so far of a file that nobody wrote meanwhile is right.    *)
ReadsTrue(d, j) ==
  j.step \in {"second", "put"} /\ ~j.dirty =>
    /\ d[Head(j.todo)] # Gone
    /\ j.step = "second" => j.first = Part1(d[Head(j.todo)], Kind(j))
    /\ j.step = "put" => j.digest = Right(d[Head(j.todo)], Kind(j))

(* What a command has noted of the files C, that stay as they are.         *)
NotesTrue(d, j, C) ==
  \A p \in C :
    /\ j.size[p] # None => d[p] # Gone /\ j.size[p] = SizeOf[d[p]]
    /\ j.key[p] # None => d[p] # Gone /\ j.key[p] = Right(d[p], "partial")
    /\ j.sha[p] # None => d[p] # Gone /\ j.sha[p] = Right(d[p], "sha256")

SizeClasses(j) == Classes({p \in Path : j.size[p] # None}, j.size)
EndClasses(j) ==
  LET S == {p \in Path : j.key[p] # None} IN Classes(S, [p \in S |-> <<j.size[p], j.key[p]>>])
ContentClasses(j) ==
  LET S == {p \in UNION EndClasses(j) : j.sha[p] # None}
  IN Classes(S, [p \in S |-> <<j.size[p], j.key[p], j.sha[p]>>])

(* Of those files, none is left out that a phase is about and that is not  *)
(* still to be treated.                                                    *)
Complete(d, j, C) ==
  j.verify /\ ~j.hash =>
    \A p \in C : d[p] # Gone =>
      /\ j.at = "scan" => p \in ToSet(j.todo) \/ j.size[p] # None
      /\ j.at \in {"partial", "full"} => j.size[p] # None
      /\ j.at = "partial" /\ p \in UNION SizeClasses(j) => p \in ToSet(j.todo) \/ j.key[p] # None
      /\ j.at = "full" /\ p \in UNION SizeClasses(j) => j.key[p] # None
      /\ j.at = "full" /\ p \in UNION EndClasses(j) => p \in ToSet(j.todo) \/ j.sha[p] # None

(* Groups are apart, and two of those files are together when they are the *)
(* same.                                                                   *)
Sorted(d, j, C) ==
  j.at \in {"names", "done"} /\ j.verify /\ ~j.hash =>
    /\ \A g, h \in j.groups : g \cap h # {} => g = h
    /\ \A g \in j.groups : \A p \in g \cap C : d[p] # Gone
    /\ \A p, q \in C : p # q /\ d[p] # Gone =>
         (d[p] = d[q] <=> \E g \in j.groups : p \in g /\ q \in g)

Works(d, j, C) == NotesTrue(d, j, C) /\ Complete(d, j, C) /\ Sorted(d, j, C)

Clean(c) == Path \ (touched[c] \cup misled[c])

CommandsFit ==
  /\ job \in [Searcher -> JobType]
  /\ \A c \in Searcher :
       Ordered(job[c]) /\ ReadsTrue(disk, job[c]) /\ Works(disk, job[c], Clean(c))

DigestInv == DigestTypes /\ Dated /\ RowsTrue /\ CommandsFit

-----------------------------------------------------------------------------
(* How the notes of a command change.                                      *)
LEMMA WorksKept ==
  ASSUME NEW d, NEW e, NEW i, NEW j, NEW C, NEW D, D \subseteq C, C \subseteq Path,
         \A p \in D : e[p] = d[p], Works(d, i, C),
         j.at = i.at, j.todo = i.todo, j.size = i.size, j.key = i.key, j.sha = i.sha,
         j.verify = i.verify, j.hash = i.hash, j.groups = i.groups
  PROVE  Works(e, j, D)
<1>1. NotesTrue(e, j, D) BY DEF Works, NotesTrue
<1>2. SizeClasses(j) = SizeClasses(i) BY DEF SizeClasses
<1>3. EndClasses(j) = EndClasses(i) BY DEF EndClasses
<1>4. Complete(e, j, D) BY <1>2, <1>3 DEF Works, Complete
<1>5. Sorted(e, j, D) BY DEF Works, Sorted
<1> QED BY <1>1, <1>4, <1>5 DEF Works

LEMMA HeadOrTail ==
  ASSUME NEW X, NEW s, s \in Seq(X), s # <<>>
  PROVE  /\ Head(s) \in X /\ Tail(s) \in Seq(X)
         /\ \A x \in ToSet(s) : x = Head(s) \/ x \in ToSet(Tail(s))
<1>1. Head(s) \in X /\ Tail(s) \in Seq(X) BY HeadTailProperties
<1>2. /\ Len(s) \in Nat /\ Len(s) # 0 /\ Len(Tail(s)) = Len(s) - 1 /\ DOMAIN s = 1 .. Len(s)
      /\ DOMAIN Tail(s) = 1 .. Len(Tail(s))
      /\ \A k \in 1 .. Len(Tail(s)) : Tail(s)[k] = s[k + 1]
  BY <1>1, HeadTailProperties, EmptySeq, LenProperties
<1>3. ASSUME NEW k \in 1 .. Len(s), k # 1 PROVE s[k] \in ToSet(Tail(s))
  <2>1. k - 1 \in 1 .. Len(Tail(s)) /\ (k - 1) + 1 = k BY <1>2, <1>3
  <2>2. Tail(s)[k - 1] = s[(k - 1) + 1] BY <1>2, <2>1
  <2>3. Tail(s)[k - 1] = s[k] BY <2>1, <2>2
  <2> QED BY <1>2, <2>1, <2>3 DEF ToSet
<1>4. Head(s) = s[1] OBVIOUS
<1> QED BY <1>1, <1>2, <1>3, <1>4 DEF ToSet

LEMMA WorksSkipped ==
  ASSUME NEW d, NEW i \in JobType, NEW j \in JobType, NEW C, C \subseteq Path, Works(d, i, C),
         i.todo # <<>>, d[Head(i.todo)] = Gone, j.todo = Tail(i.todo),
         j.at = i.at, j.key = i.key, j.sha = i.sha,
         j.verify = i.verify, j.hash = i.hash, j.groups = i.groups,
         j.size = i.size \/ (i.hash /\ j.size = [i.size EXCEPT ![Head(i.todo)] = None])
  PROVE  Works(d, j, C)
<1> DEFINE p == Head(i.todo)
<1>1. /\ p \in Path /\ \A x \in ToSet(i.todo) : x = p \/ x \in ToSet(j.todo)
  <2>1. i.todo \in Seq(Path) BY DEF JobType
  <2> QED BY <2>1, HeadOrTail
<1>2. NotesTrue(d, j, C)
  <2>1. \A q \in Path : j.size[q] # None => j.size[q] = i.size[q] BY <1>1 DEF JobType
  <2> QED BY <2>1 DEF Works, NotesTrue
<1>3. Complete(d, j, C)
  <2> SUFFICES ASSUME j.size = i.size PROVE Complete(d, j, C) BY DEF Complete
  <2>1. SizeClasses(j) = SizeClasses(i) BY DEF SizeClasses
  <2>2. EndClasses(j) = EndClasses(i) BY DEF EndClasses
  <2> QED BY <1>1, <2>1, <2>2 DEF Works, Complete
<1>4. Sorted(d, j, C) BY DEF Works, Sorted
<1> QED BY <1>2, <1>3, <1>4 DEF Works

LEMMA WorksSized ==
  ASSUME NEW d, NEW i \in JobType, NEW j \in JobType, NEW C, C \subseteq Path, Works(d, i, C),
         i.at = "scan", i.todo # <<>>, d[Head(i.todo)] # Gone,
         j.todo = Tail(i.todo) \/ i.hash,
         j.at = i.at, j.key = i.key, j.sha = i.sha,
         j.verify = i.verify, j.hash = i.hash, j.groups = i.groups,
         j.size = [i.size EXCEPT ![Head(i.todo)] = SizeOf[d[Head(i.todo)]]],
         SizeOf[d[Head(i.todo)]] # None
  PROVE  Works(d, j, C)
<1> DEFINE p == Head(i.todo)
<1>1. i.todo \in Seq(Path) BY DEF JobType
<1>2. /\ p \in Path /\ \A x \in ToSet(i.todo) : x = p \/ x \in ToSet(Tail(i.todo))
  BY <1>1, HeadOrTail
<1>3. \A q \in Path : j.size[q] = IF q = p THEN SizeOf[d[p]] ELSE i.size[q] BY <1>2 DEF JobType
<1>4. NotesTrue(d, j, C) BY <1>3 DEF Works, NotesTrue
<1>5. Complete(d, j, C)
  <2> SUFFICES ASSUME j.todo = Tail(i.todo) PROVE Complete(d, j, C) BY DEF Complete
  <2> QED BY <1>2, <1>3 DEF Works, Complete
<1>6. Sorted(d, j, C) BY DEF Works, Sorted
<1> QED BY <1>4, <1>5, <1>6 DEF Works

LEMMA WorksTreated ==
  ASSUME NEW d, NEW i \in JobType, NEW j \in JobType, NEW C, C \subseteq Path, Works(d, i, C),
         i.todo # <<>>, j.todo = Tail(i.todo), i.at \in {"scan", "partial", "full", "names"},
         i.at = "scan" => i.hash,
         NEW t, t # None,
         Head(i.todo) \in C => d[Head(i.todo)] # Gone /\ t = Right(d[Head(i.todo)], Kind(i)),
         j.at = i.at, j.size = i.size, j.verify = i.verify, j.hash = i.hash, j.groups = i.groups,
         j.key = IF i.at = "partial" THEN [i.key EXCEPT ![Head(i.todo)] = t] ELSE i.key,
         j.sha = IF i.at = "partial" THEN i.sha ELSE [i.sha EXCEPT ![Head(i.todo)] = t]
  PROVE  Works(d, j, C)
<1> DEFINE p == Head(i.todo)
<1>1. i.todo \in Seq(Path) BY DEF JobType
<1>2. /\ p \in Path /\ \A x \in ToSet(i.todo) : x = p \/ x \in ToSet(j.todo)
  BY <1>1, HeadOrTail
<1>3. SizeClasses(j) = SizeClasses(i) BY DEF SizeClasses
<1>4. CASE i.at = "partial"
  <2>1. \A q \in Path : j.key[q] = IF q = p THEN t ELSE i.key[q] BY <1>2, <1>4 DEF JobType
  <2>2. Kind(i) = "partial" BY <1>4 DEF Kind
  <2>3. j.sha = i.sha BY <1>4
  <2>4. NotesTrue(d, j, C) BY <2>1, <2>2, <2>3 DEF Works, NotesTrue
  <2>5. Complete(d, j, C) BY <1>2, <1>3, <1>4, <2>1 DEF Works, Complete
  <2>6. Sorted(d, j, C) BY <1>4 DEF Sorted
  <2> QED BY <2>4, <2>5, <2>6 DEF Works
<1>5. CASE i.at # "partial"
  <2>1. \A q \in Path : j.sha[q] = IF q = p THEN t ELSE i.sha[q] BY <1>2, <1>5 DEF JobType
  <2>2. Kind(i) = "sha256" BY <1>5 DEF Kind
  <2>3. j.key = i.key BY <1>5
  <2>4. EndClasses(j) = EndClasses(i) BY <2>3 DEF EndClasses
  <2>5. NotesTrue(d, j, C) BY <2>1, <2>2, <2>3 DEF Works, NotesTrue
  <2>6. Complete(d, j, C) BY <1>2, <1>3, <1>5, <2>1, <2>4 DEF Works, Complete
  <2>7. Sorted(d, j, C) BY DEF Works, Sorted
  <2> QED BY <2>5, <2>6, <2>7 DEF Works
<1> QED BY <1>4, <1>5

LEMMA WorksListed ==
  ASSUME NEW d, NEW i, NEW j, NEW C, C \subseteq Path, Works(d, i, C),
         i.at = "scan", i.todo = <<>>, j.at = "partial", ToSet(j.todo) = UNION SizeClasses(i),
         j.size = i.size, j.key = i.key, j.sha = i.sha, j.verify = i.verify, j.hash = i.hash
  PROVE  Works(d, j, C)
<1>1. ToSet(i.todo) = {} BY DEF ToSet
<1>2. SizeClasses(j) = SizeClasses(i) BY DEF SizeClasses
<1>3. NotesTrue(d, j, C) BY DEF Works, NotesTrue
<1>4. Complete(d, j, C) BY <1>1, <1>2 DEF Works, Complete
<1>5. Sorted(d, j, C) BY DEF Sorted
<1> QED BY <1>3, <1>4, <1>5 DEF Works

LEMMA WorksCompared ==
  ASSUME NEW d, NEW i, NEW j, NEW C, C \subseteq Path, Works(d, i, C),
         i.at = "partial", i.todo = <<>>, j.at = "full", ToSet(j.todo) = UNION EndClasses(i),
         j.size = i.size, j.key = i.key, j.sha = i.sha, j.verify = i.verify, j.hash = i.hash
  PROVE  Works(d, j, C)
<1>1. ToSet(i.todo) = {} BY DEF ToSet
<1>2. SizeClasses(j) = SizeClasses(i) BY DEF SizeClasses
<1>3. EndClasses(j) = EndClasses(i) BY DEF EndClasses
<1>4. NotesTrue(d, j, C) BY DEF Works, NotesTrue
<1>5. Complete(d, j, C) BY <1>1, <1>2, <1>3 DEF Works, Complete
<1>6. Sorted(d, j, C) BY DEF Sorted
<1> QED BY <1>4, <1>5, <1>6 DEF Works

(* Of two files that are the same, the phases let both pass: they have one *)
(* size, then one partial digest, then one digest.                         *)
LEMMA WorksGrouped ==
  ASSUME NEW d, NEW i, NEW j, NEW C, C \subseteq Path, Works(d, i, C),
         i.verify => i.at = "full", i.todo = <<>>, j.at = "names",
         i.verify => j.groups = ContentClasses(i),
         j.size = i.size, j.key = i.key, j.sha = i.sha, j.verify = i.verify, j.hash = i.hash
  PROVE  Works(d, j, C)
<1>1. NotesTrue(d, j, C) BY DEF Works, NotesTrue
<1>2. Complete(d, j, C) BY DEF Complete
<1>3. Sorted(d, j, C)
  <2> SUFFICES ASSUME i.verify, ~i.hash, i.at = "full", j.groups = ContentClasses(i)
               PROVE  /\ \A g, h \in j.groups : g \cap h # {} => g = h
                      /\ \A g \in j.groups : \A p \in g \cap C : d[p] # Gone
                      /\ \A p, q \in C : p # q /\ d[p] # Gone =>
                           (d[p] = d[q] <=> \E g \in j.groups : p \in g /\ q \in g)
    BY DEF Sorted
  <2> DEFINE keyed == {p \in Path : i.key[p] # None}
             ends == [p \in keyed |-> <<i.size[p], i.key[p]>>]
             read == {p \in UNION EndClasses(i) : i.sha[p] # None}
             traits == [p \in read |-> <<i.size[p], i.key[p], i.sha[p]>>]
  <2>1. EndClasses(i) = Classes(keyed, ends) BY DEF EndClasses
  <2>2. j.groups = Classes(read, traits) BY DEF ContentClasses
  <2>3. \A p \in C : /\ i.size[p] # None => d[p] # Gone /\ i.size[p] = SizeOf[d[p]]
                     /\ i.key[p] # None => d[p] # Gone /\ i.key[p] = Right(d[p], "partial")
                     /\ i.sha[p] # None => d[p] # Gone /\ i.sha[p] = Right(d[p], "sha256")
    BY DEF Works, NotesTrue
  <2>4. ToSet(i.todo) = {} BY DEF ToSet
  <2>5. \A p \in C : d[p] # Gone =>
          /\ i.size[p] # None
          /\ p \in UNION SizeClasses(i) => i.key[p] # None
          /\ p \in UNION EndClasses(i) => i.sha[p] # None
    BY <2>4 DEF Works, Complete
  <2>6. \A g \in j.groups : g \subseteq read /\ \A p, q \in g : traits[p] = traits[q]
    BY <2>2, OfClasses
  <2>7. \A g, h \in j.groups : g \cap h # {} => g = h BY <2>2, OfClasses
  <2>8. \A g \in j.groups : \A p \in g \cap C : d[p] # Gone BY <2>3, <2>6
  <2>9. ASSUME NEW p \in C, NEW q \in C, p # q, d[p] # Gone, d[p] = d[q]
        PROVE  \E g \in j.groups : p \in g /\ q \in g
    <3>1. i.size[p] # None /\ i.size[q] # None /\ i.size[p] = i.size[q] BY <2>3, <2>5, <2>9
    <3>2. p \in UNION SizeClasses(i) /\ q \in UNION SizeClasses(i)
      <4>1. p \in {r \in Path : i.size[r] # None} /\ q \in {r \in Path : i.size[r] # None} BY <3>1
      <4>2. \E g \in SizeClasses(i) : p \in g /\ q \in g
        BY <2>9, <3>1, <4>1, Together DEF SizeClasses
      <4> QED BY <4>2
    <3>3. i.key[p] # None /\ i.key[q] # None /\ i.key[p] = i.key[q] BY <2>3, <2>5, <2>9, <3>2
    <3>4. p \in keyed /\ q \in keyed /\ ends[p] = ends[q] BY <3>1, <3>3
    <3>5. p \in UNION EndClasses(i) /\ q \in UNION EndClasses(i)
      <4> HIDE DEF keyed, ends
      <4>1. \E g \in Classes(keyed, ends) : p \in g /\ q \in g BY <2>9, <3>4, Together
      <4> QED BY <2>1, <4>1
    <3>6. i.sha[p] # None /\ i.sha[q] # None /\ i.sha[p] = i.sha[q] BY <2>3, <2>5, <2>9, <3>5
    <3>7. p \in read /\ q \in read /\ traits[p] = traits[q] BY <3>1, <3>3, <3>5, <3>6
    <3>8. \E g \in Classes(read, traits) : p \in g /\ q \in g
      <4> HIDE DEF read, traits
      <4> QED BY <2>9, <3>7, Together
    <3> QED BY <2>2, <3>8
  <2>10. ASSUME NEW p \in C, NEW q \in C, NEW g \in j.groups, p \in g, q \in g
         PROVE  d[p] = d[q]
    <3>1. p \in read /\ q \in read /\ traits[p] = traits[q]
      <4> HIDE DEF read, traits
      <4> QED BY <2>6, <2>10
    <3>2. i.sha[p] = i.sha[q] /\ i.sha[p] # None BY <3>1
    <3>3. Right(d[p], "sha256") = Right(d[q], "sha256") BY <2>3, <3>1, <3>2
    <3> QED BY <3>3 DEF Right, Part1
  <2> QED BY <2>7, <2>8, <2>9, <2>10
<1> QED BY <1>1, <1>2, <1>3 DEF Works

LEMMA WorksBlank ==
  ASSUME NEW d, NEW j, NEW C, C \subseteq Path,
         \A p \in Path : j.size[p] = None /\ j.key[p] = None /\ j.sha[p] = None,
         j.at \in {"idle", "failed"} \/ (j.at = "done" /\ j.hash)
           \/ (j.at = "scan" /\ ToSet(j.todo) = Path)
  PROVE  Works(d, j, C)
<1>1. NotesTrue(d, j, C) BY DEF NotesTrue
<1>2. Complete(d, j, C) BY DEF Complete
<1>3. Sorted(d, j, C) BY DEF Sorted
<1> QED BY <1>1, <1>2, <1>3 DEF Works

-----------------------------------------------------------------------------
(* Every step of one command leaves the others as they are.                *)
LEMMA CommandSteps ==
  ASSUME DigestInv, NEW c, c \in Searcher, NEW j, j \in JobType, Becomes(c, j), disk' = disk,
         \A e \in Searcher : e # c => touched'[e] = touched[e] /\ misled'[e] = misled[e],
         Ordered(j), ReadsTrue(disk, j), Works(disk, j, Clean(c)')
  PROVE  CommandsFit'
<1>1. job \in [Searcher -> JobType] BY DEF DigestInv, CommandsFit
<1>2. job' = [job EXCEPT ![c] = j] BY DEF Becomes
<1>3. job' \in [Searcher -> JobType] BY <1>1, <1>2
<1>4. ASSUME NEW e \in Searcher
      PROVE  Ordered(job'[e]) /\ ReadsTrue(disk', job'[e]) /\ Works(disk', job'[e], Clean(e)')
  <2>1. CASE e = c
    <3>1. job'[e] = j BY <1>1, <1>2, <2>1
    <3> QED BY <2>1, <3>1
  <2>2. CASE e # c
    <3>1. job'[e] = job[e] BY <1>1, <1>2, <2>2
    <3>2. Clean(e)' = Clean(e) BY <2>2 DEF Clean
    <3>3. Ordered(job[e]) /\ ReadsTrue(disk, job[e]) /\ Works(disk, job[e], Clean(e))
      BY DEF DigestInv, CommandsFit
    <3> QED BY <3>1, <3>2, <3>3
  <2> QED BY <2>1, <2>2
<1> QED BY <1>3, <1>4 DEF CommandsFit

LEMMA RowsStand ==
  ASSUME DigestInv, UNCHANGED <<disk, mtime, writes, cache, poisoned>>
  PROVE  Dated' /\ RowsTrue'
BY DEF DigestInv, Dated, RowsTrue

LEMMA ConstantsKnown ==
  /\ None \notin Nat /\ None \notin Pair /\ SizeOf \in [Bytes -> Nat] /\ Gone \notin Bytes
  /\ \A x \in Bytes : x \in Part /\ EndsOf[x] \in Part
BY DigestAssumption DEF Part, Pair

LEMMA CommandFits ==
  ASSUME DigestInv, NEW c, c \in Searcher
  PROVE  /\ job[c] \in JobType /\ Ordered(job[c]) /\ ReadsTrue(disk, job[c])
         /\ Works(disk, job[c], Clean(c)) /\ Clean(c) \subseteq Path
BY DEF DigestInv, CommandsFit, Clean

LEMMA FailedFits ==
  /\ Failed \in JobType /\ Ordered(Failed)
  /\ \A d, C : C \subseteq Path => ReadsTrue(d, Failed) /\ Works(d, Failed, C)
<1>1. /\ Failed.at = "failed" /\ Failed.step = "next" /\ Failed.hash = FALSE
      /\ Failed.size = [p \in Path |-> None] /\ Failed.key = [p \in Path |-> None]
      /\ Failed.sha = [p \in Path |-> None]
  BY DEF Failed, Idle
<1>2. Failed \in JobType
  <2>1. <<>> \in Seq(Path) BY EmptySeq
  <2>2. Idle \in JobType BY <2>1 DEF Idle, JobType
  <2> QED BY <2>2 DEF Failed, JobType
<1>3. Ordered(Failed) BY <1>1 DEF Ordered
<1>4. ASSUME NEW d, NEW C, C \subseteq Path PROVE ReadsTrue(d, Failed) /\ Works(d, Failed, C)
  <2>1. \A p \in Path : Failed.size[p] = None /\ Failed.key[p] = None /\ Failed.sha[p] = None
    BY <1>1
  <2>2. Failed.at = "failed" /\ Failed.step = "next" BY <1>1
  <2>3. Works(d, Failed, C) BY <1>4, <2>1, <2>2, WorksBlank
  <2> QED BY <2>2, <2>3 DEF ReadsTrue
<1> QED BY <1>2, <1>3, <1>4

LEMMA SkipFits ==
  ASSUME DigestInv, NEW c, c \in Searcher, job[c].todo # <<>>,
         job[c].at \in {"scan", "partial", "full", "names"}, job[c].at = "scan" => job[c].hash,
         disk[Current(c)] = Gone, SkipFile(c), UNCHANGED <<disk, touched, misled>>
  PROVE  CommandsFit'
<1>1. /\ job[c] \in JobType /\ Ordered(job[c]) /\ Works(disk, job[c], Clean(c))
      /\ Clean(c) \subseteq Path
  BY CommandFits
<1>2. Clean(c)' = Clean(c) BY DEF Clean
<1>3. job[c].todo \in Seq(Path) BY <1>1 DEF JobType
<1>4. Current(c) = Head(job[c].todo) /\ Current(c) \in Path /\ Tail(job[c].todo) \in Seq(Path)
  BY <1>3, HeadOrTail DEF Current
<1> DEFINE passed == [job[c] EXCEPT !.todo = Tail(@), !.step = "next"]
<1>5. passed \in JobType BY <1>1, <1>4 DEF JobType
<1>6. /\ passed.todo = Tail(job[c].todo) /\ passed.at = job[c].at /\ passed.key = job[c].key
      /\ passed.sha = job[c].sha /\ passed.verify = job[c].verify /\ passed.hash = job[c].hash
      /\ passed.groups = job[c].groups /\ passed.size = job[c].size /\ passed.step = "next"
  BY <1>1 DEF JobType
<1>7. CASE job[c].at = "scan"
  <2> DEFINE j == [passed EXCEPT !.size[Current(c)] = None]
  <2>1. Becomes(c, j) BY <1>7 DEF SkipFile
  <2>2. /\ j.todo = Tail(job[c].todo) /\ j.at = job[c].at /\ j.key = job[c].key
        /\ j.sha = job[c].sha /\ j.verify = job[c].verify /\ j.hash = job[c].hash
        /\ j.groups = job[c].groups /\ j.size = [job[c].size EXCEPT ![Head(job[c].todo)] = None]
        /\ j.step = "next" /\ j \in JobType
    BY <1>1, <1>3, <1>4 DEF JobType
  <2> HIDE DEF j
  <2>3. Works(disk, j, Clean(c)) BY <1>1, <1>4, <1>7, <2>2, WorksSkipped
  <2>4. Ordered(j) /\ ReadsTrue(disk, j) BY <1>1, <1>7, <2>2 DEF Ordered, ReadsTrue
  <2> QED BY <1>2, <2>1, <2>2, <2>3, <2>4, CommandSteps
<1>8. CASE job[c].at \in {"partial", "full"}
  <2>1. Becomes(c, passed) BY <1>8 DEF SkipFile
  <2> HIDE DEF passed
  <2>2. Works(disk, passed, Clean(c)) BY <1>1, <1>4, <1>5, <1>6, WorksSkipped
  <2>3. Ordered(passed) /\ ReadsTrue(disk, passed) BY <1>1, <1>6, <1>8 DEF Ordered, ReadsTrue
  <2> QED BY <1>2, <1>5, <2>1, <2>2, <2>3, CommandSteps
<1>9. CASE job[c].at = "names"
  <2>1. Becomes(c, Failed) BY <1>9 DEF SkipFile
  <2> QED BY <1>1, <1>2, <2>1, FailedFits, CommandSteps
<1> QED BY <1>7, <1>8, <1>9

LEMMA TakeFits ==
  ASSUME DigestInv, NEW c, c \in Searcher, job[c].todo # <<>>,
         job[c].at \in {"scan", "partial", "full", "names"}, job[c].at = "scan" => job[c].hash,
         NEW t, t \in Pair, TakeDigest(c, t), UNCHANGED <<disk, touched>>,
         \A e \in Searcher : e # c => misled'[e] = misled[e],
         Clean(c)' \subseteq Clean(c),
         Current(c) \in Clean(c)' =>
           disk[Current(c)] # Gone /\ t = Right(disk[Current(c)], KindAt(c))
  PROVE  CommandsFit'
<1>1. /\ job[c] \in JobType /\ Ordered(job[c]) /\ Works(disk, job[c], Clean(c))
      /\ Clean(c) \subseteq Path
  BY CommandFits
<1>2. Works(disk, job[c], Clean(c)') BY <1>1, WorksKept
<1>3. job[c].todo \in Seq(Path) BY <1>1 DEF JobType
<1>4. Current(c) = Head(job[c].todo) /\ Current(c) \in Path /\ Tail(job[c].todo) \in Seq(Path)
  BY <1>3, HeadOrTail DEF Current
<1>5. KindAt(c) = Kind(job[c]) BY DEF KindAt, Kind
<1>6. t # None BY ConstantsKnown
<1> DEFINE i == [job[c] EXCEPT !.todo = Tail(@), !.step = "next", !.first = None, !.digest = None]
           j == IF job[c].at = "partial" THEN [i EXCEPT !.key[Current(c)] = t]
                ELSE [i EXCEPT !.sha[Current(c)] = t]
<1>7. Becomes(c, j) BY DEF TakeDigest
<1>8. i \in JobType BY <1>1, <1>4 DEF JobType
<1>9. /\ i.todo = Tail(job[c].todo) /\ i.at = job[c].at /\ i.key = job[c].key
      /\ i.sha = job[c].sha /\ i.verify = job[c].verify /\ i.hash = job[c].hash
      /\ i.groups = job[c].groups /\ i.size = job[c].size /\ i.step = "next"
  BY <1>1 DEF JobType
<1> HIDE DEF i
<1>10. /\ j \in JobType /\ j.todo = i.todo /\ j.at = i.at /\ j.verify = i.verify /\ j.hash = i.hash
       /\ j.groups = i.groups /\ j.size = i.size /\ j.step = i.step
       /\ j.key = IF i.at = "partial" THEN [i.key EXCEPT ![Current(c)] = t] ELSE i.key
       /\ j.sha = IF i.at = "partial" THEN i.sha ELSE [i.sha EXCEPT ![Current(c)] = t]
  <2>1. CASE job[c].at = "partial"
    <3>1. j = [i EXCEPT !.key[Current(c)] = t] BY <2>1
    <3> QED BY <1>4, <1>8, <1>9, <2>1, <3>1 DEF JobType
  <2>2. CASE job[c].at # "partial"
    <3>1. j = [i EXCEPT !.sha[Current(c)] = t] BY <2>2
    <3> QED BY <1>4, <1>8, <1>9, <2>2, <3>1 DEF JobType
  <2> QED BY <2>1, <2>2
<1> HIDE DEF j
<1>11. /\ j.todo = Tail(job[c].todo) /\ j.at = job[c].at /\ j.verify = job[c].verify
       /\ j.hash = job[c].hash /\ j.groups = job[c].groups /\ j.size = job[c].size
       /\ j.key = IF job[c].at = "partial" THEN [job[c].key EXCEPT ![Head(job[c].todo)] = t]
                  ELSE job[c].key
       /\ j.sha = IF job[c].at = "partial" THEN job[c].sha
                  ELSE [job[c].sha EXCEPT ![Head(job[c].todo)] = t]
  BY <1>4, <1>9, <1>10
<1>12. Clean(c)' \subseteq Path BY <1>1
<1>13. Works(disk, j, Clean(c)')
  <2>1. PICK C : C = Clean(c)' OBVIOUS
  <2>2. C \subseteq Path /\ Works(disk, job[c], C) BY <1>2, <1>12, <2>1
  <2>3. Head(job[c].todo) \in C =>
          disk[Head(job[c].todo)] # Gone /\ t = Right(disk[Head(job[c].todo)], Kind(job[c]))
    BY <1>4, <1>5, <2>1
  <2>4. Works(disk, j, C) BY <1>1, <1>6, <1>10, <1>11, <2>2, <2>3, WorksTreated
  <2> QED BY <2>1, <2>4
<1>14. Ordered(j) /\ ReadsTrue(disk, j) BY <1>1, <1>9, <1>10 DEF Ordered, ReadsTrue
<1> QED BY <1>7, <1>10, <1>13, <1>14, CommandSteps

-----------------------------------------------------------------------------
(* One lemma for each action.                                              *)
LEMMA TypesStand ==
  ASSUME DigestInv, UNCHANGED <<disk, mtime, writes, cache, poisoned, touched, misled>>
  PROVE  DigestTypes'
BY DEF DigestInv, DigestTypes

LEMMA WriteFits ==
  ASSUME DigestInv, NEW p \in Path, NEW x \in Bytes \cup {Gone}, WriteFile(p, x)
  PROVE  DigestInv'
<1> USE DEF DigestInv
<1>1. DigestTypes' BY DEF DigestTypes, WriteFile
<1>2. PICK n : n \in Nat /\ n = writes BY DEF DigestTypes
<1>3. /\ mtime' = [mtime EXCEPT ![p] = n + 1] /\ writes' = n + 1
      /\ cache' = cache /\ poisoned' = poisoned /\ disk' = [disk EXCEPT ![p] = x]
  BY <1>2 DEF WriteFile
<1>4. /\ \A q \in Path : mtime[q] \in Nat /\ mtime[q] <= n
      /\ \A row \in Rows : cache[row] # None => cache[row] \in Entry /\ cache[row].stat[2] <= n
  BY <1>2 DEF DigestTypes, Dated
<1>5. mtime \in [Path -> Nat] /\ disk \in [Path -> Bytes \cup {Gone}] BY DEF DigestTypes
<1>6. \A row \in Rows : cache[row] # None => cache[row].stat[2] \in Nat BY <1>4 DEF Entry
<1>7. Dated'
  <2>1. \A q \in Path : mtime'[q] <= n + 1 BY <1>2, <1>3, <1>4, <1>5
  <2>2. \A row \in Rows : cache[row] # None => cache[row].stat[2] <= n + 1 BY <1>2, <1>4, <1>6
  <2> QED BY <1>3, <2>1, <2>2 DEF Dated
<1>8. RowsTrue'
  <2> SUFFICES ASSUME NEW q \in Path, NEW kind \in {"partial", "sha256"},
                      <<q, kind>> \notin poisoned, cache[<<q, kind>>] # None, disk'[q] # Gone,
                      cache[<<q, kind>>].stat = <<SizeOf[disk'[q]], mtime'[q]>>
               PROVE  cache[<<q, kind>>].digest = Right(disk'[q], kind)
    BY <1>3 DEF RowsTrue
  <2>1. <<q, kind>> \in Rows BY DEF Rows
  <2>2. q # p
    <3>1. cache[<<q, kind>>].stat[2] = mtime'[q] OBVIOUS
    <3>2. mtime'[p] = n + 1 BY <1>3, <1>5
    <3> QED BY <1>2, <1>4, <1>6, <2>1, <3>1, <3>2
  <2>3. disk'[q] = disk[q] /\ mtime'[q] = mtime[q] BY <1>3, <1>5, <2>2
  <2> QED BY <2>3 DEF RowsTrue
<1>9. CommandsFit'
  <2>1. job \in [Searcher -> JobType] BY DEF CommandsFit
  <2>2. job' = [c \in Searcher |->
          IF job[c].step \in {"second", "put"} /\ Current(c) = p
          THEN [job[c] EXCEPT !.dirty = TRUE] ELSE job[c]]
    BY DEF WriteFile
  <2>3. job' \in [Searcher -> JobType]
    <3>1. \A j \in JobType : [j EXCEPT !.dirty = TRUE] \in JobType BY DEF JobType
    <3> QED BY <2>1, <2>2, <3>1
  <2>4. ASSUME NEW c \in Searcher
        PROVE  Ordered(job'[c]) /\ ReadsTrue(disk', job'[c]) /\ Works(disk', job'[c], Clean(c)')
    <3>1. /\ job[c] \in JobType /\ Ordered(job[c]) /\ ReadsTrue(disk, job[c])
          /\ Works(disk, job[c], Clean(c)) /\ Clean(c) \subseteq Path
      BY CommandFits
    <3>2. touched' = [e \in Searcher |-> touched[e] \cup {p}] /\ misled' = misled BY DEF WriteFile
    <3>3. Clean(c)' \subseteq Clean(c) /\ p \notin Clean(c)' BY <3>2 DEF Clean
    <3>4. \A q \in Path : q # p => disk'[q] = disk[q] BY <1>3, <1>5
    <3>5. \A q \in Clean(c)' : disk'[q] = disk[q] BY <3>1, <3>3, <3>4
    <3>6. CASE job[c].step \in {"second", "put"} /\ Current(c) = p
      <4>1. PICK j : j = [job[c] EXCEPT !.dirty = TRUE] OBVIOUS
      <4>2. job'[c] = j BY <2>2, <3>6, <4>1
      <4>3. /\ j.at = job[c].at /\ j.todo = job[c].todo /\ j.size = job[c].size
            /\ j.key = job[c].key /\ j.sha = job[c].sha /\ j.verify = job[c].verify
            /\ j.hash = job[c].hash /\ j.groups = job[c].groups /\ j.dirty
            /\ j.step = job[c].step /\ j.first = job[c].first /\ j.digest = job[c].digest
        BY <3>1, <4>1 DEF JobType
      <4>4. Works(disk', j, Clean(c)') BY <3>1, <3>3, <3>5, <4>3, WorksKept
      <4>5. Ordered(j) BY <3>1, <3>6, <4>3 DEF Ordered
      <4>6. ReadsTrue(disk', j) BY <4>3 DEF ReadsTrue
      <4> QED BY <4>2, <4>4, <4>5, <4>6
    <3>7. CASE ~(job[c].step \in {"second", "put"} /\ Current(c) = p)
      <4>1. job'[c] = job[c] BY <2>2, <3>7
      <4>2. Works(disk', job[c], Clean(c)') BY <3>1, <3>3, <3>5, WorksKept
      <4>3. ReadsTrue(disk', job[c])
        <5> SUFFICES ASSUME job[c].step \in {"second", "put"} PROVE ReadsTrue(disk', job[c])
          BY DEF ReadsTrue
        <5>1. job[c].todo \in Seq(Path) /\ job[c].todo # <<>> BY <3>1 DEF JobType, Ordered
        <5>2. Head(job[c].todo) \in Path /\ Head(job[c].todo) # p
          BY <3>7, <5>1, HeadOrTail DEF Current
        <5>3. disk'[Head(job[c].todo)] = disk[Head(job[c].todo)] BY <3>4, <5>2
        <5> QED BY <3>1, <5>3 DEF ReadsTrue
      <4> QED BY <3>1, <4>1, <4>2, <4>3
    <3> QED BY <3>6, <3>7
  <2> QED BY <2>3, <2>4 DEF CommandsFit
<1> QED BY <1>1, <1>7, <1>8, <1>9

LEMMA StartFits ==
  ASSUME DigestInv, NEW c \in Searcher, NEW verify \in BOOLEAN, NEW hash \in BOOLEAN,
         StartCommand(c, verify, hash)
  PROVE  DigestInv'
<1>1. DigestTypes' BY DEF DigestInv, DigestTypes, StartCommand
<1>2. Dated' /\ RowsTrue' BY RowsStand DEF StartCommand
<1>3. CommandsFit'
  <2>1. job[c] \in JobType /\ job[c] = Idle
    <3>1. job[c].at = "idle" BY DEF StartCommand
    <3> QED BY <3>1, CommandFits DEF Ordered
  <2> DEFINE j == [job[c] EXCEPT !.at = "scan", !.todo = Walk, !.verify = verify, !.hash = hash]
  <2>2. Becomes(c, j) BY DEF StartCommand
  <2>3. Walk \in Seq(Path) /\ ToSet(Walk) = Path BY DigestAssumption
  <2>4. j \in JobType BY <2>1, <2>3 DEF JobType
  <2>5. /\ j.at = "scan" /\ j.todo = Walk /\ j.step = "next" /\ j.size = [p \in Path |-> None]
        /\ j.key = [p \in Path |-> None] /\ j.sha = [p \in Path |-> None]
    BY <2>1 DEF JobType, Idle
  <2> HIDE DEF j
  <2>6. Ordered(j) /\ ReadsTrue(disk, j) BY <2>5 DEF Ordered, ReadsTrue
  <2>7. Works(disk, j, Clean(c)')
    <3>1. PICK C : C = Clean(c)' OBVIOUS
    <3>2. C \subseteq Path BY <3>1 DEF Clean
    <3>3. Works(disk, j, C) BY <2>3, <2>5, <3>2, WorksBlank
    <3> QED BY <3>1, <3>3
  <2>8. /\ disk' = disk
        /\ \A e \in Searcher : e # c => touched'[e] = touched[e] /\ misled'[e] = misled[e]
    BY DEF StartCommand, DigestInv, DigestTypes
  <2> QED BY <2>2, <2>4, <2>6, <2>7, <2>8, CommandSteps
<1> QED BY <1>1, <1>2, <1>3 DEF DigestInv

(* A digest is wanted of a file that is next in one of the four phases.    *)
LEMMA WantsNext ==
  ASSUME DigestInv, NEW c \in Searcher, Wants(c) \/ job[c].step # "next"
  PROVE  /\ job[c].todo # <<>> /\ job[c].at \in {"scan", "partial", "full", "names"}
         /\ job[c].at = "scan" => job[c].hash
         /\ Current(c) \in Path /\ Current(c) = Head(job[c].todo)
         /\ CacheRow(c) \in Rows /\ CacheRow(c) = <<Current(c), KindAt(c)>>
         /\ KindAt(c) = Kind(job[c]) /\ KindAt(c) \in {"partial", "sha256"}
         /\ ReadsAs(c) = Part1(disk[Current(c)], KindAt(c))
<1>1. job[c] \in JobType /\ Ordered(job[c]) BY CommandFits
<1>2. /\ job[c].todo # <<>> /\ job[c].at \in {"scan", "partial", "full", "names"}
      /\ job[c].at = "scan" => job[c].hash
  <2>1. CASE Wants(c) BY <1>1, <2>1 DEF Wants, Ordered
  <2>2. CASE job[c].step # "next" BY <1>1, <2>2 DEF Ordered
  <2> QED BY <2>1, <2>2
<1>3. Current(c) \in Path /\ Current(c) = Head(job[c].todo)
  <2>1. job[c].todo \in Seq(Path) BY <1>1 DEF JobType
  <2> QED BY <1>2, <2>1, HeadOrTail DEF Current
<1>4. KindAt(c) = Kind(job[c]) /\ KindAt(c) \in {"partial", "sha256"} BY DEF KindAt, Kind
<1>5. CacheRow(c) \in Rows /\ CacheRow(c) = <<Current(c), KindAt(c)>> BY <1>3, <1>4 DEF CacheRow, Rows
<1>6. ReadsAs(c) = Part1(disk[Current(c)], KindAt(c)) BY DEF ReadsAs, Part1
<1> QED BY <1>2, <1>3, <1>4, <1>5, <1>6

(* A command that only goes on to the next step of one reading.            *)
LEMMA ReadFits ==
  ASSUME DigestInv, NEW c, c \in Searcher, NEW j, j \in JobType, Becomes(c, j),
         UNCHANGED <<disk, touched, misled>>,
         j.at = job[c].at, j.todo = job[c].todo, j.size = job[c].size, j.key = job[c].key,
         j.sha = job[c].sha, j.verify = job[c].verify, j.hash = job[c].hash,
         j.groups = job[c].groups,
         job[c].todo # <<>>, job[c].at \in {"scan", "partial", "full", "names"},
         job[c].at = "scan" => job[c].hash,
         j.step \in {"first", "second", "put"},
         j.step = "second" => j.first \in Part, j.step = "put" => j.digest \in Pair,
         ReadsTrue(disk, j)
  PROVE  CommandsFit'
<1>1. /\ job[c] \in JobType /\ Ordered(job[c]) /\ Works(disk, job[c], Clean(c))
      /\ Clean(c) \subseteq Path
  BY CommandFits
<1>2. Clean(c)' = Clean(c) BY DEF Clean
<1>3. Works(disk, j, Clean(c)) BY <1>1, WorksKept
<1>4. Ordered(j) BY <1>1 DEF Ordered
<1> QED BY <1>2, <1>3, <1>4, CommandSteps

LEMMA VisitFits ==
  ASSUME DigestInv, NEW c \in Searcher, Visit(c)
  PROVE  DigestInv'
<1>1. UNCHANGED <<disk, mtime, writes, touched, cache, poisoned, misled>> BY DEF Visit, files
<1>2. DigestTypes' /\ Dated' /\ RowsTrue' BY <1>1, TypesStand, RowsStand
<1>3. /\ job[c] \in JobType /\ Ordered(job[c]) /\ Works(disk, job[c], Clean(c))
      /\ Clean(c) \subseteq Path
  BY CommandFits
<1>4. Clean(c)' = Clean(c) BY <1>1 DEF Clean
<1>5. job[c].at = "scan" /\ job[c].step = "next" /\ job[c].todo # <<>> BY DEF Visit
<1>6. job[c].todo \in Seq(Path) BY <1>3 DEF JobType
<1>7. Current(c) = Head(job[c].todo) /\ Current(c) \in Path /\ Tail(job[c].todo) \in Seq(Path)
  BY <1>5, <1>6, HeadOrTail DEF Current
<1>8. CommandsFit'
  <2>1. CASE disk[Current(c)] = Gone
    <3>1. PICK j : j = [job[c] EXCEPT !.todo = Tail(@)] OBVIOUS
    <3>2. Becomes(c, j) BY <2>1, <3>1 DEF Visit
    <3>3. /\ j \in JobType /\ j.todo = Tail(job[c].todo) /\ j.at = job[c].at
          /\ j.key = job[c].key /\ j.sha = job[c].sha /\ j.verify = job[c].verify
          /\ j.hash = job[c].hash /\ j.groups = job[c].groups /\ j.size = job[c].size
          /\ j.step = "next"
      BY <1>3, <1>5, <1>7, <3>1 DEF JobType
    <3>4. Works(disk, j, Clean(c)) BY <1>3, <1>5, <1>7, <2>1, <3>3, WorksSkipped
    <3>5. Ordered(j) /\ ReadsTrue(disk, j) BY <1>3, <1>5, <3>3 DEF Ordered, ReadsTrue
    <3> QED BY <1>1, <1>4, <3>2, <3>3, <3>4, <3>5, CommandSteps
  <2>2. CASE disk[Current(c)] # Gone
    <3>1. PICK j : j = [job[c] EXCEPT !.size[Current(c)] = SizeOf[disk[Current(c)]],
                                      !.step = IF job[c].hash THEN "get" ELSE "next",
                                      !.todo = IF job[c].hash THEN @ ELSE Tail(@)]
      OBVIOUS
    <3>2. Becomes(c, j) BY <2>2, <3>1 DEF Visit
    <3>3. PICK n : n = SizeOf[disk[Current(c)]] /\ n \in Nat
      <4>1. disk[Current(c)] \in Bytes BY <1>7, <2>2 DEF DigestInv, DigestTypes
      <4> QED BY <4>1, ConstantsKnown
    <3>4. n # None BY <3>3, ConstantsKnown
    <3>5. /\ j \in JobType /\ j.at = job[c].at
          /\ j.key = job[c].key /\ j.sha = job[c].sha /\ j.verify = job[c].verify
          /\ j.hash = job[c].hash /\ j.groups = job[c].groups
          /\ j.size = [job[c].size EXCEPT ![Current(c)] = n]
          /\ j.step = IF job[c].hash THEN "get" ELSE "next"
          /\ j.todo = IF job[c].hash THEN job[c].todo ELSE Tail(job[c].todo)
      BY <1>3, <1>5, <1>6, <1>7, <3>1, <3>3 DEF JobType
    <3>6. /\ j.size = [job[c].size EXCEPT ![Head(job[c].todo)] = SizeOf[disk[Head(job[c].todo)]]]
          /\ SizeOf[disk[Head(job[c].todo)]] # None /\ disk[Head(job[c].todo)] # Gone
      BY <1>7, <2>2, <3>3, <3>4, <3>5
    <3>7. j.todo = Tail(job[c].todo) \/ job[c].hash BY <3>5
    <3>8. Works(disk, j, Clean(c)) BY <1>3, <1>5, <3>5, <3>6, <3>7, WorksSized
    <3>9. Ordered(j) /\ ReadsTrue(disk, j) BY <1>3, <1>5, <3>5 DEF Ordered, ReadsTrue
    <3> QED BY <1>1, <1>4, <3>2, <3>5, <3>8, <3>9, CommandSteps
  <2> QED BY <2>1, <2>2
<1> QED BY <1>2, <1>8 DEF DigestInv

LEMMA GetFits ==
  ASSUME DigestInv, NEW c \in Searcher, Get(c)
  PROVE  DigestInv'
<1>1. UNCHANGED <<disk, mtime, writes, touched, cache, poisoned>> BY DEF Get, files
<1>2. Dated' /\ RowsTrue' BY <1>1, RowsStand
<1>3. Wants(c) BY DEF Get
<1>4. /\ job[c].todo # <<>> /\ job[c].at \in {"scan", "partial", "full", "names"}
      /\ job[c].at = "scan" => job[c].hash
      /\ Current(c) \in Path /\ CacheRow(c) \in Rows /\ CacheRow(c) = <<Current(c), KindAt(c)>>
      /\ KindAt(c) \in {"partial", "sha256"}
  BY <1>3, WantsNext
<1>5. CASE disk[Current(c)] = Gone
  <2>1. SkipFile(c) /\ UNCHANGED misled BY <1>5 DEF Get
  <2>2. DigestTypes' BY <1>1, <2>1, TypesStand
  <2>3. CommandsFit' BY <1>1, <1>4, <1>5, <2>1, SkipFits
  <2> QED BY <1>2, <2>2, <2>3 DEF DigestInv
<1>6. CASE disk[Current(c)] # Gone /\ cache[CacheRow(c)] # None /\ cache[CacheRow(c)].stat = Stat(Current(c))
  <2>1. PICK t : t = cache[CacheRow(c)].digest OBVIOUS
  <2>2. /\ TakeDigest(c, t)
        /\ misled' = IF CacheRow(c) \in poisoned THEN [misled EXCEPT ![c] = @ \cup {Current(c)}]
                     ELSE misled
    BY <1>6, <2>1 DEF Get
  <2>3. misled \in [Searcher -> SUBSET Path] /\ cache \in [Rows -> Entry \cup {None}]
    BY DEF DigestInv, DigestTypes
  <2>4. misled' \in [Searcher -> SUBSET Path] BY <1>4, <2>2, <2>3
  <2>5. DigestTypes' BY <1>1, <2>4 DEF DigestInv, DigestTypes
  <2>6. t \in Pair
    <3>1. cache[CacheRow(c)] \in Entry BY <1>4, <1>6, <2>3
    <3> QED BY <2>1, <3>1 DEF Entry
  <2>7. \A e \in Searcher : e # c => misled'[e] = misled[e] BY <2>2, <2>3
  <2>8. Clean(c)' \subseteq Clean(c) BY <1>1, <2>2, <2>3 DEF Clean
  <2>9. ASSUME Current(c) \in Clean(c)' PROVE t = Right(disk[Current(c)], KindAt(c))
    <3>1. CacheRow(c) \notin poisoned BY <2>2, <2>3, <2>9 DEF Clean
    <3>2. cache[CacheRow(c)].stat = <<SizeOf[disk[Current(c)]], mtime[Current(c)]>> BY <1>6 DEF Stat
    <3>3. RowsTrue BY DEF DigestInv
    <3> QED BY <1>4, <1>6, <2>1, <3>1, <3>2, <3>3 DEF RowsTrue
  <2>10. CommandsFit' BY <1>1, <1>4, <1>6, <2>2, <2>6, <2>7, <2>8, <2>9, TakeFits
  <2> QED BY <1>2, <2>5, <2>10 DEF DigestInv
<1>7. CASE /\ disk[Current(c)] # Gone
           /\ ~(cache[CacheRow(c)] # None /\ cache[CacheRow(c)].stat = Stat(Current(c)))
  <2>1. PICK j : j = [job[c] EXCEPT !.step = "first", !.dirty = FALSE] OBVIOUS
  <2>2. Becomes(c, j) /\ UNCHANGED misled BY <1>7, <2>1 DEF Get
  <2>3. job[c] \in JobType BY CommandFits
  <2>4. /\ j \in JobType /\ j.at = job[c].at /\ j.todo = job[c].todo /\ j.size = job[c].size
        /\ j.key = job[c].key /\ j.sha = job[c].sha /\ j.verify = job[c].verify
        /\ j.hash = job[c].hash /\ j.groups = job[c].groups /\ j.step = "first"
    BY <2>1, <2>3 DEF JobType
  <2>5. ReadsTrue(disk, j) BY <2>4 DEF ReadsTrue
  <2>6. CommandsFit' BY <1>1, <1>4, <2>2, <2>4, <2>5, ReadFits
  <2>7. DigestTypes' BY <1>1, <2>2, TypesStand
  <2> QED BY <1>2, <2>6, <2>7 DEF DigestInv
<1> QED BY <1>5, <1>6, <1>7

LEMMA ReadFirstFits ==
  ASSUME DigestInv, NEW c \in Searcher, ReadFirst(c)
  PROVE  DigestInv'
<1>1. UNCHANGED <<disk, mtime, writes, touched, cache, poisoned, misled>> BY DEF ReadFirst, files
<1>2. DigestTypes' /\ Dated' /\ RowsTrue' BY <1>1, TypesStand, RowsStand
<1>3. job[c].step # "next" BY DEF ReadFirst
<1>4. /\ job[c].todo # <<>> /\ job[c].at \in {"scan", "partial", "full", "names"}
      /\ job[c].at = "scan" => job[c].hash
      /\ Current(c) \in Path /\ Current(c) = Head(job[c].todo) /\ KindAt(c) = Kind(job[c])
      /\ ReadsAs(c) = Part1(disk[Current(c)], KindAt(c))
  BY <1>3, WantsNext
<1>5. CommandsFit'
  <2>1. CASE disk[Current(c)] = Gone
    <3>1. SkipFile(c) BY <2>1 DEF ReadFirst
    <3> QED BY <1>1, <1>4, <2>1, <3>1, SkipFits
  <2>2. CASE disk[Current(c)] # Gone
    <3>1. PICK j : j = [job[c] EXCEPT !.step = "second", !.first = ReadsAs(c)] OBVIOUS
    <3>2. Becomes(c, j) BY <2>2, <3>1 DEF ReadFirst
    <3>3. job[c] \in JobType BY CommandFits
    <3>4. ReadsAs(c) \in Part
      <4>1. disk[Current(c)] \in Bytes BY <1>4, <2>2 DEF DigestInv, DigestTypes
      <4> QED BY <1>4, <4>1, ConstantsKnown DEF Part1
    <3>5. /\ j \in JobType /\ j.at = job[c].at /\ j.todo = job[c].todo /\ j.size = job[c].size
          /\ j.key = job[c].key /\ j.sha = job[c].sha /\ j.verify = job[c].verify
          /\ j.hash = job[c].hash /\ j.groups = job[c].groups /\ j.step = "second"
          /\ j.first = ReadsAs(c)
      BY <3>1, <3>3, <3>4 DEF JobType
    <3>6. Kind(j) = Kind(job[c]) BY <3>5 DEF Kind
    <3>7. ReadsTrue(disk, j) BY <1>4, <2>2, <3>5, <3>6 DEF ReadsTrue
    <3> QED BY <1>1, <1>4, <3>2, <3>4, <3>5, <3>7, ReadFits
  <2> QED BY <2>1, <2>2
<1> QED BY <1>2, <1>5 DEF DigestInv

LEMMA ReadSecondFits ==
  ASSUME DigestInv, NEW c \in Searcher, ReadSecond(c)
  PROVE  DigestInv'
<1>1. UNCHANGED <<disk, mtime, writes, touched, cache, poisoned, misled>> BY DEF ReadSecond, files
<1>2. DigestTypes' /\ Dated' /\ RowsTrue' BY <1>1, TypesStand, RowsStand
<1>3. job[c].step = "second" BY DEF ReadSecond
<1>4. /\ job[c].todo # <<>> /\ job[c].at \in {"scan", "partial", "full", "names"}
      /\ job[c].at = "scan" => job[c].hash
      /\ Current(c) \in Path /\ Current(c) = Head(job[c].todo) /\ KindAt(c) = Kind(job[c])
      /\ ReadsAs(c) = Part1(disk[Current(c)], KindAt(c))
  BY <1>3, WantsNext
<1>5. job[c] \in JobType /\ Ordered(job[c]) /\ ReadsTrue(disk, job[c]) BY CommandFits
<1>6. job[c].first \in Part BY <1>3, <1>5 DEF Ordered
<1>7. PICK rest \in {job[c].first} \cup (IF disk[Current(c)] = Gone THEN {} ELSE {ReadsAs(c)}) :
        Becomes(c, [job[c] EXCEPT !.step = "put", !.digest = <<job[c].first, rest>>])
  BY DEF ReadSecond
<1>8. rest = job[c].first \/ (disk[Current(c)] # Gone /\ rest = ReadsAs(c)) OBVIOUS
<1>9. rest \in Part
  <2>1. disk[Current(c)] # Gone => disk[Current(c)] \in Bytes
    BY <1>4 DEF DigestInv, DigestTypes
  <2>2. disk[Current(c)] # Gone => ReadsAs(c) \in Part BY <1>4, <2>1, ConstantsKnown DEF Part1
  <2> QED BY <1>6, <1>8, <2>2
<1>10. PICK j : j = [job[c] EXCEPT !.step = "put", !.digest = <<job[c].first, rest>>] OBVIOUS
<1>11. Becomes(c, j) BY <1>7, <1>10
<1>12. <<job[c].first, rest>> \in Pair BY <1>6, <1>9 DEF Pair
<1>13. /\ j \in JobType /\ j.at = job[c].at /\ j.todo = job[c].todo /\ j.size = job[c].size
       /\ j.key = job[c].key /\ j.sha = job[c].sha /\ j.verify = job[c].verify
       /\ j.hash = job[c].hash /\ j.groups = job[c].groups /\ j.step = "put"
       /\ j.digest = <<job[c].first, rest>> /\ j.dirty = job[c].dirty
  BY <1>5, <1>10, <1>12 DEF JobType
<1>14. Kind(j) = Kind(job[c]) BY <1>13 DEF Kind
<1>15. ReadsTrue(disk, j)
  <2> SUFFICES ASSUME ~job[c].dirty
               PROVE  /\ disk[Head(j.todo)] # Gone
                      /\ j.digest = Right(disk[Head(j.todo)], Kind(j))
    BY <1>13 DEF ReadsTrue
  <2>1. disk[Current(c)] # Gone /\ job[c].first = Part1(disk[Current(c)], Kind(job[c]))
    BY <1>3, <1>4, <1>5 DEF ReadsTrue
  <2>2. rest = job[c].first BY <1>4, <1>8, <2>1
  <2> QED BY <1>4, <1>13, <1>14, <2>1, <2>2 DEF Right
<1>16. CommandsFit' BY <1>1, <1>4, <1>11, <1>12, <1>13, <1>15, ReadFits
<1> QED BY <1>2, <1>16 DEF DigestInv

LEMMA PutFits ==
  ASSUME DigestInv, NEW c \in Searcher, PutDigest(c)
  PROVE  DigestInv'
<1>1. UNCHANGED <<disk, mtime, writes, touched>> BY DEF PutDigest, files
<1>2. job[c].step = "put" BY DEF PutDigest
<1>3. /\ job[c].todo # <<>> /\ job[c].at \in {"scan", "partial", "full", "names"}
      /\ job[c].at = "scan" => job[c].hash
      /\ Current(c) \in Path /\ Current(c) = Head(job[c].todo) /\ KindAt(c) = Kind(job[c])
      /\ CacheRow(c) \in Rows /\ CacheRow(c) = <<Current(c), KindAt(c)>>
  BY <1>2, WantsNext
<1>4. CASE disk[Current(c)] = Gone
  <2>1. SkipFile(c) /\ UNCHANGED <<cache, poisoned, misled>> BY <1>4 DEF PutDigest
  <2>2. DigestTypes' /\ Dated' /\ RowsTrue' BY <1>1, <2>1, TypesStand, RowsStand
  <2>3. CommandsFit' BY <1>1, <1>3, <1>4, <2>1, SkipFits
  <2> QED BY <2>2, <2>3 DEF DigestInv
<1>5. CASE disk[Current(c)] # Gone
  <2>1. PICK t : t = job[c].digest OBVIOUS
  <2>2. PICK entry : entry = [stat |-> Stat(Current(c)), digest |-> t] OBVIOUS
  <2>3. /\ cache' = [cache EXCEPT ![CacheRow(c)] = entry] /\ TakeDigest(c, t)
        /\ IF job[c].dirty
           THEN /\ poisoned' = poisoned \cup {CacheRow(c)}
                /\ misled' = [misled EXCEPT ![c] = @ \cup {Current(c)}]
           ELSE poisoned' = poisoned \ {CacheRow(c)} /\ misled' = misled
    BY <1>5, <2>1, <2>2 DEF PutDigest
  <2>4. job[c] \in JobType /\ Ordered(job[c]) /\ ReadsTrue(disk, job[c]) BY CommandFits
  <2>5. t \in Pair BY <1>2, <2>1, <2>4 DEF Ordered
  <2>6. /\ disk \in [Path -> Bytes \cup {Gone}] /\ mtime \in [Path -> Nat]
        /\ misled \in [Searcher -> SUBSET Path] /\ cache \in [Rows -> Entry \cup {None}]
        /\ poisoned \subseteq Rows
    BY DEF DigestInv, DigestTypes
  <2>7. PICK s, m : s = SizeOf[disk[Current(c)]] /\ m = mtime[Current(c)] OBVIOUS
  <2>8. s \in Nat /\ m \in Nat /\ m <= writes
    <3>1. disk[Current(c)] \in Bytes BY <1>3, <1>5, <2>6
    <3>2. s \in Nat BY <2>7, <3>1, ConstantsKnown
    <3>3. m \in Nat BY <1>3, <2>6, <2>7
    <3>4. m <= writes BY <1>3, <2>7 DEF DigestInv, Dated
    <3> QED BY <3>2, <3>3, <3>4
  <2>9. entry = [stat |-> <<s, m>>, digest |-> t] BY <2>2, <2>7 DEF Stat
  <2>10. entry \in Entry BY <2>5, <2>8, <2>9 DEF Entry
  <2>11. /\ entry.stat = <<s, m>> /\ entry.stat[2] = m /\ entry.digest = t BY <2>9
  <2>12. \A row \in Rows : cache'[row] = IF row = CacheRow(c) THEN entry ELSE cache[row]
    BY <1>3, <2>3, <2>6
  <2>13. cache' \in [Rows -> Entry \cup {None}] BY <1>3, <2>3, <2>6, <2>10
  <2>14. ~job[c].dirty => t = Right(disk[Current(c)], KindAt(c))
    BY <1>2, <1>3, <2>1, <2>4 DEF ReadsTrue
  <2>15. DigestTypes'
    <3>1. poisoned' \subseteq Rows BY <1>3, <2>3, <2>6
    <3>2. misled' \in [Searcher -> SUBSET Path] BY <1>3, <2>3, <2>6
    <3> QED BY <1>1, <2>13, <3>1, <3>2 DEF DigestInv, DigestTypes
  <2>16. Dated' BY <1>1, <2>8, <2>11, <2>12 DEF DigestInv, Dated
  <2>17. RowsTrue'
    <3> SUFFICES ASSUME NEW p \in Path, NEW kind \in {"partial", "sha256"},
                        <<p, kind>> \notin poisoned', cache'[<<p, kind>>] # None, disk[p] # Gone,
                        cache'[<<p, kind>>].stat = <<SizeOf[disk[p]], mtime[p]>>
                 PROVE  cache'[<<p, kind>>].digest = Right(disk[p], kind)
      BY <1>1 DEF RowsTrue
    <3>1. <<p, kind>> \in Rows BY DEF Rows
    <3>2. CASE <<p, kind>> = CacheRow(c)
      <4>1. ~job[c].dirty BY <2>3, <3>2
      <4>2. p = Current(c) /\ kind = KindAt(c) BY <1>3, <3>2
      <4>3. cache'[<<p, kind>>].digest = t BY <2>11, <2>12, <3>1, <3>2
      <4> QED BY <2>14, <4>1, <4>2, <4>3
    <3>3. CASE <<p, kind>> # CacheRow(c)
      <4>1. cache'[<<p, kind>>] = cache[<<p, kind>>] BY <2>12, <3>1, <3>3
      <4>2. <<p, kind>> \notin poisoned BY <2>3, <3>3
      <4>3. RowsTrue BY DEF DigestInv
      <4> QED BY <4>1, <4>2, <4>3 DEF RowsTrue
    <3> QED BY <3>2, <3>3
  <2>18. \A e \in Searcher : e # c => misled'[e] = misled[e] BY <2>3, <2>6
  <2>19. Clean(c)' \subseteq Clean(c) BY <1>1, <2>3, <2>6 DEF Clean
  <2>20. ASSUME Current(c) \in Clean(c)' PROVE t = Right(disk[Current(c)], KindAt(c))
    <3>1. ~job[c].dirty BY <2>3, <2>6, <2>20 DEF Clean
    <3> QED BY <2>14, <3>1
  <2>21. CommandsFit' BY <1>1, <1>3, <1>5, <2>3, <2>5, <2>18, <2>19, <2>20, TakeFits
  <2> QED BY <2>15, <2>16, <2>17, <2>21 DEF DigestInv
<1> QED BY <1>4, <1>5

LEMMA DieFits ==
  ASSUME DigestInv, NEW c \in Searcher, DieSearching(c)
  PROVE  DigestInv'
<1>1. UNCHANGED <<disk, mtime, writes, touched, cache, poisoned, misled>> BY DEF DieSearching, files
<1>2. DigestTypes' /\ Dated' /\ RowsTrue' BY <1>1, TypesStand, RowsStand
<1>3. Becomes(c, Failed) BY DEF DieSearching
<1>4. Clean(c)' = Clean(c) /\ Clean(c) \subseteq Path BY <1>1 DEF Clean
<1>5. CommandsFit' BY <1>1, <1>3, <1>4, FailedFits, CommandSteps
<1> QED BY <1>2, <1>5 DEF DigestInv

LEMMA EndPhaseFits ==
  ASSUME DigestInv, NEW c \in Searcher, EndPhase(c)
  PROVE  DigestInv'
<1>1. UNCHANGED <<disk, mtime, writes, touched, cache, poisoned, misled>> BY DEF EndPhase, files
<1>2. DigestTypes' /\ Dated' /\ RowsTrue' BY <1>1, TypesStand, RowsStand
<1>3. /\ job[c] \in JobType /\ Ordered(job[c]) /\ Works(disk, job[c], Clean(c))
      /\ Clean(c) \subseteq Path
  BY CommandFits
<1>4. Clean(c)' = Clean(c) BY <1>1 DEF Clean
<1>5. job[c].step = "next" /\ job[c].todo = <<>> BY DEF EndPhase
<1>6. Classes(Scanned(c), job[c].size) = SizeClasses(job[c]) BY DEF Scanned, SizeClasses
<1>7. SameEnds(c) = EndClasses(job[c]) BY DEF SameEnds, EndClasses
<1>8. SameContent(c) = ContentClasses(job[c]) BY <1>7 DEF SameContent, ContentClasses
<1>9. \A g \in SizeClasses(job[c]) : g \subseteq Path BY OfClasses DEF SizeClasses
<1>10. \A g \in EndClasses(job[c]) : g \subseteq Path BY OfClasses DEF EndClasses
<1>11. \A g \in ContentClasses(job[c]) : g \subseteq Path
  <2>1. \A g \in ContentClasses(job[c]) : g \subseteq UNION EndClasses(job[c])
    BY OfClasses DEF ContentClasses
  <2> QED BY <1>10, <2>1
<1>12. CASE job[c].at = "scan"
  <2>1. CASE job[c].hash
    <3>1. PICK j : j = [Idle EXCEPT !.at = "done", !.hash = TRUE] OBVIOUS
    <3>2. Becomes(c, j) BY <1>12, <2>1, <3>1 DEF EndPhase
    <3>3. Idle \in JobType
      <4>1. <<>> \in Seq(Path) BY EmptySeq
      <4> QED BY <4>1 DEF Idle, JobType
    <3>4. j \in JobType BY <3>1, <3>3 DEF JobType
    <3>5. /\ j.at = "done" /\ j.hash /\ j.step = "next" /\ j.size = [p \in Path |-> None]
          /\ j.key = [p \in Path |-> None] /\ j.sha = [p \in Path |-> None]
      BY <3>1 DEF Idle
    <3>6. Works(disk, j, Clean(c)) BY <1>3, <3>5, WorksBlank
    <3>7. Ordered(j) /\ ReadsTrue(disk, j) BY <3>5 DEF Ordered, ReadsTrue
    <3>8. CommandsFit' BY <1>1, <1>4, <3>2, <3>4, <3>6, <3>7, CommandSteps
    <3> QED BY <1>2, <3>8 DEF DigestInv
  <2>2. CASE ~job[c].hash
    <3>1. PICK list : list = InOrder(UNION SizeClasses(job[c])) OBVIOUS
    <3>2. list \in Seq(Path) /\ ToSet(list) = UNION SizeClasses(job[c])
      BY <1>9, <3>1, WalkAmong
    <3>3. PICK j : j = [job[c] EXCEPT !.at = "partial", !.todo = list] OBVIOUS
    <3>4. Becomes(c, j) BY <1>6, <1>12, <2>2, <3>1, <3>3 DEF EndPhase
    <3>5. /\ j \in JobType /\ j.at = "partial" /\ j.todo = list /\ j.size = job[c].size
          /\ j.key = job[c].key /\ j.sha = job[c].sha /\ j.verify = job[c].verify
          /\ j.hash = job[c].hash /\ j.step = "next"
      BY <1>3, <1>5, <3>2, <3>3 DEF JobType
    <3>6. Works(disk, j, Clean(c)) BY <1>3, <1>5, <1>12, <3>2, <3>5, WorksListed
    <3>7. Ordered(j) /\ ReadsTrue(disk, j) BY <2>2, <3>5 DEF Ordered, ReadsTrue
    <3>8. CommandsFit' BY <1>1, <1>4, <3>4, <3>5, <3>6, <3>7, CommandSteps
    <3> QED BY <1>2, <3>8 DEF DigestInv
  <2> QED BY <2>1, <2>2
<1>13. CASE job[c].at = "partial" /\ job[c].verify
  <2>1. PICK list : list = InOrder(UNION EndClasses(job[c])) OBVIOUS
  <2>2. list \in Seq(Path) /\ ToSet(list) = UNION EndClasses(job[c])
    BY <1>10, <2>1, WalkAmong
  <2>3. PICK j : j = [job[c] EXCEPT !.at = "full", !.todo = list] OBVIOUS
  <2>4. Becomes(c, j) BY <1>7, <1>13, <2>1, <2>3 DEF EndPhase
  <2>5. /\ j \in JobType /\ j.at = "full" /\ j.todo = list /\ j.size = job[c].size
        /\ j.key = job[c].key /\ j.sha = job[c].sha /\ j.verify = job[c].verify
        /\ j.hash = job[c].hash /\ j.step = "next"
    BY <1>3, <1>5, <2>2, <2>3 DEF JobType
  <2>6. Works(disk, j, Clean(c)) BY <1>3, <1>5, <1>13, <2>2, <2>5, WorksCompared
  <2>7. Ordered(j) /\ ReadsTrue(disk, j) BY <1>3, <1>13, <2>5 DEF Ordered, ReadsTrue
  <2>8. CommandsFit' BY <1>1, <1>4, <2>4, <2>5, <2>6, <2>7, CommandSteps
  <2> QED BY <1>2, <2>8 DEF DigestInv
<1>14. CASE job[c].at = (IF job[c].verify THEN "full" ELSE "partial")
  <2>1. PICK set : set = {p \in SameName(c) : job[c].sha[p] = None} OBVIOUS
  <2>2. set \subseteq Path
    <3>1. \A g \in Classes(Scanned(c), NameOf) : g \subseteq Scanned(c) BY OfClasses
    <3> QED BY <2>1, <3>1 DEF SameName, Scanned
  <2>3. PICK list : list = InOrder(set) OBVIOUS
  <2>4. list \in Seq(Path) BY <2>2, <2>3, WalkAmong
  <2>5. PICK groups : groups = IF job[c].verify THEN SameContent(c) ELSE SameEnds(c) OBVIOUS
  <2>6. groups \in SUBSET SUBSET Path BY <1>7, <1>8, <1>10, <1>11, <2>5
  <2>7. PICK j : j = [job[c] EXCEPT !.at = "names", !.groups = groups, !.todo = list] OBVIOUS
  <2>8. Becomes(c, j) BY <1>14, <2>1, <2>3, <2>5, <2>7 DEF EndPhase
  <2>9. /\ j \in JobType /\ j.at = "names" /\ j.groups = groups /\ j.size = job[c].size
        /\ j.key = job[c].key /\ j.sha = job[c].sha /\ j.verify = job[c].verify
        /\ j.hash = job[c].hash /\ j.step = "next"
    BY <1>3, <1>5, <2>4, <2>6, <2>7 DEF JobType
  <2>10. job[c].verify => job[c].at = "full" /\ j.groups = ContentClasses(job[c])
    BY <1>8, <1>14, <2>5, <2>9
  <2>11. Works(disk, j, Clean(c)) BY <1>3, <1>5, <2>9, <2>10, WorksGrouped
  <2>12. Ordered(j) /\ ReadsTrue(disk, j) BY <1>3, <1>14, <2>9 DEF Ordered, ReadsTrue
  <2>13. CommandsFit' BY <1>1, <1>4, <2>8, <2>9, <2>11, <2>12, CommandSteps
  <2> QED BY <1>2, <2>13 DEF DigestInv
<1>15. CASE job[c].at = "names"
  <2>1. PICK j : j = [job[c] EXCEPT !.at = "done"] OBVIOUS
  <2>2. Becomes(c, j) BY <1>15, <2>1 DEF EndPhase
  <2>3. /\ j \in JobType /\ j.at = "done" /\ j.todo = job[c].todo /\ j.size = job[c].size
        /\ j.key = job[c].key /\ j.sha = job[c].sha /\ j.verify = job[c].verify
        /\ j.hash = job[c].hash /\ j.groups = job[c].groups /\ j.step = "next"
    BY <1>3, <1>5, <2>1 DEF JobType
  <2>4. Works(disk, j, Clean(c))
    <3>1. NotesTrue(disk, j, Clean(c)) BY <1>3, <2>3 DEF Works, NotesTrue
    <3>2. Complete(disk, j, Clean(c)) BY <2>3 DEF Complete
    <3>3. Sorted(disk, j, Clean(c)) BY <1>3, <1>15, <2>3 DEF Works, Sorted
    <3> QED BY <3>1, <3>2, <3>3 DEF Works
  <2>5. Ordered(j) /\ ReadsTrue(disk, j) BY <1>3, <1>15, <2>3 DEF Ordered, ReadsTrue
  <2>6. CommandsFit' BY <1>1, <1>4, <2>2, <2>3, <2>4, <2>5, CommandSteps
  <2> QED BY <1>2, <2>6 DEF DigestInv
<1> QED BY <1>12, <1>13, <1>14, <1>15 DEF EndPhase

LEMMA DigestStarts == DigestInit => DigestInv
<1> SUFFICES ASSUME DigestInit PROVE DigestInv OBVIOUS
<1> USE DEF DigestInit
<1>1. DigestTypes BY DEF DigestTypes, Rows
<1>2. Dated /\ RowsTrue BY DEF Dated, RowsTrue, Rows
<1>3. Idle \in JobType
  <2>1. <<>> \in Seq(Path) BY EmptySeq
  <2> QED BY <2>1 DEF Idle, JobType
<1>4. /\ Idle.at = "idle" /\ Idle.step = "next" /\ ~Idle.hash /\ Idle.size = [p \in Path |-> None]
      /\ Idle.key = [p \in Path |-> None] /\ Idle.sha = [p \in Path |-> None]
  BY DEF Idle
<1>5. \A c \in Searcher : Ordered(job[c]) /\ ReadsTrue(disk, job[c]) /\ Works(disk, job[c], Clean(c))
  <2> SUFFICES ASSUME NEW c \in Searcher
               PROVE  Ordered(Idle) /\ ReadsTrue(disk, Idle) /\ Works(disk, Idle, Clean(c))
    OBVIOUS
  <2>1. Ordered(Idle) /\ ReadsTrue(disk, Idle) BY <1>4 DEF Ordered, ReadsTrue
  <2>2. Clean(c) \subseteq Path BY DEF Clean
  <2>3. Works(disk, Idle, Clean(c)) BY <1>4, <2>2, WorksBlank
  <2> QED BY <2>1, <2>3
<1> QED BY <1>1, <1>2, <1>3, <1>5 DEF DigestInv, CommandsFit

LEMMA DigestSteps == DigestInv /\ [DigestNext]_digestVars => DigestInv'
<1> SUFFICES ASSUME DigestInv, [DigestNext]_digestVars PROVE DigestInv' OBVIOUS
<1>1. ASSUME NEW p \in Path, NEW x \in Bytes \cup {Gone}, WriteFile(p, x) PROVE DigestInv'
  BY <1>1, WriteFits
<1>2. ASSUME NEW c \in Searcher, NEW verify \in BOOLEAN, NEW hash \in BOOLEAN,
             StartCommand(c, verify, hash)
      PROVE  DigestInv'
  BY <1>2, StartFits
<1>3. ASSUME NEW c \in Searcher,
             Visit(c) \/ Get(c) \/ ReadFirst(c) \/ ReadSecond(c) \/ PutDigest(c) \/ EndPhase(c)
               \/ DieSearching(c)
      PROVE  DigestInv'
  BY <1>3, VisitFits, GetFits, ReadFirstFits, ReadSecondFits, PutFits, EndPhaseFits, DieFits
<1>4. CASE UNCHANGED digestVars
  BY <1>4 DEF digestVars, DigestInv, DigestTypes, Dated, RowsTrue, CommandsFit, Clean
<1> QED BY <1>1, <1>2, <1>3, <1>4 DEF DigestNext

LEMMA DigestShows == DigestInv => DuplicatesAreSame
<1> SUFFICES ASSUME DigestInv PROVE DuplicatesAreSame OBVIOUS
<1>1. ASSUME NEW row \in DOMAIN cache \ poisoned
      PROVE  LET x == disk[row[1]]
                 right == IF row[2] = "partial" THEN EndsOf[x] ELSE x
             IN cache[row] # None /\ x # Gone =>
                  (cache[row].stat = Stat(row[1]) => cache[row].digest = <<right, right>>)
  <2>1. row \in Rows BY DEF DigestInv, DigestTypes
  <2>2. PICK p \in Path, kind \in {"partial", "sha256"} : row = <<p, kind>> BY <2>1 DEF Rows
  <2>3. row[1] = p /\ row[2] = kind BY <2>2
  <2>4. RowsTrue BY DEF DigestInv
  <2> QED BY <2>2, <2>3, <2>4 DEF RowsTrue, Right, Part1, Stat
<1>2. ASSUME NEW c \in Searcher, job[c].at \in {"names", "done"}, job[c].verify, ~job[c].hash
      PROVE  LET S == Path \ (touched[c] \cup misled[c])
             IN {g \cap S : g \in {h \in job[c].groups : h \cap S # {}}} \ {{p} : p \in S}
                  = Classes({p \in S : disk[p] # Gone}, disk)
  <2>1. PICK S, groups : S = Path \ (touched[c] \cup misled[c]) /\ groups = job[c].groups OBVIOUS
  <2>2. Sorted(disk, job[c], S) BY <2>1, CommandFits DEF Works, Clean
  <2>3. /\ \A g, h \in groups : g \cap h # {} => g = h
        /\ \A g \in groups : \A p \in g \cap S : disk[p] # Gone
        /\ \A p, q \in S : p # q /\ disk[p] # Gone =>
             (disk[p] = disk[q] <=> \E g \in groups : p \in g /\ q \in g)
    BY <1>2, <2>1, <2>2 DEF Sorted
  <2>4. {g \cap S : g \in {h \in groups : h \cap S # {}}} \ {{p} : p \in S}
          = Classes({p \in S : disk[p] # Gone}, disk)
    BY <2>3, TogetherIsSame
  <2> QED BY <2>1, <2>4
<1> QED BY <1>1, <1>2 DEF DuplicatesAreSame

(* What is said of duplicates holds for any files and commands             *)
(* (DuplicatesAreSame).                                                    *)
THEOREM DuplicatesAreDuplicates == DigestSpec => []DuplicatesAreSame
BY DigestStarts, DigestSteps, DigestShows, PTL DEF DigestSpec

-----------------------------------------------------------------------------
(* Backup, for any files, contents and selections, any number of commands, *)
(* retries and edits.                                                      *)

Value   == Content \cup {Nothing, TornCopy} \cup {Half(c) : c \in Content}
Working == {"open", "copy", "compare", "move"}

BackupTyped ==
  /\ source \in [File -> Content] /\ excluded \subseteq File
  /\ plan \in Seq(File) /\ remote \in BOOLEAN /\ strategy \in {"skip", "rename"}
  /\ grant \in {"none", "valid", "consumed"} /\ approvals \in Nat
  /\ target \in [Slot -> Value] /\ whole \in [Slot -> Value]
  /\ writing \in [Applier -> Slot \cup {NoPlace}]
  /\ at \in [Applier -> {"idle", "selected", "check", "attempt", "next", "ok", "failed"}
                      \cup Working]
  /\ dry \in [Applier -> BOOLEAN]
  /\ left \in [Applier -> Seq(File)]
  /\ dest \in [Applier -> LocalPlace \cup {NoPlace}]
  /\ stored \in [Applier -> SUBSET File] /\ skipped \in [Applier -> SUBSET File]
  /\ attempts \in [Applier -> Nat] /\ ruled \in [Applier -> SUBSET File]

(* A process that is past the checks consumed an approval, and no file of  *)
(* the plan is one that a rule named when it began.                        *)
Cleared(p) == ~dry[p] /\ approvals > 0 /\ ToSet(plan) \cap ruled[p] = {}
Allowed(p) ==
  /\ at[p] # "idle" => plan # <<>>
  /\ ruled[p] \subseteq excluded
  /\ at[p] = "selected" => ~dry[p] /\ approvals > 0
  /\ at[p] = "check" => dry[p] \/ approvals > 0
  /\ at[p] \in {"attempt", "next"} \cup Working => Cleared(p)
  /\ at[p] \in {"idle", "selected", "check"} => stored[p] = {} /\ skipped[p] = {}
  /\ stored[p] # {} => Cleared(p)
Authorized ==
  /\ grant = "valid" => approvals > 0
  /\ \A p \in Applier : Allowed(p)

(* Attempts are counted, and a process that has ended well has done all.   *)
Counted ==
  \A p \in Applier :
    /\ at[p] \in {"idle", "selected", "check"} => attempts[p] = 0
    /\ at[p] = "attempt" => remote /\ attempts[p] <= Retries
    /\ attempts[p] <= Retries + 1
Progress ==
  \A p \in Applier : at[p] \in {"next"} \cup Working =>
    ~remote /\ stored[p] \cup skipped[p] \cup ToSet(left[p]) = ToSet(plan)
OnRemote == \A f \in ToSet(plan) : Exists(RemotePlace(f))
Reported ==
  \A p \in Applier : at[p] = "ok" /\ ~dry[p] =>
    IF remote THEN OnRemote ELSE stored[p] \cup skipped[p] = ToSet(plan)

(* A process that copies has a place to copy to, and writes the .part file *)
(* of that place; or what it writes was renamed by another process, which  *)
(* was using the same names.                                               *)
Placed ==
  \A p \in Applier : /\ dest[p] # NoPlace <=> at[p] \in Working
                     /\ at[p] \in Working => left[p] # <<>>
Writing ==
  \A p \in Applier :
    /\ writing[p] # NoPlace =>
         at[p] = "copy" /\ (writing[p] = PartOf[dest[p]] \/ writing[p] \in clash)
    /\ at[p] \in {"copy", "compare", "move"} => PartOf[dest[p]] \in used

(* Names that two processes use at once are all known as such.             *)
Joint(p, q) == \E x : x \in Uses(p) /\ x \in Uses(q)
Unshared ==
  \A p, q \in Applier : p # q /\ Joint(p, q) => Uses(p) \subseteq clash /\ Uses(q) \subseteq clash

(* Otherwise nothing is in the place of a copy until it is moved there,    *)
(* compared.                                                               *)
Vacant ==
  \A p \in Applier : dest[p] # NoPlace /\ dest[p] \notin clash =>
    /\ target[dest[p]] = Nothing
    /\ at[p] = "move" => target[PartOf[dest[p]]] \in Content
Sound(x) == target[x] = whole[x] /\ target[x] \in Content \cup {Nothing}
Held == \A x \in Place : x \in used \/ x \in clash \/ Sound(x)
Kept == \A x \in Place : x \in used \/ (whole[x] # Nothing => Exists(x))

BackupInv ==
  /\ BackupTyped /\ Authorized /\ Counted /\ Progress /\ Reported
  /\ Placed /\ Writing /\ Unshared /\ Vacant /\ Held /\ Kept

USE BackupBounds
    DEF Working, To, user, settings, approval, directory, outcome, pastUse

(* The name that is looked for is free.                                    *)
LEMMA FreeCopyIsFree ==
  ASSUME NEW f \in File, \E n \in 0 .. MaxCopy : ~Exists(<<BaseOf[f], n>>)
  PROVE  FreeCopy(f) \in LocalPlace /\ ~Exists(FreeCopy(f))
<1> DEFINE free == {n \in 0 .. MaxCopy : ~Exists(<<BaseOf[f], n>>)}
           Chosen(n) == /\ ~Exists(<<BaseOf[f], n>>)
                        /\ \A m \in 0 .. n - 1 : Exists(<<BaseOf[f], m>>)
<1>1. PICK n \in free : \A m \in free : n <= m
  <2>1. free \subseteq Nat OBVIOUS
  <2>2. free # {} OBVIOUS
  <2> HIDE DEF free
  <2> QED BY <2>1, <2>2, Least
<1>2. Chosen(n) BY <1>1
<1>3. \E k \in 0 .. MaxCopy : Chosen(k) BY <1>1, <1>2
<1> DEFINE k == CHOOSE k \in 0 .. MaxCopy : Chosen(k)
<1>4. k \in 0 .. MaxCopy /\ Chosen(k)
  <2> HIDE DEF Chosen
  <2> QED BY <1>3
<1>5. FreeCopy(f) = <<BaseOf[f], k>> BY DEF FreeCopy
<1> HIDE DEF k
<1>6. BaseOf[f] \in Base BY BackupAssumption
<1> QED BY <1>4, <1>5, <1>6 DEF LocalPlace

LEMMA FilledIsValue ==
  ASSUME NEW old, NEW c \in Content, NEW new \in Filled(old, c)
  PROVE  new \in Content \cup {TornCopy}
BY DEF Filled

(* What names there are, and that no name is the absent one.               *)
LEMMA Names ==
  /\ NoPlace \notin Slot /\ LocalPlace \subseteq Place /\ Place \subseteq Slot
  /\ \A f \in File : RemotePlace(f) \in Place
  /\ \A x \in LocalPlace : PartOf[x] \in Slot /\ PartOf[x] # x
<1>1. NoPlace \notin LocalPlace BY BackupAssumption DEF NoPlace, LocalPlace
<1>2. \A f \in File : RemotePlace(f) # NoPlace BY BackupAssumption DEF NoPlace, RemotePlace
<1> QED BY <1>1, <1>2, PartAssumption DEF Place, Slot

LEMMA BackupStart == BackupInit => BackupInv
<1> SUFFICES ASSUME BackupInit PROVE BackupInv OBVIOUS
<1> USE DEF BackupInit
<1>1. target \in [Slot -> Content \cup {Nothing}] /\ whole = target OBVIOUS
<1>2. BackupTyped BY <1>1 DEF BackupTyped, Value
<1>3. Authorized /\ Counted /\ Progress /\ Reported /\ Placed /\ Writing /\ Vacant
  BY DEF Authorized, Allowed, Counted, Progress, Reported, Placed, Writing, Vacant
<1>4. Unshared BY DEF Unshared, Joint, Uses
<1>5. Held /\ Kept BY <1>1, Names DEF Held, Kept, Sound, Exists
<1> QED BY <1>2, <1>3, <1>4, <1>5 DEF BackupInv

LEMMA BackupTypedStep ==
  ASSUME BackupInv, [BackupNext]_backupVars PROVE BackupTyped'
<1> USE DEF BackupInv, BackupTyped
<1>1. CASE UNCHANGED backupVars BY <1>1 DEF backupVars
<1>2. CASE Edit
  <2>1. source' \in [File -> Content] /\ excluded' \subseteq File BY <1>2 DEF Edit
  <2> QED BY <1>2, <2>1 DEF Edit
<1>3. ASSUME NEW batch \in Selections, MakePlan(batch) PROVE BackupTyped'
  BY <1>3, SelectionAssumption DEF MakePlan
<1>4. CASE ApprovePlan BY <1>4 DEF ApprovePlan
<1>5. ASSUME NEW p \in Applier, InvokeApply(p) PROVE BackupTyped' BY <1>5 DEF InvokeApply
<1>6. ASSUME NEW p \in Applier, Consume(p) PROVE BackupTyped' BY <1>6 DEF Consume
<1>7. ASSUME NEW p \in Applier, CheckRules(p) PROVE BackupTyped' BY <1>7 DEF CheckRules
<1>8. ASSUME NEW p \in Applier, Choose(p) PROVE BackupTyped'
  <2> DEFINE f == Head(left[p])
  <2>1. f \in File /\ Tail(left[p]) \in Seq(File) BY <1>8 DEF Choose
  <2>2. \/ dest' = dest
        \/ FreeCopy(f) \in LocalPlace /\ dest' = [dest EXCEPT ![p] = FreeCopy(f)]
    BY <1>8, <2>1, FreeCopyIsFree DEF Choose
  <2>3. dest' \in [Applier -> LocalPlace \cup {NoPlace}] BY <2>2
  <2>4. /\ at' \in {at, [at EXCEPT ![p] = "open"]}
        /\ left' \in {left, [left EXCEPT ![p] = Tail(@)]}
        /\ skipped' \in {skipped, [skipped EXCEPT ![p] = @ \cup {f}]}
    <3>1. CASE Exists(<<BaseOf[f], 0>>) /\ strategy = "skip" BY <1>8, <3>1 DEF Choose
    <3>2. CASE ~(Exists(<<BaseOf[f], 0>>) /\ strategy = "skip") BY <1>8, <3>2 DEF Choose
    <3> QED BY <3>1, <3>2
  <2> HIDE DEF f
  <2>5. skipped' \in [Applier -> SUBSET File] /\ left' \in [Applier -> Seq(File)]
    <3>1. skipped[p] \cup {f} \in SUBSET File BY <2>1
    <3>2. skipped' \in [Applier -> SUBSET File] BY <2>4, <3>1
    <3>3. left' \in [Applier -> Seq(File)] BY <2>1, <2>4
    <3> QED BY <3>2, <3>3
  <2>6. UNCHANGED <<user, settings, approval, directory, dry, stored, attempts, ruled, whole>>
    BY <1>8 DEF Choose
  <2> QED BY <2>3, <2>4, <2>5, <2>6
<1>9. ASSUME NEW p \in Applier, OpenPart(p) PROVE BackupTyped'
  <2>1. Head(left[p]) \in File BY <1>9 DEF OpenPart, Placed
  <2>2. Half(source[Head(left[p])]) \in Value BY <2>1 DEF Value
  <2>3. PartOf[dest[p]] \in Slot BY <1>9, Names DEF OpenPart, Placed
  <2> QED BY <1>9, <2>2, <2>3 DEF OpenPart
<1>10. ASSUME NEW p \in Applier, FillPart(p) PROVE BackupTyped'
  <2>1. source[Head(left[p])] \in Content BY <1>10 DEF FillPart, Placed
  <2>2. \A old : Filled(old, source[Head(left[p])]) \subseteq Value
    BY <2>1, FilledIsValue DEF Value
  <2>3. target' = target \/ \E new \in Value : target' = [target EXCEPT ![writing[p]] = new]
    BY <1>10, <2>2 DEF FillPart
  <2>4. target' \in [Slot -> Value] BY <2>3
  <2> QED BY <1>10, <2>4 DEF FillPart
<1>11. ASSUME NEW p \in Applier, Compare(p) PROVE BackupTyped'
  <2>1. CASE target[PartOf[dest[p]]] = source[Head(left[p])] BY <1>11, <2>1 DEF Compare
  <2>2. CASE target[PartOf[dest[p]]] # source[Head(left[p])]
    <3>1. writing' \in [Applier -> Slot \cup {NoPlace}] BY <1>11, <2>2 DEF Compare, Unlinked
    <3>2. target' \in [Slot -> Value] BY <1>11, <2>2 DEF Compare, Value
    <3> QED BY <1>11, <2>2, <3>1, <3>2 DEF Compare
  <2> QED BY <2>1, <2>2
<1>12. ASSUME NEW p \in Applier, MovePart(p) PROVE BackupTyped'
  <2>1. Head(left[p]) \in File /\ Tail(left[p]) \in Seq(File) BY <1>12 DEF MovePart, Placed
  <2>2. dest[p] \in Slot /\ PartOf[dest[p]] \in Slot BY <1>12, Names DEF MovePart, Placed
  <2>3. target[PartOf[dest[p]]] \in Value /\ Nothing \in Value BY <2>2 DEF Value
  <2>4. CASE ~Exists(PartOf[dest[p]]) BY <1>12, <2>4 DEF MovePart
  <2>5. CASE Exists(PartOf[dest[p]])
    <3>1. target' \in [Slot -> Value] BY <1>12, <2>3, <2>5 DEF MovePart
    <3>2. whole' \in {whole, [whole EXCEPT ![dest[p]] = target[PartOf[dest[p]]]]}
      BY <1>12, <2>5 DEF MovePart
    <3>3. whole' \in [Slot -> Value] BY <2>3, <3>2
    <3>4. /\ left' = [left EXCEPT ![p] = Tail(left[p])]
          /\ stored' = [stored EXCEPT ![p] = stored[p] \cup {Head(left[p])}]
      BY <1>12, <2>5 DEF MovePart
    <3>5. left' \in [Applier -> Seq(File)] /\ stored' \in [Applier -> SUBSET File]
      BY <2>1, <3>4
    <3>6. writing' = Renamed(PartOf[dest[p]], dest[p]) BY <1>12, <2>5 DEF MovePart
    <3>7. writing' \in [Applier -> Slot \cup {NoPlace}] BY <2>2, <3>6 DEF Renamed, Unlinked
    <3> QED BY <1>12, <2>5, <3>1, <3>3, <3>5, <3>7 DEF MovePart
  <2> QED BY <2>4, <2>5
<1>13. ASSUME NEW p \in Applier, Finished(p) PROVE BackupTyped'
  <2> QED BY <1>13 DEF Finished
<1>14. ASSUME NEW p \in Applier, EndAttempt(p) PROVE BackupTyped'
  <2>1. at' \in {[at EXCEPT ![p] = place] : place \in {"ok", "failed", "attempt"}}
    BY <1>14 DEF EndAttempt
  <2>2. attempts' \in [Applier -> Nat] BY <1>14 DEF EndAttempt
  <2>3. UNCHANGED <<user, settings, approval, directory, dry, left, dest, stored, skipped, ruled,
                    whole>>
    BY <1>14 DEF EndAttempt
  <2> QED BY <2>1, <2>2, <2>3
<1>15. ASSUME NEW p \in Applier, DieCopying(p) PROVE BackupTyped' BY <1>15 DEF DieCopying
<1>16. ASSUME NEW p \in Applier, NEW f \in File, RcloneCopies(p, f) PROVE BackupTyped'
  <2>1. source[f] \in Value BY DEF Value
  <2> QED BY <1>16, <2>1 DEF RcloneCopies
<1> QED
  BY <1>1, <1>2, <1>3, <1>4, <1>5, <1>6, <1>7, <1>8, <1>9, <1>10, <1>11, <1>12, <1>13, <1>14,
       <1>15, <1>16 DEF BackupNext

(* Files are stored by processes that may only.                            *)
LEMMA BackupAuthorized ==
  ASSUME BackupInv, [BackupNext]_backupVars PROVE Authorized'
<1> USE DEF BackupInv, BackupTyped, Authorized, Allowed, Cleared
<1>1. CASE UNCHANGED backupVars BY <1>1 DEF backupVars
<1>2. CASE Edit BY <1>2 DEF Edit
<1>3. ASSUME NEW batch \in Selections, MakePlan(batch) PROVE Authorized'
  <2>1. \A p \in Applier : at[p] = "idle" BY <1>3 DEF MakePlan
  <2>2. \A p \in Applier : stored[p] = {} /\ skipped[p] = {} BY <2>1
  <2>3. UNCHANGED <<at, stored, skipped, grant, approvals, ruled, excluded>>
    BY <1>3 DEF MakePlan
  <2>4. \A p \in Applier : Allowed(p)' BY <2>1, <2>2, <2>3
  <2>5. (grant = "valid" => approvals > 0)' BY <2>3
  <2> HIDE DEF Allowed
  <2> QED BY <2>4, <2>5
<1>4. CASE ApprovePlan
  <2>1. approvals' > 0 /\ UNCHANGED <<plan, excluded, ruled, at, dry, stored, skipped>>
    BY <1>4 DEF ApprovePlan
  <2>2. \A p \in Applier : Allowed(p)' BY <2>1
  <2> HIDE DEF Allowed
  <2> QED BY <2>1, <2>2
<1>5. ASSUME NEW p \in Applier, InvokeApply(p) PROVE Authorized' BY <1>5 DEF InvokeApply
<1>6. ASSUME NEW p \in Applier, Consume(p) PROVE Authorized' BY <1>6 DEF Consume
<1>7. ASSUME NEW p \in Applier, CheckRules(p) PROVE Authorized' BY <1>7 DEF CheckRules
<1>8. ASSUME NEW p \in Applier, Choose(p) PROVE Authorized' BY <1>8 DEF Choose
<1>9. ASSUME NEW p \in Applier, OpenPart(p) PROVE Authorized' BY <1>9 DEF OpenPart
<1>10. ASSUME NEW p \in Applier, FillPart(p) PROVE Authorized' BY <1>10 DEF FillPart
<1>11. ASSUME NEW p \in Applier, Compare(p) PROVE Authorized' BY <1>11 DEF Compare
<1>12. ASSUME NEW p \in Applier, MovePart(p) PROVE Authorized' BY <1>12 DEF MovePart
<1>13. ASSUME NEW p \in Applier, Finished(p) PROVE Authorized' BY <1>13 DEF Finished
<1>14. ASSUME NEW p \in Applier, EndAttempt(p) PROVE Authorized' BY <1>14 DEF EndAttempt
<1>15. ASSUME NEW p \in Applier, DieCopying(p) PROVE Authorized' BY <1>15 DEF DieCopying
<1>16. ASSUME NEW p \in Applier, NEW f \in File, RcloneCopies(p, f) PROVE Authorized'
  BY <1>16 DEF RcloneCopies
<1> QED
  BY <1>1, <1>2, <1>3, <1>4, <1>5, <1>6, <1>7, <1>8, <1>9, <1>10, <1>11, <1>12, <1>13, <1>14,
       <1>15, <1>16 DEF BackupNext

LEMMA BackupCounted ==
  ASSUME BackupInv, [BackupNext]_backupVars PROVE Counted'
<1> USE DEF BackupInv, BackupTyped, Counted
<1>1. CASE UNCHANGED backupVars BY <1>1 DEF backupVars
<1>2. CASE Edit BY <1>2 DEF Edit
<1>3. ASSUME NEW batch \in Selections, MakePlan(batch) PROVE Counted' BY <1>3 DEF MakePlan
<1>4. CASE ApprovePlan BY <1>4 DEF ApprovePlan
<1>5. ASSUME NEW p \in Applier, InvokeApply(p) PROVE Counted' BY <1>5 DEF InvokeApply
<1>6. ASSUME NEW p \in Applier, Consume(p) PROVE Counted' BY <1>6 DEF Consume
<1>7. ASSUME NEW p \in Applier, CheckRules(p) PROVE Counted' BY <1>7 DEF CheckRules
<1>8. ASSUME NEW p \in Applier, Choose(p) PROVE Counted' BY <1>8 DEF Choose
<1>9. ASSUME NEW p \in Applier, OpenPart(p) PROVE Counted' BY <1>9 DEF OpenPart
<1>10. ASSUME NEW p \in Applier, FillPart(p) PROVE Counted' BY <1>10 DEF FillPart
<1>11. ASSUME NEW p \in Applier, Compare(p) PROVE Counted' BY <1>11 DEF Compare
<1>12. ASSUME NEW p \in Applier, MovePart(p) PROVE Counted' BY <1>12 DEF MovePart
<1>13. ASSUME NEW p \in Applier, Finished(p) PROVE Counted' BY <1>13 DEF Finished
<1>14. ASSUME NEW p \in Applier, EndAttempt(p) PROVE Counted' BY <1>14 DEF EndAttempt
<1>15. ASSUME NEW p \in Applier, DieCopying(p) PROVE Counted' BY <1>15 DEF DieCopying
<1>16. ASSUME NEW p \in Applier, NEW f \in File, RcloneCopies(p, f) PROVE Counted'
  BY <1>16 DEF RcloneCopies
<1> QED
  BY <1>1, <1>2, <1>3, <1>4, <1>5, <1>6, <1>7, <1>8, <1>9, <1>10, <1>11, <1>12, <1>13, <1>14,
       <1>15, <1>16 DEF BackupNext

(* What is on the remote stays there.                                      *)
LEMMA RemoteStays ==
  ASSUME BackupInv, [BackupNext]_backupVars, remote, NEW f \in File, Exists(RemotePlace(f))
  PROVE  Exists(RemotePlace(f))'
<1> USE DEF BackupInv, BackupTyped, Exists, RemotePlace
<1>1. \A p \in Applier : at[p] \notin Working BY DEF Progress
<1>2. ASSUME NEW p \in Applier, NEW g \in File, RcloneCopies(p, g)
      PROVE  Exists(RemotePlace(f))'
  <2>1. source[g] # Nothing BY BackupAssumption
  <2>2. RemotePlace(f) \in Slot BY Names
  <2> QED BY <1>2, <2>1, <2>2 DEF RcloneCopies
<1>3. ASSUME NEW p \in Applier, InvokeApply(p) \/ Consume(p) \/ CheckRules(p) \/ Choose(p)
                               \/ Finished(p) \/ EndAttempt(p) \/ DieCopying(p)
      PROVE  target' = target
  BY <1>3 DEF InvokeApply, Consume, CheckRules, Choose, Finished, EndAttempt, DieCopying
<1>4. ASSUME NEW p \in Applier PROVE ~(OpenPart(p) \/ FillPart(p) \/ Compare(p) \/ MovePart(p))
  <2>1. dest[p] = NoPlace /\ at[p] \notin Working BY <1>1 DEF Placed
  <2> QED BY <2>1 DEF OpenPart, FillPart, Compare, MovePart
<1>5. ASSUME Edit \/ (\E batch \in Selections : MakePlan(batch)) \/ ApprovePlan
             \/ UNCHANGED backupVars
      PROVE  target' = target
  BY <1>5 DEF Edit, MakePlan, ApprovePlan, backupVars
<1> HIDE DEF Exists
<1>6. CASE target' = target BY <1>6 DEF Exists
<1> QED BY <1>2, <1>3, <1>4, <1>5, <1>6 DEF BackupNext

(* A file that is done is no longer left.                                  *)
LEMMA HeadAndRest ==
  ASSUME NEW s \in Seq(File), s # <<>>
  PROVE  ToSet(s) = {Head(s)} \cup ToSet(Tail(s))
<1>1. /\ Head(s) = s[1] /\ Len(Tail(s)) = Len(s) - 1 /\ Len(s) \in Nat \ {0}
      /\ \A i \in 1 .. Len(s) - 1 : Tail(s)[i] = s[i + 1]
  OBVIOUS
<1>2. /\ ToSet(s) = {s[i] : i \in 1 .. Len(s)}
      /\ ToSet(Tail(s)) = {Tail(s)[i] : i \in 1 .. Len(s) - 1}
  <2>1. DOMAIN s = 1 .. Len(s) /\ DOMAIN Tail(s) = 1 .. Len(s) - 1 BY <1>1
  <2> QED BY <2>1 DEF ToSet
<1>3. \A i \in 1 .. Len(s) : i = 1 \/ (i - 1 \in 1 .. Len(s) - 1 /\ s[i] = Tail(s)[i - 1])
  BY <1>1
<1>4. ToSet(s) \subseteq {Head(s)} \cup ToSet(Tail(s))
  <2> SUFFICES ASSUME NEW i \in 1 .. Len(s) PROVE s[i] \in {Head(s)} \cup ToSet(Tail(s)) BY <1>2
  <2>1. CASE i = 1 BY <1>1, <2>1
  <2>2. CASE i # 1
    <3>1. PICK k : k = i - 1 OBVIOUS
    <3>2. k \in 1 .. Len(s) - 1 /\ s[i] = Tail(s)[k] BY <1>3, <2>2, <3>1
    <3> QED BY <1>2, <3>2
  <2> QED BY <2>1, <2>2
<1>5. \A i \in 1 .. Len(s) - 1 : Tail(s)[i] \in ToSet(s)
  <2> SUFFICES ASSUME NEW i \in 1 .. Len(s) - 1 PROVE Tail(s)[i] \in ToSet(s) OBVIOUS
  <2>1. i + 1 \in 1 .. Len(s) BY <1>1
  <2> QED BY <1>1, <1>2, <2>1
<1>6. Head(s) \in ToSet(s) BY <1>1, <1>2
<1> QED BY <1>2, <1>4, <1>5, <1>6

LEMMA BackupProgress ==
  ASSUME BackupInv, [BackupNext]_backupVars PROVE Progress'
<1> USE DEF BackupInv, BackupTyped, Progress
<1>1. CASE UNCHANGED backupVars BY <1>1 DEF backupVars
<1>2. CASE Edit BY <1>2 DEF Edit
<1>3. ASSUME NEW batch \in Selections, MakePlan(batch) PROVE Progress'
  BY <1>3 DEF MakePlan, Authorized, Allowed
<1>4. CASE ApprovePlan BY <1>4 DEF ApprovePlan
<1>5. ASSUME NEW p \in Applier, InvokeApply(p) PROVE Progress' BY <1>5 DEF InvokeApply
<1>6. ASSUME NEW p \in Applier, Consume(p) PROVE Progress' BY <1>6 DEF Consume
<1>7. ASSUME NEW p \in Applier, CheckRules(p) PROVE Progress'
  BY <1>7 DEF CheckRules, Authorized, Allowed
<1>8. ASSUME NEW p \in Applier, Choose(p) PROVE Progress'
  <2>1. left[p] \in Seq(File) /\ left[p] # <<>> BY <1>8 DEF Choose, Placed
  <2>2. ToSet(left[p]) = {Head(left[p])} \cup ToSet(Tail(left[p])) BY <2>1, HeadAndRest
  <2> QED BY <1>8, <2>2 DEF Choose
<1>9. ASSUME NEW p \in Applier, OpenPart(p) PROVE Progress' BY <1>9 DEF OpenPart
<1>10. ASSUME NEW p \in Applier, FillPart(p) PROVE Progress' BY <1>10 DEF FillPart
<1>11. ASSUME NEW p \in Applier, Compare(p) PROVE Progress' BY <1>11 DEF Compare
<1>12. ASSUME NEW p \in Applier, MovePart(p) PROVE Progress'
  <2>1. left[p] \in Seq(File) /\ left[p] # <<>> BY <1>12 DEF MovePart, Placed
  <2>2. ToSet(left[p]) = {Head(left[p])} \cup ToSet(Tail(left[p])) BY <2>1, HeadAndRest
  <2>3. CASE ~Exists(PartOf[dest[p]]) BY <1>12, <2>3 DEF MovePart
  <2>4. CASE Exists(PartOf[dest[p]])
    <3>1. /\ left' = [left EXCEPT ![p] = Tail(left[p])] /\ at' = [at EXCEPT ![p] = "next"]
          /\ stored' = [stored EXCEPT ![p] = stored[p] \cup {Head(left[p])}]
          /\ UNCHANGED <<skipped, plan, remote>> /\ at[p] \in Working
      BY <1>12, <2>4 DEF MovePart
    <3> QED BY <2>2, <3>1
  <2> QED BY <2>3, <2>4
<1>13. ASSUME NEW p \in Applier, Finished(p) PROVE Progress' BY <1>13 DEF Finished
<1>14. ASSUME NEW p \in Applier, EndAttempt(p) PROVE Progress' BY <1>14 DEF EndAttempt
<1>15. ASSUME NEW p \in Applier, DieCopying(p) PROVE Progress' BY <1>15 DEF DieCopying
<1>16. ASSUME NEW p \in Applier, NEW f \in File, RcloneCopies(p, f) PROVE Progress'
  BY <1>16 DEF RcloneCopies
<1> QED
  BY <1>1, <1>2, <1>3, <1>4, <1>5, <1>6, <1>7, <1>8, <1>9, <1>10, <1>11, <1>12, <1>13, <1>14,
       <1>15, <1>16 DEF BackupNext

LEMMA OnRemoteStays ==
  ASSUME BackupInv, [BackupNext]_backupVars, remote, plan' = plan, OnRemote PROVE OnRemote'
<1>1. plan \in Seq(File) BY DEF BackupInv, BackupTyped
<1>2. ToSet(plan) \subseteq File BY <1>1 DEF ToSet
<1>3. \A f \in ToSet(plan) : Exists(RemotePlace(f))' BY <1>2, RemoteStays DEF OnRemote
<1> QED BY <1>3 DEF OnRemote

LEMMA BackupReported ==
  ASSUME BackupInv, [BackupNext]_backupVars PROVE Reported'
<1>0. remote /\ plan' = plan /\ OnRemote => OnRemote' BY OnRemoteStays
<1> USE DEF BackupInv, BackupTyped, Reported
<1>1. CASE UNCHANGED backupVars BY <1>0, <1>1 DEF backupVars
<1>2. CASE Edit BY <1>0, <1>2 DEF Edit
<1>3. ASSUME NEW batch \in Selections, MakePlan(batch) PROVE Reported'
  BY <1>3 DEF MakePlan, Authorized, Allowed
<1>4. CASE ApprovePlan BY <1>0, <1>4 DEF ApprovePlan
<1>5. ASSUME NEW p \in Applier, InvokeApply(p) PROVE Reported' BY <1>0, <1>5 DEF InvokeApply
<1>6. ASSUME NEW p \in Applier, Consume(p) PROVE Reported' BY <1>0, <1>6 DEF Consume
<1>7. ASSUME NEW p \in Applier, CheckRules(p) PROVE Reported' BY <1>0, <1>7 DEF CheckRules
<1>8. ASSUME NEW p \in Applier, Choose(p) PROVE Reported' BY <1>0, <1>8 DEF Choose
<1>9. ASSUME NEW p \in Applier, OpenPart(p) PROVE Reported' BY <1>0, <1>9 DEF OpenPart
<1>10. ASSUME NEW p \in Applier, FillPart(p) PROVE Reported' BY <1>0, <1>10 DEF FillPart
<1>11. ASSUME NEW p \in Applier, Compare(p) PROVE Reported' BY <1>0, <1>11 DEF Compare
<1>12. ASSUME NEW p \in Applier, MovePart(p) PROVE Reported' BY <1>0, <1>12 DEF MovePart
<1>13. ASSUME NEW p \in Applier, Finished(p) PROVE Reported'
  <2>1. ToSet(<<>>) = {} BY DEF ToSet
  <2> QED BY <1>0, <1>13, <2>1 DEF Finished, Progress
<1>14. ASSUME NEW p \in Applier, EndAttempt(p) PROVE Reported'
  <2>1. (\A f \in ToSet(plan) : Exists(RemotePlace(f))) => OnRemote BY DEF OnRemote
  <2> QED BY <1>0, <1>14, <2>1 DEF EndAttempt, Counted
<1>15. ASSUME NEW p \in Applier, DieCopying(p) PROVE Reported' BY <1>0, <1>15 DEF DieCopying
<1>16. ASSUME NEW p \in Applier, NEW f \in File, RcloneCopies(p, f) PROVE Reported'
  BY <1>0, <1>16 DEF RcloneCopies
<1> QED
  BY <1>1, <1>2, <1>3, <1>4, <1>5, <1>6, <1>7, <1>8, <1>9, <1>10, <1>11, <1>12, <1>13, <1>14,
       <1>15, <1>16 DEF BackupNext

LEMMA BackupPlaced ==
  ASSUME BackupInv, [BackupNext]_backupVars PROVE Placed'
<1> USE DEF BackupInv, BackupTyped, Placed
<1>1. CASE UNCHANGED backupVars BY <1>1 DEF backupVars
<1>2. CASE Edit BY <1>2 DEF Edit
<1>3. ASSUME NEW batch \in Selections, MakePlan(batch) PROVE Placed' BY <1>3 DEF MakePlan
<1>4. CASE ApprovePlan BY <1>4 DEF ApprovePlan
<1>5. ASSUME NEW p \in Applier, InvokeApply(p) PROVE Placed' BY <1>5 DEF InvokeApply
<1>6. ASSUME NEW p \in Applier, Consume(p) PROVE Placed' BY <1>6 DEF Consume
<1>7. ASSUME NEW p \in Applier, CheckRules(p) PROVE Placed' BY <1>7 DEF CheckRules
<1>8. ASSUME NEW p \in Applier, Choose(p) PROVE Placed'
  <2>1. Head(left[p]) \in File BY <1>8 DEF Choose
  <2>2. FreeCopy(Head(left[p])) \in LocalPlace \/ at' = at
    BY <1>8, <2>1, FreeCopyIsFree DEF Choose
  <2>3. NoPlace \notin LocalPlace BY Names
  <2> QED BY <1>8, <2>2, <2>3 DEF Choose
<1>9. ASSUME NEW p \in Applier, OpenPart(p) PROVE Placed' BY <1>9 DEF OpenPart
<1>10. ASSUME NEW p \in Applier, FillPart(p) PROVE Placed' BY <1>10 DEF FillPart
<1>11. ASSUME NEW p \in Applier, Compare(p) PROVE Placed' BY <1>11 DEF Compare
<1>12. ASSUME NEW p \in Applier, MovePart(p) PROVE Placed' BY <1>12 DEF MovePart
<1>13. ASSUME NEW p \in Applier, Finished(p) PROVE Placed' BY <1>13 DEF Finished
<1>14. ASSUME NEW p \in Applier, EndAttempt(p) PROVE Placed' BY <1>14 DEF EndAttempt
<1>15. ASSUME NEW p \in Applier, DieCopying(p) PROVE Placed' BY <1>15 DEF DieCopying
<1>16. ASSUME NEW p \in Applier, NEW f \in File, RcloneCopies(p, f) PROVE Placed'
  BY <1>16 DEF RcloneCopies
<1> QED
  BY <1>1, <1>2, <1>3, <1>4, <1>5, <1>6, <1>7, <1>8, <1>9, <1>10, <1>11, <1>12, <1>13, <1>14,
       <1>15, <1>16 DEF BackupNext

(* What a step does to the names of the destination.                       *)
Quiet ==
  /\ UNCHANGED <<dest, writing, target, whole, used, clash>>
  /\ \A q \in Applier : at'[q] = at[q] \/ (at[q] \notin Working /\ at'[q] \notin Working)
Takes(p, x) ==
  /\ at[p] = "next" /\ ~Exists(x)
  /\ at' = [at EXCEPT ![p] = "open"] /\ dest' = [dest EXCEPT ![p] = x]
  /\ UNCHANGED <<writing, target, whole, used>>
  /\ clash \subseteq clash'
  /\ \A q \in Applier \ {p} :
       \/ \A y \in Needs(x) : y \notin Uses(q)
       \/ Needs(x) \subseteq clash' /\ Uses(q) \subseteq clash'

LEMMA ChooseTakes ==
  ASSUME BackupInv, NEW p \in Applier, Choose(p)
  PROVE  Quiet \/ \E x \in LocalPlace : Takes(p, x)
<1> USE DEF BackupInv, BackupTyped
<1> DEFINE f == Head(left[p])
<1>1. f \in File BY DEF Choose
<1>2. CASE Exists(<<BaseOf[f], 0>>) /\ strategy = "skip"
  BY <1>2 DEF Choose, Quiet
<1>3. CASE ~(Exists(<<BaseOf[f], 0>>) /\ strategy = "skip")
  <2>1. FreeCopy(f) \in LocalPlace /\ ~Exists(FreeCopy(f))
    BY <1>1, <1>3, FreeCopyIsFree DEF Choose
  <2> DEFINE others == {q \in Applier \ {p} : Uses(q) \cap Needs(FreeCopy(f)) # {}}
  <2>2. /\ at[p] = "next" /\ at' = [at EXCEPT ![p] = "open"]
        /\ dest' = [dest EXCEPT ![p] = FreeCopy(f)]
        /\ UNCHANGED <<writing, target, whole, used>>
        /\ clash' = IF others = {} THEN clash
                    ELSE clash \cup Needs(FreeCopy(f)) \cup UNION {Uses(q) : q \in others}
    BY <1>3 DEF Choose
  <2>3. ASSUME NEW q \in Applier \ {p}
        PROVE  \/ \A y \in Needs(FreeCopy(f)) : y \notin Uses(q)
               \/ Needs(FreeCopy(f)) \subseteq clash' /\ Uses(q) \subseteq clash'
    <3>1. CASE q \in others BY <2>2, <3>1
    <3>2. CASE q \notin others BY <3>2
    <3> QED BY <3>1, <3>2
  <2>4. clash \subseteq clash' BY <2>2
  <2> HIDE DEF f, others
  <2> QED BY <2>1, <2>2, <2>3, <2>4 DEF Takes
<1> QED BY <1>2, <1>3

LEMMA BackupSteps ==
  ASSUME BackupInv, [BackupNext]_backupVars
  PROVE  \/ Quiet
         \/ \E p \in Applier :
              \/ (\E x \in LocalPlace : Takes(p, x)) \/ OpenPart(p) \/ FillPart(p) \/ Compare(p)
              \/ MovePart(p) \/ DieCopying(p) \/ (\E f \in File : RcloneCopies(p, f))
<1> USE DEF BackupInv, BackupTyped, Quiet
<1>1. UNCHANGED backupVars => Quiet BY DEF backupVars
<1>2. Edit => Quiet BY DEF Edit
<1>3. ASSUME NEW batch \in Selections, MakePlan(batch) PROVE Quiet BY <1>3 DEF MakePlan
<1>4. ApprovePlan => Quiet BY DEF ApprovePlan
<1>5. ASSUME NEW p \in Applier, InvokeApply(p) PROVE Quiet BY <1>5 DEF InvokeApply
<1>6. ASSUME NEW p \in Applier, Consume(p) PROVE Quiet BY <1>6 DEF Consume
<1>7. ASSUME NEW p \in Applier, CheckRules(p) PROVE Quiet BY <1>7 DEF CheckRules
<1>8. ASSUME NEW p \in Applier, Finished(p) PROVE Quiet BY <1>8 DEF Finished
<1>9. ASSUME NEW p \in Applier, EndAttempt(p) PROVE Quiet BY <1>9 DEF EndAttempt
<1> HIDE DEF BackupInv, BackupTyped, Quiet
<1> QED BY <1>1, <1>2, <1>3, <1>4, <1>5, <1>6, <1>7, <1>8, <1>9, ChooseTakes DEF BackupNext

(* The names of a process that copies.                                     *)
LEMMA UsesSay ==
  ASSUME BackupInv, NEW p \in Applier
  PROVE  /\ dest[p] = NoPlace => Uses(p) = {}
         /\ dest[p] # NoPlace =>
              /\ dest[p] \in LocalPlace /\ dest[p] \in Slot /\ PartOf[dest[p]] \in Slot
              /\ PartOf[dest[p]] # dest[p]
              /\ dest[p] \in Uses(p) /\ PartOf[dest[p]] \in Uses(p)
         /\ writing[p] # NoPlace => dest[p] # NoPlace /\ writing[p] \in Uses(p)
         /\ \A x \in Uses(p) : x \in {dest[p], PartOf[dest[p]], writing[p]}
<1>1. dest[p] \in LocalPlace \cup {NoPlace} BY DEF BackupInv, BackupTyped
<1>2. writing[p] # NoPlace => dest[p] # NoPlace BY DEF BackupInv, Writing, Placed
<1> QED BY <1>1, <1>2, Names DEF Uses, Needs

LEMMA BackupWriting ==
  ASSUME BackupInv, [BackupNext]_backupVars PROVE Writing'
<1> USE DEF BackupInv, BackupTyped
<1>1. CASE Quiet BY <1>1 DEF Quiet, Writing
<1>2. ASSUME NEW p \in Applier, NEW x \in LocalPlace, Takes(p, x) PROVE Writing'
  <2>1. writing[p] = NoPlace BY <1>2 DEF Takes, Writing
  <2> QED BY <1>2, <2>1 DEF Takes, Writing
<1>3. ASSUME NEW p \in Applier, OpenPart(p) PROVE Writing' BY <1>3 DEF OpenPart, Writing
<1>4. ASSUME NEW p \in Applier, FillPart(p) PROVE Writing' BY <1>4 DEF FillPart, Writing
<1>5. ASSUME NEW p \in Applier, Compare(p) PROVE Writing'
  <2>1. CASE target[PartOf[dest[p]]] = source[Head(left[p])]
    BY <1>5, <2>1 DEF Compare, Writing
  <2>2. CASE target[PartOf[dest[p]]] # source[Head(left[p])]
    <3>1. /\ at' = [at EXCEPT ![p] = "failed"] /\ dest' = [dest EXCEPT ![p] = NoPlace]
          /\ UNCHANGED <<used, clash>> /\ writing' = Unlinked(PartOf[dest[p]])
          /\ at[p] = "compare"
      BY <1>5, <2>2 DEF Compare
    <3>2. \A q \in Applier : writing'[q] \in {writing[q], NoPlace} BY <3>1 DEF Unlinked
    <3> QED BY <3>1, <3>2 DEF Writing
  <2> QED BY <2>1, <2>2
<1>6. ASSUME NEW p \in Applier, MovePart(p) PROVE Writing'
  <2>1. CASE ~Exists(PartOf[dest[p]]) BY <1>6, <2>1 DEF MovePart, Writing
  <2>2. CASE Exists(PartOf[dest[p]])
    <3>1. /\ at' = [at EXCEPT ![p] = "next"] /\ dest' = [dest EXCEPT ![p] = NoPlace]
          /\ UNCHANGED <<used, clash>> /\ writing' = Renamed(PartOf[dest[p]], dest[p])
          /\ at[p] = "move"
      BY <1>6, <2>2 DEF MovePart
    <3>2. writing[p] = NoPlace /\ dest[p] # NoPlace BY <3>1 DEF Writing, Placed
    <3>3. PartOf[dest[p]] # NoPlace /\ PartOf[dest[p]] \in Uses(p) /\ dest[p] \in Uses(p)
      BY <3>2, UsesSay, Names
    <3>4. ASSUME NEW q \in Applier
          PROVE  \/ writing'[q] \in {writing[q], NoPlace}
                 \/ writing[q] # NoPlace /\ writing'[q] \in clash'
      <4>1. CASE writing[q] # PartOf[dest[p]] BY <3>1, <4>1 DEF Renamed, Unlinked
      <4>2. CASE writing[q] = PartOf[dest[p]]
        <5>1. q # p /\ PartOf[dest[p]] \in Uses(q) BY <3>2, <3>3, <4>2, UsesSay
        <5>2. Uses(p) \subseteq clash BY <3>3, <5>1 DEF Unshared, Joint
        <5>3. writing'[q] = dest[p] BY <3>1, <4>2 DEF Renamed
        <5> QED BY <3>1, <3>3, <4>2, <5>2, <5>3
      <4> QED BY <4>1, <4>2
    <3> QED BY <3>1, <3>2, <3>4 DEF Writing
  <2> QED BY <2>1, <2>2
<1>7. ASSUME NEW p \in Applier, DieCopying(p) PROVE Writing' BY <1>7 DEF DieCopying, Writing
<1>8. ASSUME NEW p \in Applier, NEW f \in File, RcloneCopies(p, f) PROVE Writing'
  BY <1>8 DEF RcloneCopies, Writing
<1> HIDE DEF BackupInv, BackupTyped
<1> QED BY <1>1, <1>2, <1>3, <1>4, <1>5, <1>6, <1>7, <1>8, BackupSteps

(* When nobody takes on a name the rest is kept.                           *)
LEMMA FewerNames ==
  ASSUME Unshared, clash \subseteq clash', \A q \in Applier : Uses(q)' \subseteq Uses(q)
  PROVE  Unshared'
<1> SUFFICES ASSUME NEW p \in Applier, NEW q \in Applier, p # q,
                    NEW x, x \in Uses(p)', x \in Uses(q)'
             PROVE  Uses(p)' \subseteq clash' /\ Uses(q)' \subseteq clash'
  BY DEF Unshared, Joint
<1>1. x \in Uses(p) /\ x \in Uses(q) OBVIOUS
<1>2. Uses(p) \subseteq clash /\ Uses(q) \subseteq clash BY <1>1 DEF Unshared, Joint
<1> QED BY <1>2

LEMMA BackupUnshared ==
  ASSUME BackupInv, [BackupNext]_backupVars PROVE Unshared'
<1>0. Unshared /\ BackupTyped /\ Placed /\ Writing BY DEF BackupInv
<1> DEFINE Fewer == clash \subseteq clash' /\ \A q \in Applier : Uses(q)' \subseteq Uses(q)
<1>1. Quiet => Fewer BY DEF Quiet, Uses
<1>2. ASSUME NEW p \in Applier, NEW x \in LocalPlace, Takes(p, x) PROVE Unshared'
  <2>1. writing[p] = NoPlace BY <1>0, <1>2 DEF Takes, Writing
  <2>2. Uses(p)' = Needs(x)
    <3>1. dest'[p] = x /\ writing'[p] = NoPlace BY <1>0, <1>2, <2>1 DEF Takes, BackupTyped
    <3>2. x # NoPlace /\ PartOf[x] # NoPlace BY Names
    <3> QED BY <3>1, <3>2 DEF Uses, Needs
  <2>3. \A q \in Applier \ {p} : Uses(q)' = Uses(q) BY <1>0, <1>2 DEF Takes, Uses, BackupTyped
  <2>4. clash \subseteq clash' BY <1>2 DEF Takes
  <2>5. ASSUME NEW q \in Applier \ {p}, NEW y, y \in Needs(x), y \in Uses(q)
        PROVE  Needs(x) \subseteq clash' /\ Uses(q) \subseteq clash'
    BY <1>2, <2>5 DEF Takes
  <2>6. ASSUME NEW q \in Applier \ {p}, NEW r \in Applier \ {p}, q # r,
               NEW y, y \in Uses(q), y \in Uses(r)
        PROVE  Uses(q) \subseteq clash' /\ Uses(r) \subseteq clash'
    BY <1>0, <2>4, <2>6 DEF Unshared, Joint
  <2> QED BY <2>2, <2>3, <2>5, <2>6 DEF Unshared, Joint
<1>3. ASSUME NEW p \in Applier, OpenPart(p) PROVE Fewer
  <2>1. /\ writing' = [writing EXCEPT ![p] = PartOf[dest[p]]] /\ UNCHANGED <<dest, clash>>
        /\ at[p] = "open"
    BY <1>3 DEF OpenPart
  <2>2. dest[p] # NoPlace BY <1>0, <2>1 DEF Placed
  <2>3. Uses(p)' \subseteq Needs(dest[p]) /\ Needs(dest[p]) \subseteq Uses(p)
    <3>1. writing'[p] = PartOf[dest[p]] /\ dest'[p] = dest[p] BY <1>0, <2>1 DEF BackupTyped
    <3>2. dest[p] \in Uses(p) /\ PartOf[dest[p]] \in Uses(p) BY <2>2, UsesSay
    <3> QED BY <2>2, <3>1, <3>2 DEF Uses, Needs
  <2>4. \A q \in Applier \ {p} : Uses(q)' = Uses(q) BY <1>0, <2>1 DEF Uses, BackupTyped
  <2> QED BY <2>1, <2>3, <2>4
<1>4. ASSUME \A q \in Applier : dest'[q] \in {dest[q], NoPlace}, UNCHANGED clash,
             \A q \in Applier : writing'[q] \in {writing[q], NoPlace}
      PROVE  Fewer
  <2> SUFFICES ASSUME NEW q \in Applier PROVE Uses(q)' \subseteq Uses(q) BY <1>4
  <2>1. dest'[q] \in {dest[q], NoPlace} /\ writing'[q] \in {writing[q], NoPlace} BY <1>4
  <2> QED BY <2>1 DEF Uses
<1>5. ASSUME NEW p \in Applier, FillPart(p) PROVE Fewer
  BY <1>0, <1>4, <1>5 DEF FillPart, BackupTyped
<1>6. ASSUME NEW p \in Applier, Compare(p) PROVE Fewer
  <2>1. \A q \in Applier : dest'[q] \in {dest[q], NoPlace}
    BY <1>0, <1>6 DEF Compare, BackupTyped
  <2>2. \A q \in Applier : writing'[q] \in {writing[q], NoPlace}
    BY <1>0, <1>6 DEF Compare, BackupTyped, Unlinked
  <2>3. UNCHANGED clash BY <1>6 DEF Compare
  <2> QED BY <1>4, <2>1, <2>2, <2>3
<1>7. ASSUME NEW p \in Applier, MovePart(p) PROVE Unshared'
  <2>0. /\ dest' = [dest EXCEPT ![p] = NoPlace] /\ UNCHANGED clash /\ at[p] = "move"
        /\ \/ writing' = writing
           \/ writing' = Renamed(PartOf[dest[p]], dest[p])
    BY <1>7 DEF MovePart
  <2>1. dest[p] # NoPlace BY <1>0, <2>0 DEF Placed
  <2>2. PartOf[dest[p]] \in Uses(p) /\ dest[p] \in Uses(p) /\ PartOf[dest[p]] # NoPlace
    BY <2>1, UsesSay, Names
  <2>3. Uses(p)' = {} BY <1>0, <2>0 DEF Uses, BackupTyped
  <2> DEFINE Widened(q) == /\ Uses(q) \subseteq clash /\ dest[p] \in clash
                         /\ Uses(q)' \subseteq Uses(q) \cup {dest[p]}
  <2>4. ASSUME NEW q \in Applier \ {p} PROVE Uses(q)' \subseteq Uses(q) \/ Widened(q)
    <3>1. dest'[q] = dest[q] BY <1>0, <2>0 DEF BackupTyped
    <3>2. CASE writing'[q] \in {writing[q], NoPlace} BY <3>1, <3>2 DEF Uses
    <3>3. CASE writing'[q] \notin {writing[q], NoPlace}
      <4>1. writing[q] = PartOf[dest[p]] /\ writing'[q] = dest[p]
        BY <2>0, <3>3 DEF Renamed, Unlinked
      <4>2. PartOf[dest[p]] \in Uses(q) BY <2>2, <4>1, UsesSay
      <4>3. Uses(p) \subseteq clash /\ Uses(q) \subseteq clash
        BY <1>0, <2>2, <4>2 DEF Unshared, Joint
      <4>4. Uses(q)' \subseteq Uses(q) \cup {dest[p]} BY <3>1, <4>1 DEF Uses
      <4> QED BY <2>2, <4>3, <4>4
    <3> QED BY <3>2, <3>3
  <2>5. ASSUME NEW q \in Applier \ {p}, NEW r \in Applier \ {p}, q # r,
               NEW y, y \in Uses(q)', y \in Uses(r)', Widened(q), Uses(r)' \subseteq Uses(r)
        PROVE  Uses(r)' \subseteq clash
    <3>1. CASE y \in Uses(q) BY <1>0, <2>5, <3>1 DEF Unshared, Joint
    <3>2. CASE y = dest[p] BY <1>0, <2>2, <2>5, <3>2 DEF Unshared, Joint
    <3> QED BY <2>5, <3>1, <3>2
  <2>6. ASSUME NEW q \in Applier \ {p}, NEW r \in Applier \ {p}, q # r,
               NEW y, y \in Uses(q)', y \in Uses(r)'
        PROVE  Uses(q)' \subseteq clash /\ Uses(r)' \subseteq clash
    <3>1. CASE Uses(q)' \subseteq Uses(q) /\ Uses(r)' \subseteq Uses(r)
      BY <1>0, <2>6, <3>1 DEF Unshared, Joint
    <3>2. CASE Widened(q) /\ Uses(r)' \subseteq Uses(r) BY <2>5, <2>6, <3>2
    <3>3. CASE Widened(r) /\ Uses(q)' \subseteq Uses(q) BY <2>5, <2>6, <3>3
    <3>4. CASE Widened(q) /\ Widened(r) BY <3>4
    <3> QED BY <2>4, <3>1, <3>2, <3>3, <3>4
  <2>7. ASSUME NEW q \in Applier, NEW r \in Applier, q # r, NEW y, y \in Uses(q)', y \in Uses(r)'
        PROVE  Uses(q)' \subseteq clash' /\ Uses(r)' \subseteq clash'
    BY <2>0, <2>3, <2>6, <2>7
  <2> HIDE DEF Widened
  <2> QED BY <2>7 DEF Unshared, Joint
<1>8. ASSUME NEW p \in Applier, DieCopying(p) PROVE Fewer
  BY <1>0, <1>4, <1>8 DEF DieCopying, BackupTyped
<1>9. ASSUME NEW p \in Applier, NEW f \in File, RcloneCopies(p, f) PROVE Fewer
  BY <1>9 DEF RcloneCopies, Uses
<1>10. Fewer => Unshared' BY <1>0, FewerNames
<1> HIDE DEF Fewer
<1> QED BY <1>1, <1>2, <1>3, <1>5, <1>6, <1>7, <1>8, <1>9, <1>10, BackupSteps

(* A name that one process uses and another does not share.                *)
LEMMA Foreign ==
  ASSUME BackupInv, NEW p \in Applier, NEW q \in Applier, p # q,
         dest[q] # NoPlace, dest[q] \notin clash
  PROVE  dest[q] \notin Uses(p) /\ PartOf[dest[q]] \notin Uses(p)
<1>1. dest[q] \in Uses(q) /\ PartOf[dest[q]] \in Uses(q) BY UsesSay
<1> QED BY <1>1 DEF BackupInv, Unshared, Joint

(* Nobody else touches the place and the .part file of a copy.             *)
LEMMA BackupVacant ==
  ASSUME BackupInv, [BackupNext]_backupVars PROVE Vacant'
<1>0. Vacant /\ BackupTyped /\ Placed /\ Writing /\ Progress BY DEF BackupInv
<1>1. CASE Quiet BY <1>0, <1>1 DEF Quiet, Vacant, Placed
<1>2. ASSUME NEW p \in Applier, NEW x \in LocalPlace, Takes(p, x) PROVE Vacant'
  BY <1>0, <1>2 DEF Takes, Vacant, Exists, BackupTyped
<1>3. ASSUME NEW p \in Applier, UNCHANGED <<dest, clash>>, at'[p] # "move",
             \A q \in Applier \ {p} : at'[q] = at[q],
             NEW s \in Uses(p), \A x \in Slot \ {s} : target'[x] = target[x],
             s = dest[p] => dest[p] \in clash
      PROVE  Vacant'
  <2> SUFFICES ASSUME NEW q \in Applier, dest[q] # NoPlace, dest[q] \notin clash
               PROVE  /\ target'[dest[q]] = Nothing
                      /\ at'[q] = "move" => target'[PartOf[dest[q]]] \in Content
    BY <1>3 DEF Vacant
  <2>1. /\ dest[q] \in Slot /\ PartOf[dest[q]] \in Slot
        /\ target[dest[q]] = Nothing
        /\ at[q] = "move" => target[PartOf[dest[q]]] \in Content
    BY <1>0, UsesSay DEF Vacant
  <2>2. CASE q = p BY <1>3, <2>1, <2>2
  <2>3. CASE q # p
    <3>1. s # dest[q] /\ s # PartOf[dest[q]] BY <1>3, <2>3, Foreign
    <3> QED BY <1>3, <2>1, <2>3, <3>1
  <2> QED BY <2>2, <2>3
<1>4. ASSUME NEW p \in Applier, OpenPart(p) PROVE Vacant'
  <2>1. /\ at' = [at EXCEPT ![p] = "copy"] /\ at[p] = "open" /\ UNCHANGED <<dest, clash>>
        /\ target' = [target EXCEPT ![PartOf[dest[p]]] = Half(source[Head(left[p])])]
    BY <1>4 DEF OpenPart
  <2>2. dest[p] # NoPlace BY <1>0, <2>1 DEF Placed
  <2>3. PartOf[dest[p]] \in Uses(p) /\ PartOf[dest[p]] # dest[p] BY <2>2, UsesSay
  <2>4. /\ at'[p] # "move" /\ \A q \in Applier \ {p} : at'[q] = at[q]
        /\ \A x \in Slot \ {PartOf[dest[p]]} : target'[x] = target[x]
    BY <1>0, <2>1 DEF BackupTyped
  <2> QED BY <1>3, <2>1, <2>3, <2>4
<1>5. ASSUME NEW p \in Applier, FillPart(p) PROVE Vacant'
  <2>1. /\ at' = [at EXCEPT ![p] = "compare"] /\ at[p] = "copy" /\ UNCHANGED <<dest, clash>>
    BY <1>5 DEF FillPart
  <2>2. at'[p] # "move" /\ \A q \in Applier \ {p} : at'[q] = at[q] BY <1>0, <2>1 DEF BackupTyped
  <2>3. dest[p] # NoPlace BY <1>0, <2>1 DEF Placed
  <2>4. CASE writing[p] = NoPlace
    <3>1. target' = target BY <1>5, <2>4 DEF FillPart
    <3>2. PartOf[dest[p]] \in Uses(p) /\ PartOf[dest[p]] # dest[p] BY <2>3, UsesSay
    <3> QED BY <1>3, <2>1, <2>2, <3>1, <3>2
  <2>5. CASE writing[p] # NoPlace
    <3>1. \A x \in Slot \ {writing[p]} : target'[x] = target[x]
      BY <1>0, <1>5, <2>5 DEF FillPart, BackupTyped
    <3>2. writing[p] \in Uses(p) BY <2>5, UsesSay
    <3>3. writing[p] = dest[p] => dest[p] \in clash BY <1>0, <2>3, <2>5, UsesSay DEF Writing
    <3> QED BY <1>3, <2>1, <2>2, <3>1, <3>2, <3>3
  <2> QED BY <2>4, <2>5
<1>6. ASSUME NEW p \in Applier, Compare(p) PROVE Vacant'
  <2>0. at[p] = "compare" BY <1>6 DEF Compare
  <2>1. dest[p] # NoPlace /\ left[p] # <<>> BY <1>0, <2>0 DEF Placed
  <2>2. source[Head(left[p])] \in Content BY <1>0, <2>1 DEF BackupTyped
  <2>3. CASE target[PartOf[dest[p]]] = source[Head(left[p])]
    <3>1. at' = [at EXCEPT ![p] = "move"] /\ UNCHANGED <<dest, clash, target>>
      BY <1>6, <2>3 DEF Compare
    <3> QED BY <1>0, <2>2, <2>3, <3>1 DEF Vacant, BackupTyped
  <2>4. CASE target[PartOf[dest[p]]] # source[Head(left[p])]
    <3>1. /\ at' = [at EXCEPT ![p] = "failed"] /\ UNCHANGED clash
          /\ dest' = [dest EXCEPT ![p] = NoPlace]
          /\ target' = [target EXCEPT ![PartOf[dest[p]]] = Nothing]
      BY <1>6, <2>4 DEF Compare
    <3>2. PartOf[dest[p]] \in Uses(p) BY <2>1, UsesSay
    <3>3. ASSUME NEW q \in Applier \ {p}, dest[q] # NoPlace, dest[q] \notin clash
          PROVE  /\ target'[dest[q]] = target[dest[q]]
                 /\ target'[PartOf[dest[q]]] = target[PartOf[dest[q]]]
      BY <1>0, <3>1, <3>2, <3>3, Foreign, UsesSay DEF BackupTyped
    <3> QED BY <1>0, <3>1, <3>3 DEF Vacant, BackupTyped
  <2> QED BY <2>3, <2>4
<1>7. ASSUME NEW p \in Applier, MovePart(p) PROVE Vacant'
  <2>0. at[p] = "move" BY <1>7 DEF MovePart
  <2>1. dest[p] # NoPlace BY <1>0, <2>0 DEF Placed
  <2>2. PartOf[dest[p]] \in Uses(p) /\ dest[p] \in Uses(p) BY <2>1, UsesSay
  <2>3. /\ dest' = [dest EXCEPT ![p] = NoPlace] /\ UNCHANGED clash
        /\ \A q \in Applier \ {p} : at'[q] = at[q]
        /\ \A x \in Slot \ {dest[p], PartOf[dest[p]]} : target'[x] = target[x]
    BY <1>0, <1>7 DEF MovePart, BackupTyped
  <2>4. ASSUME NEW q \in Applier \ {p}, dest[q] # NoPlace, dest[q] \notin clash
        PROVE  /\ target'[dest[q]] = target[dest[q]]
               /\ target'[PartOf[dest[q]]] = target[PartOf[dest[q]]]
    <3>1. dest[q] \in Slot /\ PartOf[dest[q]] \in Slot BY <2>4, UsesSay
    <3>2. dest[q] \notin Uses(p) /\ PartOf[dest[q]] \notin Uses(p) BY <2>4, Foreign
    <3> QED BY <2>2, <2>3, <3>1, <3>2
  <2> QED BY <1>0, <2>3, <2>4 DEF Vacant, BackupTyped
<1>8. ASSUME NEW p \in Applier, DieCopying(p) PROVE Vacant'
  BY <1>0, <1>8 DEF DieCopying, Vacant, BackupTyped
<1>9. ASSUME NEW p \in Applier, NEW f \in File, RcloneCopies(p, f) PROVE Vacant'
  <2>1. \A q \in Applier : dest[q] = NoPlace
    <3>1. remote BY <1>9 DEF RcloneCopies, BackupInv, Counted
    <3> QED BY <1>0, <3>1 DEF Progress, Placed
  <2>2. UNCHANGED dest BY <1>9 DEF RcloneCopies
  <2> QED BY <2>1, <2>2 DEF Vacant
<1> QED BY <1>1, <1>2, <1>4, <1>5, <1>6, <1>7, <1>8, <1>9, BackupSteps

(* What a name held first it holds for good.                               *)
LEMMA BackupHeld ==
  ASSUME BackupInv, [BackupNext]_backupVars PROVE Held' /\ Kept'
<1>0. Held /\ Kept /\ Vacant /\ BackupTyped /\ Placed /\ Writing BY DEF BackupInv
<1>1. ASSUME target' = target, whole' = whole, used \subseteq used', clash \subseteq clash'
      PROVE  Held' /\ Kept'
  BY <1>0, <1>1 DEF Held, Kept, Sound, Exists
<1>2. ASSUME NEW s, \A x \in Slot \ {s} : target'[x] = target[x], whole' = whole,
             used \subseteq used', UNCHANGED clash, s \in used'
      PROVE  Held' /\ Kept'
  BY <1>0, <1>2, Names DEF Held, Kept, Sound, Exists
<1>3. ASSUME NEW p \in Applier, OpenPart(p) PROVE Held' /\ Kept'
  <2>1. /\ \A x \in Slot \ {PartOf[dest[p]]} : target'[x] = target[x]
        /\ whole' = whole /\ used' = used \cup {PartOf[dest[p]]} /\ UNCHANGED clash
    BY <1>0, <1>3 DEF OpenPart, BackupTyped
  <2> QED BY <1>2, <2>1
<1>4. ASSUME NEW p \in Applier, FillPart(p) PROVE Held' /\ Kept'
  <2>1. at[p] = "copy" /\ UNCHANGED <<whole, used, clash>> BY <1>4 DEF FillPart
  <2>2. CASE writing[p] = NoPlace
    <3>1. target' = target BY <1>4, <2>2 DEF FillPart
    <3> QED BY <1>1, <2>1, <3>1
  <2>3. CASE writing[p] \in used
    <3>1. \A x \in Slot \ {writing[p]} : target'[x] = target[x]
      BY <1>0, <1>4 DEF FillPart, BackupTyped
    <3> QED BY <1>2, <2>1, <2>3, <3>1
  <2>4. CASE writing[p] # NoPlace /\ writing[p] \in clash
    <3>1. source[Head(left[p])] \in Content BY <1>0, <2>1 DEF BackupTyped, Placed
    <3>2. PICK new \in Content \cup {TornCopy} : target' = [target EXCEPT ![writing[p]] = new]
      BY <1>4, <2>4, <3>1, FilledIsValue DEF FillPart
    <3>3. new # Nothing BY BackupAssumption
    <3>4. /\ \A x \in Slot \ {writing[p]} : target'[x] = target[x]
          /\ writing[p] \in Slot => target'[writing[p]] # Nothing
      BY <1>0, <3>2, <3>3 DEF BackupTyped
    <3>5. Held' BY <1>0, <2>1, <2>4, <3>4, Names DEF Held, Sound
    <3>6. Kept' BY <1>0, <2>1, <3>4, Names DEF Kept, Exists
    <3> QED BY <3>5, <3>6
  <2>5. writing[p] # NoPlace => writing[p] \in used \/ writing[p] \in clash
    BY <1>0, <2>1 DEF Writing
  <2> QED BY <2>2, <2>3, <2>4, <2>5
<1>5. ASSUME NEW p \in Applier, Compare(p) PROVE Held' /\ Kept'
  <2>1. /\ PartOf[dest[p]] \in used /\ UNCHANGED <<whole, used, clash>>
    BY <1>0, <1>5 DEF Compare, Writing
  <2>2. \A x \in Slot \ {PartOf[dest[p]]} : target'[x] = target[x]
    BY <1>0, <1>5 DEF Compare, BackupTyped
  <2> QED BY <1>2, <2>1, <2>2
<1>6. ASSUME NEW p \in Applier, MovePart(p) PROVE Held' /\ Kept'
  <2>1. CASE ~Exists(PartOf[dest[p]])
    <3>1. UNCHANGED <<target, whole, used, clash>> BY <1>6, <2>1 DEF MovePart
    <3> QED BY <1>1, <3>1
  <2>2. CASE Exists(PartOf[dest[p]])
    <3> DEFINE x == dest[p]
               t == PartOf[dest[p]]
    <3>1. /\ at[p] = "move" /\ UNCHANGED <<used, clash>>
          /\ target' = [target EXCEPT ![x] = target[t], ![t] = Nothing]
          /\ whole' = [whole EXCEPT ![x] = IF @ = Nothing THEN target[t] ELSE @]
      BY <1>6, <2>2 DEF MovePart
    <3>2. x # NoPlace BY <1>0, <3>1 DEF Placed
    <3>3. x \in Slot /\ t \in Slot /\ t # x BY <3>2, UsesSay
    <3>4. t \in used BY <1>0, <3>1 DEF Writing
    <3>5. x \notin clash => target[x] = Nothing /\ target[t] \in Content
      BY <1>0, <3>1, <3>2 DEF Vacant
    <3>6. /\ \A y \in Slot \ {x, t} : target'[y] = target[y] /\ whole'[y] = whole[y]
          /\ target'[x] = target[t] /\ target[t] # Nothing
          /\ whole'[x] = IF whole[x] = Nothing THEN target[t] ELSE whole[x]
      BY <1>0, <2>2, <3>1, <3>3 DEF BackupTyped, Exists
    <3> HIDE DEF x, t
    <3>7. Held' BY <1>0, <3>1, <3>4, <3>5, <3>6, Names DEF Held, Sound
    <3>8. Kept' BY <1>0, <3>1, <3>4, <3>6, Names DEF Kept, Exists
    <3> QED BY <3>7, <3>8
  <2> QED BY <2>1, <2>2
<1>7. ASSUME NEW p \in Applier, NEW f \in File, RcloneCopies(p, f) PROVE Held' /\ Kept'
  <2>1. source[f] \in Content /\ source[f] # Nothing BY <1>0, BackupAssumption DEF BackupTyped
  <2>2. /\ target' = [target EXCEPT ![RemotePlace(f)] = source[f]]
        /\ whole' = [whole EXCEPT ![RemotePlace(f)] = source[f]] /\ UNCHANGED <<used, clash>>
    BY <1>7 DEF RcloneCopies
  <2>3. /\ \A y \in Slot \ {RemotePlace(f)} : target'[y] = target[y] /\ whole'[y] = whole[y]
        /\ target'[RemotePlace(f)] = source[f] /\ whole'[RemotePlace(f)] = source[f]
    BY <1>0, <2>2, Names DEF BackupTyped
  <2>4. Held' BY <1>0, <2>1, <2>2, <2>3, Names DEF Held, Sound
  <2>5. Kept' BY <1>0, <2>1, <2>2, <2>3, Names DEF Kept, Exists
  <2> QED BY <2>4, <2>5
<1>8. Quiet => Held' /\ Kept' BY <1>1 DEF Quiet
<1>9. ASSUME NEW p \in Applier, NEW x \in LocalPlace, Takes(p, x) PROVE Held' /\ Kept'
  BY <1>1, <1>9 DEF Takes
<1>10. ASSUME NEW p \in Applier, DieCopying(p) PROVE Held' /\ Kept'
  BY <1>1, <1>10 DEF DieCopying
<1> QED BY <1>3, <1>4, <1>5, <1>6, <1>7, <1>8, <1>9, <1>10, BackupSteps

(* A backup empties no name that was not used for a .part file, and keeps  *)
(* whole what a name held first unless two processes used it at once,      *)
(* whatever fails, is retried or is killed; it copies only what was        *)
(* approved and is not excluded, and reports what is done.                 *)
THEOREM BackupLosesNothing == BackupSpec => []BackupKeeps
<1>1. BackupInv => BackupKeeps
  <2> SUFFICES ASSUME BackupInv PROVE BackupKeeps OBVIOUS
  <2>1. \A x \in Place \ used : /\ whole[x] # Nothing => Exists(x)
                                /\ x \notin clash => Sound(x)
    BY DEF BackupInv, Held, Kept
  <2> QED BY <2>1 DEF BackupInv, BackupKeeps, Sound, Authorized, Allowed, Cleared, Counted,
                      Reported, OnRemote
<1>2. BackupInv /\ [BackupNext]_backupVars => BackupInv'
  BY BackupTypedStep, BackupAuthorized, BackupCounted, BackupProgress, BackupReported,
     BackupPlaced, BackupWriting, BackupUnshared, BackupVacant, BackupHeld
  DEF BackupInv
<1> QED BY <1>1, <1>2, BackupStart, PTL DEF BackupSpec
=============================================================================
