---------------------------- MODULE DigestCache ----------------------------
(***************************************************************************)
(* Commands that look for duplicates, and `scan --hash`, over one database *)
(* of digests, while other programs write and delete the files.            *)
(*                                                                         *)
(* Abstractions.  A content has a size, and is one with others that have   *)
(* its first and last MiB.  A digest is what was read: the pair of what    *)
(* the first and the last read of the file saw.  Every write leaves a new  *)
(* modification time.  Links are never digested and left out.  All sizes   *)
(* go through a phase together: with three files there is one group.       *)
(***************************************************************************)
EXTENDS Naturals, Sequences, SequencesExt, Subsequences

CONSTANTS
  Path, Walk,           \* the files, in the order os.walk lists them
  NameOf,               \* a path's file name, in lower case
  Bytes, Gone,          \* what a file holds; there is no file
  SizeOf, EndsOf,       \* size, and what its first and last MiB are
  None,
  Searcher,              \* processes that run one command each
  MaxWrites             \* bound

ASSUME DigestAssumption ==
  /\ Walk \in Seq(Path) /\ ToSet(Walk) = Path /\ Gone \notin Bytes
  /\ SizeOf \in [Bytes -> Nat] /\ DOMAIN EndsOf = Bytes /\ DOMAIN NameOf = Path
  /\ MaxWrites \in Nat /\ None \notin Nat
  /\ LET Part == Bytes \cup {EndsOf[x] : x \in Bytes} IN None \notin Part \X Part

VARIABLES
  disk, mtime, writes,
  cache,      \* file_hash_cache, by path and kind
  job,        \* a command: its phase, the files it has still to treat, ...
  poisoned,   \* history: rows stored for a file written while it was read
  touched,    \* history: files written since a command began
  misled      \* history: files a command read during a write, or from such a row

digestVars == <<disk, mtime, writes, cache, job, poisoned, touched, misled>>

Idle == [at |-> "idle", todo |-> <<>>, step |-> "next", first |-> None, digest |-> None,
         dirty |-> FALSE, verify |-> TRUE, hash |-> FALSE, groups |-> {},
         size |-> [p \in Path |-> None], key |-> [p \in Path |-> None],
         sha |-> [p \in Path |-> None]]

Failed == [Idle EXCEPT !.at = "failed"]

DigestInit ==
  /\ disk \in [Path -> Bytes] /\ mtime = [p \in Path |-> 0] /\ writes = 0
  /\ cache = [row \in Path \X {"partial", "sha256"} |-> None]
  /\ job = [c \in Searcher |-> Idle]
  /\ poisoned = {} /\ touched = [c \in Searcher |-> {}] /\ misled = [c \in Searcher |-> {}]

files == <<disk, mtime, writes, touched>>
Becomes(c, new) == job' = [job EXCEPT ![c] = new]
Current(c) == Head(job[c].todo)
Stat(p) == <<SizeOf[disk[p]], mtime[p]>>

(* Another program writes, replaces or deletes a file.                     *)
WriteFile(p, x) ==
  /\ writes < MaxWrites /\ x # disk[p]
  /\ disk' = [disk EXCEPT ![p] = x] /\ writes' = writes + 1
  /\ mtime' = [mtime EXCEPT ![p] = writes']
  /\ touched' = [c \in Searcher |-> touched[c] \cup {p}]
  /\ job' = [c \in Searcher |->
       IF job[c].step \in {"second", "put"} /\ Current(c) = p
       THEN [job[c] EXCEPT !.dirty = TRUE] ELSE job[c]]
  /\ UNCHANGED <<cache, poisoned, misled>>

StartCommand(c, verify, hash) ==
  /\ job[c].at = "idle" /\ (hash => ~verify)
  /\ Becomes(c, [job[c] EXCEPT !.at = "scan", !.todo = Walk, !.verify = verify, !.hash = hash])
  /\ touched' = [touched EXCEPT ![c] = {}]
  /\ UNCHANGED <<disk, mtime, writes, cache, poisoned, misled>>

(* iter_files: the size is taken, and with --hash the digest.              *)
Visit(c) ==
  /\ job[c].at = "scan" /\ job[c].step = "next" /\ job[c].todo # <<>>
  /\ LET p == Current(c) IN
     IF disk[p] = Gone THEN Becomes(c, [job[c] EXCEPT !.todo = Tail(@)])
     ELSE Becomes(c, [job[c] EXCEPT !.size[p] = SizeOf[disk[p]],
                                    !.step = IF job[c].hash THEN "get" ELSE "next",
                                    !.todo = IF job[c].hash THEN @ ELSE Tail(@)])
  /\ UNCHANGED <<files, cache, poisoned, misled>>

-----------------------------------------------------------------------------
(* The digest of one file: _digest and _sha256.                            *)

KindAt(c) == IF job[c].at = "partial" THEN "partial" ELSE "sha256"

\* Mistake: a partial digest is stored as one of the whole file.
OneRowForBoth(c) == <<Current(c), "sha256">>

CacheRow(c) == <<Current(c), KindAt(c)>>
ReadsAs(c) == LET x == disk[Current(c)] IN IF KindAt(c) = "partial" THEN EndsOf[x] ELSE x

(* OSError: a scanned file becomes an error, a candidate is passed over,   *)
(* and the comparison of equal names lets the command fail.                *)
SkipFile(c) ==
  LET passed == [job[c] EXCEPT !.todo = Tail(@), !.step = "next"]
  IN Becomes(c, CASE job[c].at = "scan" -> [passed EXCEPT !.size[Current(c)] = None]
                  [] job[c].at \in {"partial", "full"} -> passed
                  [] job[c].at = "names" -> Failed)

TakeDigest(c, d) ==
  LET treated == [job[c] EXCEPT !.todo = Tail(@), !.step = "next", !.first = None, !.digest = None]
  IN Becomes(c, IF job[c].at = "partial" THEN [treated EXCEPT !.key[Current(c)] = d]
                ELSE [treated EXCEPT !.sha[Current(c)] = d])

Wants(c) == /\ job[c].todo # <<>>
            /\ \/ job[c].at = "scan" /\ job[c].step = "get"
               \/ job[c].at \in {"partial", "full", "names"} /\ job[c].step = "next"

(* HashCache.get                                                           *)
Get(c) ==
  /\ Wants(c)
  /\ LET row == cache[CacheRow(c)] IN
     IF disk[Current(c)] = Gone THEN SkipFile(c) /\ UNCHANGED misled
     ELSE IF row # None /\ row.stat = Stat(Current(c))
     THEN /\ TakeDigest(c, row.digest)
          /\ misled' = IF CacheRow(c) \in poisoned THEN [misled EXCEPT ![c] = @ \cup {Current(c)}]
                       ELSE misled
     ELSE Becomes(c, [job[c] EXCEPT !.step = "first", !.dirty = FALSE]) /\ UNCHANGED misled
  /\ UNCHANGED <<files, cache, poisoned>>

ReadFirst(c) ==
  /\ job[c].step = "first"
  /\ IF disk[Current(c)] = Gone THEN SkipFile(c)
     ELSE Becomes(c, [job[c] EXCEPT !.step = "second", !.first = ReadsAs(c)])
  /\ UNCHANGED <<files, cache, poisoned, misled>>

(* A file written in place is read on as it is now; one that was replaced  *)
(* or deleted, as it was when it was opened.                               *)
ReadSecond(c) ==
  /\ job[c].step = "second"
  /\ \E rest \in {job[c].first} \cup (IF disk[Current(c)] = Gone THEN {} ELSE {ReadsAs(c)}) :
       Becomes(c, [job[c] EXCEPT !.step = "put", !.digest = <<job[c].first, rest>>])
  /\ UNCHANGED <<files, cache, poisoned, misled>>

(* HashCache.put: with the size and the time the file has by now.          *)
PutDigest(c) ==
  /\ job[c].step = "put"
  /\ IF disk[Current(c)] = Gone THEN SkipFile(c) /\ UNCHANGED <<cache, poisoned, misled>>
     ELSE /\ cache' = [cache EXCEPT ![CacheRow(c)] =
                         [stat |-> Stat(Current(c)), digest |-> job[c].digest]]
          /\ TakeDigest(c, job[c].digest)
          /\ IF job[c].dirty
             THEN /\ poisoned' = poisoned \cup {CacheRow(c)}
                  /\ misled' = [misled EXCEPT ![c] = @ \cup {Current(c)}]
             ELSE poisoned' = poisoned \ {CacheRow(c)} /\ UNCHANGED misled
  /\ UNCHANGED files

-----------------------------------------------------------------------------
(* DuplicateDetector.find                                                  *)

Scanned(c) == {p \in Path : job[c].size[p] # None}
(* Of the files of a set, the classes of two and more on which f agrees.   *)
Classes(S, f) == {{q \in S : f[q] = f[p]} : p \in {x \in S : \E y \in S \ {x} : f[y] = f[x]}}
InOrder(S) == Among(Walk, S)

(* A quick search takes equal ends for equal content.                      *)
SameEnds(c) ==
  LET S == {p \in Path : job[c].key[p] # None}
  IN Classes(S, [p \in S |-> <<job[c].size[p], job[c].key[p]>>])

SameContent(c) ==
  LET S == {p \in UNION SameEnds(c) : job[c].sha[p] # None}
  IN Classes(S, [p \in S |-> <<job[c].size[p], job[c].key[p], job[c].sha[p]>>])

SameName(c) == UNION Classes(Scanned(c), NameOf)

EndPhase(c) ==
  /\ job[c].step = "next" /\ job[c].todo = <<>>
  /\ \/ /\ job[c].at = "scan"
        /\ Becomes(c, IF job[c].hash THEN [Idle EXCEPT !.at = "done", !.hash = TRUE]
                      ELSE [job[c] EXCEPT !.at = "partial",
                             !.todo = InOrder(UNION Classes(Scanned(c), job[c].size))])
     \/ /\ job[c].at = "partial" /\ job[c].verify
        /\ Becomes(c, [job[c] EXCEPT !.at = "full", !.todo = InOrder(UNION SameEnds(c))])
     \/ /\ job[c].at = IF job[c].verify THEN "full" ELSE "partial"
        /\ Becomes(c, [job[c] EXCEPT !.at = "names",
                         !.groups = IF job[c].verify THEN SameContent(c) ELSE SameEnds(c),
                         !.todo = InOrder({p \in SameName(c) : job[c].sha[p] = None})])
     \/ job[c].at = "names" /\ Becomes(c, [job[c] EXCEPT !.at = "done"])
  /\ UNCHANGED <<files, cache, poisoned, misled>>

(* The database is locked, or the process is killed.                       *)
DieSearching(c) ==
  /\ job[c].at \in {"scan", "partial", "full", "names"}
  /\ Becomes(c, Failed)
  /\ UNCHANGED <<files, cache, poisoned, misled>>

DigestNext ==
  \/ \E p \in Path, x \in Bytes \cup {Gone} : WriteFile(p, x)
  \/ \E c \in Searcher :
       \/ \E verify, hash \in BOOLEAN : StartCommand(c, verify, hash)
       \/ Visit(c) \/ Get(c) \/ ReadFirst(c) \/ ReadSecond(c) \/ PutDigest(c)
       \/ EndPhase(c) \/ DieSearching(c)

DigestSpec == DigestInit /\ [][DigestNext]_digestVars

(* Files offered as duplicates are duplicates: of the files that nobody    *)
(* wrote since the search began and that were never digested during a      *)
(* write, a verified group has only equal ones and every equal one; and a  *)
(* row of the cache that fits a file as it is tells that file's digest,    *)
(* unless the file was written between its reading and the row's storing.  *)
DuplicatesAreSame ==
  /\ \A row \in DOMAIN cache \ poisoned :
       LET x == disk[row[1]]
           right == IF row[2] = "partial" THEN EndsOf[x] ELSE x
       IN cache[row] # None /\ x # Gone =>
            (cache[row].stat = Stat(row[1]) => cache[row].digest = <<right, right>>)
  /\ \A c \in Searcher : job[c].at \in {"names", "done"} /\ job[c].verify /\ ~job[c].hash =>
       LET S == Path \ (touched[c] \cup misled[c])
       IN {g \cap S : g \in {h \in job[c].groups : h \cap S # {}}} \ {{p} : p \in S}
            = Classes({p \in S : disk[p] # Gone}, disk)
=============================================================================
