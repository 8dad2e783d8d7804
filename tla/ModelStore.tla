----------------------------- MODULE ModelStore -----------------------------
(***************************************************************************)
(* The broker's imported models: AtomicModelStore copies a picked document *)
(* into a partial file and renames it over the target; ModelRegistry then  *)
(* rewrites its list of records.  An import is started by the activity,    *)
(* goes on when the activity is created anew (with a registry, and a       *)
(* monitor, of its own), and ends early when the process is killed.        *)
(*                                                                         *)
(* Abstractions.  A document is its name and its content; a content stands *)
(* for its bytes, its size and its SHA-256.  The partial file has a name   *)
(* of its own and nobody else opens it: "copying" and "copied" stand for   *)
(* it.  A kill leaves it behind, and nothing ever removes it.              *)
(***************************************************************************)
EXTENDS Naturals, FiniteSets

CONSTANTS
  Importer,     \* activities that import: a ModelRegistry each
  Name,         \* normalized model names
  Content,      \* contents of documents
  Plausible,    \* those whose size lies in minBytes..maxBytes
  NoContent, NoDocument,
  MaxImports, MaxKills  \* bounds

Document == [name : Name, content : Content]

ASSUME ModelAssumption ==
  /\ Plausible \subseteq Content /\ NoContent \notin Content /\ NoDocument \notin Document
  /\ MaxImports \in Nat /\ MaxKills \in Nat

VARIABLES
  target,     \* models/<name>
  records,    \* the registry: the content (size, sha256) recorded for a name
  doing, document, read,  \* an import's place and locals
  outcome,    \* what the activity was told of its last import
  imports, kills,
  torn        \* history: names of which an import was killed or overlapped
              \* another one of any name

modelVars == <<target, records, doing, document, read, outcome,
               imports, kills, torn>>

ModelInit ==
  /\ target = [n \in Name |-> NoContent] /\ records = [n \in Name |-> NoContent]
  /\ doing = [i \in Importer |-> "idle"]
  /\ document = [i \in Importer |-> NoDocument]
  /\ read = [i \in Importer |-> [n \in Name |-> NoContent]]
  /\ outcome = [i \in Importer |-> "none"]
  /\ imports = 0 /\ kills = 0 /\ torn = {}

Busy == {i \in Importer : doing[i] # "idle"}
NameOf(i) == document[i].name
Enter(i, place) == doing' = [doing EXCEPT ![i] = place]
Finish(i, result) ==
  Enter(i, "idle") /\ outcome' = [outcome EXCEPT ![i] = result]

Pick(i, d) ==
  /\ doing[i] = "idle" /\ imports < MaxImports
  /\ imports' = imports + 1
  /\ document' = [document EXCEPT ![i] = d]
  /\ outcome' = [outcome EXCEPT ![i] = "none"]
  /\ torn' = IF Busy = {} THEN torn ELSE torn \cup {d.name} \cup {NameOf(j) : j \in Busy}
  /\ Enter(i, "copying")
  /\ UNCHANGED <<target, records, read, kills>>

Copy(i) ==
  /\ doing[i] = "copying"
  /\ Enter(i, "copied")
  /\ UNCHANGED <<target, records, document, read, outcome, imports, kills, torn>>

(* The document cannot be read, or its size is implausible.                *)
Reject(i) ==
  /\ doing[i] = "copying" \/ (doing[i] = "copied" /\ document[i].content \notin Plausible)
  /\ Finish(i, "failed")
  /\ UNCHANGED <<target, records, document, read, imports, kills, torn>>

\* Mistake: the document is copied straight into place.
MoveUnchecked(i) ==
  /\ doing[i] = "copied"
  /\ target' = [target EXCEPT ![NameOf(i)] = document[i].content]
  /\ Enter(i, "moved")
  /\ UNCHANGED <<records, document, read, outcome, imports, kills, torn>>

Move(i) ==
  /\ doing[i] = "copied" /\ document[i].content \in Plausible
  /\ target' = [target EXCEPT ![NameOf(i)] = document[i].content]
  /\ Enter(i, "moved")
  /\ UNCHANGED <<records, document, read, outcome, imports, kills, torn>>

ReadRecords(i) ==
  /\ doing[i] = "moved"
  /\ read' = [read EXCEPT ![i] = records] /\ Enter(i, "read")
  /\ UNCHANGED <<target, records, document, outcome, imports, kills, torn>>

(* All records but the one of this name, and the new one.                  *)
Commit(i) ==
  /\ doing[i] = "read"
  /\ records' = [read[i] EXCEPT ![NameOf(i)] = document[i].content]
  /\ Finish(i, "imported")
  /\ UNCHANGED <<target, document, read, imports, kills, torn>>

(* The process dies: partial files and what was moved stay.                *)
Kill ==
  /\ kills < MaxKills /\ Busy # {}
  /\ kills' = kills + 1
  /\ torn' = torn \cup {NameOf(i) : i \in Busy}
  /\ doing' = [i \in Importer |-> "idle"] /\ outcome' = [i \in Importer |-> "none"]
  /\ UNCHANGED <<target, records, document, read, imports>>

ModelNext ==
  \/ Kill
  \/ \E i \in Importer : \/ \E d \in Document : Pick(i, d)
                         \/ Copy(i) \/ Reject(i) \/ Move(i) \/ ReadRecords(i) \/ Commit(i)

ModelSpec == ModelInit /\ [][ModelNext]_modelVars

(* find() and list().                                                      *)
Find(n) == records[n] # NoContent /\ target[n] # NoContent

(* What a load opens was copied completely and has a plausible size, also  *)
(* after kills and with two imports at once; and a model whose imports     *)
(* neither were killed nor overlapped another one is listed as imported,   *)
(* with the size and digest of the file that lies there.                   *)
ModelsWhole ==
  \A n \in Name :
    /\ Find(n) => target[n] \in Plausible
    /\ records[n] # NoContent => target[n] # NoContent
    /\ n \notin torn /\ (\A i \in Busy : NameOf(i) # n) => records[n] = target[n]
=============================================================================
