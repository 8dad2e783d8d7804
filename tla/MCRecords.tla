----------------------------- MODULE MCRecords ------------------------------
(* Instance for TLC of what the program keeps in tables and files: the     *)
(* approvals, the event log of a run, the sessions in the database, the    *)
(* older chat's file, the backup and the search for duplicates.  They      *)
(* share nothing, so each is explored with the others at rest: `part` says *)
(* which one moves.  The sessions are explored twice, with two texts in    *)
(* the interface alone, and with one there and two in a terminal chat.     *)
(*                                                                         *)
(* A plan is edited from the reversible body to the irreversible one only, *)
(* and one of two searches verifies.  Approvals and the terminal's texts   *)
(* are interchangeable, so the second is not used before the first.        *)
(* The base name of the second file to back up, n2, is that of the first   *)
(* with ".part" added.  Two of the three contents, d1 and d2, have the     *)
(* same size and the same ends.                                            *)
EXTENDS MCApprovals, EventLog, ChatSessions, ClassicChat, Backup, DigestCache

CONSTANTS Parts, a1, a2, r1, r2, t1, t2, f1, f2, n1, n2, d1, d2, d3, u, v

VARIABLE part

MCText == {{}, {"cleanup_plan"}, {"duplicates", "cleanup_plan"}}

MCBaseOf == (f1 :> n1) @@ (f2 :> n2)
MCSpare == {<<x, "part">> : x \in LocalPlace}
MCPartOf == [x \in LocalPlace |-> IF x = <<n1, 0>> THEN <<n2, 0>> ELSE <<x, "part">>]
MCSelections == {<<f1, f2>>, <<f2, f1>>}

MCWalk == <<u, v>>
MCNameOf == (u :> n1) @@ (v :> n1)
MCSizeOf == (d1 :> 2) @@ (d2 :> 2) @@ (d3 :> 1)
MCEndsOf == (d1 :> d1) @@ (d2 :> d1) @@ (d3 :> d3)

MCInit ==
  /\ part \in Parts
  /\ Init /\ LogInit /\ ChatInit /\ ClassicInit /\ BackupInit /\ DigestInit
  /\ source = [f \in File |-> d1] /\ disk[u] = d1 /\ \A x \in Slot : target[x] # d1
  /\ Cardinality({x \in Slot : target[x] # Nothing}) <= 1
  /\ part # "backup" => remote
  /\ remote => strategy = "skip" /\ \A x \in Slot : target[x] = Nothing
  /\ disk[v] # d3 /\ (part # "digest" => \A p \in Path : disk[p] = d1)

MCNext ==
  /\ UNCHANGED part
  /\ \/ /\ part = "approvals" /\ Next /\ (rows'[a1] = NoRow => rows'[a2] = NoRow)
        /\ \A i \in PlanId : <<plans[i], plans'[i]>> # <<purgeBody, trashBody>>
        /\ UNCHANGED <<logVars, chatVars, classicVars, backupVars, digestVars>>
     \/ /\ part = "log" /\ LogNext
        /\ UNCHANGED <<vars, chatVars, classicVars, backupVars, digestVars>>
     \/ /\ part = "interface" /\ ChatNext /\ termSession' = 0
        /\ UNCHANGED <<vars, logVars, classicVars, backupVars, digestVars>>
     \/ /\ part = "both" /\ ChatNext /\ place'[r2] = "new"
        /\ (place'[t1] = "new" => place'[t2] = "new")
        /\ UNCHANGED <<vars, logVars, classicVars, backupVars, digestVars>>
     \/ /\ part = "classic" /\ ClassicNext
        /\ UNCHANGED <<vars, logVars, chatVars, backupVars, digestVars>>
     \/ /\ part = "backup" /\ BackupNext /\ (remote => plan' \in {<<>>, <<f1, f2>>})
        /\ UNCHANGED <<vars, logVars, chatVars, classicVars, digestVars>>
     \/ /\ part = "digest" /\ DigestNext /\ {c \in Searcher : job'[c].verify} # {}
        /\ UNCHANGED <<vars, logVars, chatVars, classicVars, backupVars>>

MCSpec ==
  MCInit /\ [][MCNext]_<<part, vars, logVars, chatVars, classicVars, backupVars, digestVars>>
=============================================================================
