---------------------------- MODULE ClassicChat ----------------------------
(***************************************************************************)
(* The older chat, `python -m comptext_phone_agent.ollama_chat`: it runs a *)
(* fixed local command if the text names one, asks the model, and keeps    *)
(* the conversation in one JSON file, which it replaces by a temporary     *)
(* file of one fixed name.  Several chats may be open, and any may die.    *)
(*                                                                         *)
(* Abstractions.  An exchange, question and answer, is its chat and a      *)
(* number.  A file is an inode: a chat goes on writing to the one it       *)
(* opened, whatever its name is by then.  Locals are reset when they are   *)
(* out of use.                                                             *)
(***************************************************************************)
EXTENDS Naturals, Sequences, SequencesExt, FiniteSets

CONSTANTS
  Chat,          \* processes
  Text,          \* what may be typed: the sets of tools whose words it has
  Torn, NoInode,
  Kept,          \* exchanges kept in the file: 15, that is 30 messages
  MaxExchanges, MaxDeaths   \* bounds

Exchange == Chat \X Nat
ASSUME ChatAssumption ==
  /\ Kept \in Nat \ {0} /\ MaxExchanges \in Nat /\ MaxDeaths \in Nat
  /\ IsFiniteSet(Chat) /\ NoInode \notin Nat /\ Torn \notin Seq(Exchange)

(* detect_tool tries the tools in this order.                              *)
Tools == <<"duplicates", "largest_files", "storage_scan", "old_files", "file_types", "battery",
           "wifi", "volume", "status", "cleanup_plan">>
ASSUME TextAssumption == Text \subseteq SUBSET ToSet(Tools)

DetectTool(text) ==
  IF text = {} THEN "none"
  ELSE Tools[CHOOSE i \in DOMAIN Tools :
               Tools[i] \in text /\ \A j \in 1 .. i - 1 : Tools[j] \notin text]

Inode == 1 .. Cardinality(Chat) + 2

VARIABLES
  content,       \* of an inode: exchanges, or Torn while it is written
  file, temporary,  \* the inodes named ollama-history.json and .tmp
  history,       \* a chat's memory
  doing, said, handle,  \* where it is, the text, the inode it has open
  result,        \* of the tool: "none", "ok", or "failed"
  planned,       \* texts for which a cleanup plan was made
  exchanges, deaths,
  saved,         \* history: what was saved last, <<>> if cleared
  collided, spoiled  \* history: chats whose save met another one; the last
                     \* save was one of them

classicVars == <<content, file, temporary, history, doing, said, handle, result, planned,
                 exchanges, deaths, saved, collided, spoiled>>
onDisk == <<content, file, temporary>>
turn == <<said, result, planned>>
past == <<deaths, saved, collided, spoiled>>

ClassicInit ==
  /\ content = [i \in Inode |-> <<>>] /\ file = NoInode /\ temporary = NoInode
  /\ history = [c \in Chat |-> <<>>] /\ doing = [c \in Chat |-> "off"]
  /\ said = [c \in Chat |-> {}] /\ handle = [c \in Chat |-> NoInode]
  /\ result = [c \in Chat |-> "none"] /\ planned = {} /\ exchanges = 0 /\ deaths = 0
  /\ saved = <<>> /\ collided = {} /\ spoiled = FALSE

Step(c, place) == doing' = [doing EXCEPT ![c] = place]
Saving == {c \in Chat : doing[c] \in {"save", "open", "written"}}
LastKept(all) == SubSeq(all, IF Len(all) > Kept THEN Len(all) - Kept + 1 ELSE 1, Len(all))

(* load_history: nothing if the file is missing or is no JSON list.        *)
Loaded == IF file = NoInode \/ content[file] = Torn THEN <<>> ELSE LastKept(content[file])

Start(c) ==
  /\ doing[c] = "off"
  /\ history' = [history EXCEPT ![c] = Loaded] /\ Step(c, "prompt")
  /\ UNCHANGED <<onDisk, turn, handle, exchanges, past>>

(* A text; its tool, if any, is run before the model is asked.             *)
Say(c, text) ==
  /\ doing[c] = "prompt" /\ exchanges < MaxExchanges /\ exchanges' = exchanges + 1
  /\ said' = [said EXCEPT ![c] = text]
  /\ Step(c, IF DetectTool(text) = "none" THEN "ask" ELSE "tool")
  /\ UNCHANGED <<onDisk, history, handle, result, planned, past>>

(* run_fixed: output, an error, or the time limit, by which a plan may     *)
(* have been made.  The model is told of it either way.                    *)
RunTool(c) ==
  /\ doing[c] = "tool" /\ Step(c, "ask")
  /\ \E r \in {"ok", "failed"} :
       /\ result' = [result EXCEPT ![c] = r]
       /\ IF DetectTool(said[c]) = "cleanup_plan"
          THEN planned' \in (IF r = "ok" THEN {} ELSE {planned}) \cup {planned \cup {said[c]}}
          ELSE UNCHANGED planned
  /\ UNCHANGED <<onDisk, history, said, handle, exchanges, past>>

(* ask_ollama answers, and the exchange is kept; or it raises, and nothing *)
(* of the exchange is.                                                     *)
Reply(c) ==
  /\ doing[c] = "ask"
  /\ said' = [said EXCEPT ![c] = {}] /\ result' = [result EXCEPT ![c] = "none"]
  /\ \/ /\ history' = [history EXCEPT ![c] = Append(@, <<c, exchanges>>)] /\ Step(c, "save")
        /\ collided' = IF Saving = {} THEN collided \ {c} ELSE collided \cup Saving \cup {c}
     \/ Step(c, "prompt") /\ UNCHANGED <<history, collided>>
  /\ UNCHANGED <<onDisk, planned, handle, exchanges, deaths, saved, spoiled>>

\* Mistake: the file itself is written.
OpenInPlace(c) ==
  /\ doing[c] = "save" /\ Step(c, "open")
  /\ file' = IF file = NoInode THEN 1 ELSE file
  /\ temporary' = file' /\ handle' = [handle EXCEPT ![c] = file']
  /\ content' = [content EXCEPT ![file'] = Torn]
  /\ UNCHANGED <<history, turn, exchanges, past>>

(* save_history: the temporary file is opened, which empties one that is   *)
(* there ...                                                               *)
Open(c) ==
  /\ doing[c] = "save" /\ Step(c, "open")
  /\ temporary' = IF temporary = NoInode
                   THEN CHOOSE i \in Inode : i # file /\ \A d \in Chat : handle[d] # i
                   ELSE temporary
  /\ handle' = [handle EXCEPT ![c] = temporary']
  /\ content' = [content EXCEPT ![temporary'] = Torn]
  /\ UNCHANGED <<file, history, turn, exchanges, past>>

(* ... written (a file that another chat wrote to as well is torn for      *)
(* good), ...                                                              *)
Write(c) ==
  /\ doing[c] = "open" /\ Step(c, "written")
  /\ content' \in {[content EXCEPT ![handle[c]] = LastKept(history[c])]}
                  \cup (IF \E d \in Chat \ {c} : handle[d] = handle[c]
                        THEN {[content EXCEPT ![handle[c]] = Torn]} ELSE {})
  /\ UNCHANGED <<file, temporary, history, turn, handle, exchanges, past>>

(* ... and renamed; without it the chat dies of the error.                 *)
Replace(c) ==
  /\ doing[c] = "written" /\ handle' = [handle EXCEPT ![c] = NoInode]
  /\ IF temporary = NoInode
     THEN Step(c, "off") /\ UNCHANGED <<file, temporary, saved, spoiled>>
     ELSE /\ file' = temporary /\ temporary' = NoInode /\ Step(c, "chmod")
          /\ saved' = history[c] /\ spoiled' = (c \in collided)
  /\ UNCHANGED <<content, history, turn, exchanges, deaths, collided>>

Chmod(c) ==
  /\ doing[c] = "chmod" /\ Step(c, IF file = NoInode THEN "off" ELSE "prompt")
  /\ UNCHANGED <<onDisk, history, turn, handle, exchanges, past>>

(* /clear.                                                                 *)
ClearHistory(c) ==
  /\ doing[c] = "prompt"
  /\ history' = [history EXCEPT ![c] = <<>>]
  /\ file' = NoInode /\ saved' = <<>> /\ spoiled' = FALSE
  /\ UNCHANGED <<content, temporary, doing, handle, turn, exchanges, deaths, collided>>

(* A chat is left, killed, or ends with an error that nothing catches.     *)
Die(c) ==
  /\ doing[c] # "off" /\ (doing[c] = "prompt" \/ deaths < MaxDeaths)
  /\ deaths' = IF doing[c] = "prompt" THEN deaths ELSE deaths + 1
  /\ Step(c, "off") /\ handle' = [handle EXCEPT ![c] = NoInode]
  /\ history' = [history EXCEPT ![c] = <<>>]
  /\ said' = [said EXCEPT ![c] = {}] /\ result' = [result EXCEPT ![c] = "none"]
  /\ UNCHANGED <<onDisk, planned, exchanges, saved, collided, spoiled>>

ClassicNext ==
  \E c \in Chat :
    \/ Start(c) \/ (\E text \in Text : Say(c, text)) \/ RunTool(c) \/ Reply(c)
    \/ Open(c) \/ Write(c) \/ Replace(c) \/ Chmod(c) \/ ClearHistory(c) \/ Die(c)

ClassicSpec == ClassicInit /\ [][ClassicNext]_classicVars

(* A chat that starts finds what was saved last, whole and in order, or    *)
(* nothing after a clear, wherever the chats before it died; only chats    *)
(* that save at the same time spoil it, until the next save.  And whatever *)
(* is typed, a text makes a plan only if it asks for a change and for      *)
(* nothing that one of the reading tools answers.                          *)
HistoryWhole ==
  /\ spoiled \/ Loaded = LastKept(saved)
  /\ planned \subseteq {{"cleanup_plan"}}
=============================================================================
