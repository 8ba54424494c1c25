---------------------------- MODULE BuildListing ----------------------------
(***************************************************************************)
(* The Grok Build sessions that the hub lists and opens, read from files   *)
(* that the agent writes at any time (internal/buildsessions), and the     *)
(* sessions it created and remembers until they are on disk                *)
(* (createBuildSession, listMergedSessions in internal/hub/server.go).     *)
(* A listing is a walk that reads the summary of a directory, its chat     *)
(* history and its updates, each file at a moment of its own.              *)
(***************************************************************************)
EXTENDS Naturals, SequencesExt

CONSTANTS
  Places,     (* the directories in the order of a walk: [home, name]      *)
  Ids, None,
  Lines,      (* the lines that the agent writes to its .jsonl files       *)
  Summaries,  (* the summaries it writes: [id, hidden, stamp]              *)
  MaxWrites,  (* bound of the model: summaries written                     *)
  MaxLines    (* bound of the model: lines written                         *)

ASSUME ConstantsAssumption ==
  /\ Places \in Seq([home : {"own", "inferred"}, name : Ids])
  /\ None \notin Ids
  /\ Lines \subseteq [json : BOOLEAN, size : {"fits", "long", "huge"},
                      shape : {"flat", "message", "update"},
                      role : {"", "user", "assistant", "tool", "user_message_chunk",
                              "agent_message_chunk"},
                      text : {"", "plain", "query", "emptyQuery", "reminder"}]
  /\ Summaries \subseteq [id : Ids \cup {None}, hidden : {"unset", "yes", "no"}, stamp : BOOLEAN]
  /\ {MaxWrites, MaxLines} \subseteq Nat

Dirs == DOMAIN Places
Name(p) == Places[p].name
Files == {"chat", "updates"}

VARIABLES
  file,      (* summary.json of a directory: "none", "torn" or "whole"     *)
  summary,   (* what it says when whole                                    *)
  version,   (* how often it was written                                   *)
  lines,     (* chat_history.jsonl and updates.jsonl                       *)
  created,   (* Server.createdBuild and createdCwd                         *)
  create,    (* the session that createBuildSession has from the agent     *)
  list,      (* the walk that listMergedSessions makes                     *)
  step,      (* the file of directory list.at that it reads next           *)
  row,       (* what it has read of that directory                         *)
  shown,     (* the last list answered                                     *)
  acked,     (* the sessions whose creation this hub has answered          *)
  due        (* chats with people that the walk cannot miss: on disk when  *)
             (* it began, and with the same summary since                  *)

disk == <<file, summary, version, lines>>
walk == <<list, step, row, due>>
vars == <<disk, created, create, walk, shown, acked>>

NoList == [at |-> 0, home |-> "own", all |-> FALSE, rows |-> <<>>]
NoRow == [id |-> None, place |-> 0, version |-> 0, human |-> FALSE, grokOnly |-> FALSE]

Init ==
  /\ file = [p \in Dirs |-> "none"]
  /\ summary = [p \in Dirs |-> None]
  /\ version = [p \in Dirs |-> 0]
  /\ lines = [p \in Dirs |-> [f \in Files |-> <<>>]]
  /\ created = {} /\ create = None
  /\ list = NoList /\ shown = NoList
  /\ step = "summary" /\ row = NoRow
  /\ acked = {} /\ due = {}
------------------------------------------------------------------------------
(* GrokHome, without an override in the environment: the account's own     *)
(* .grok once it has a summary, else one with sessions/ above the hub's    *)
(* data directory.                                                         *)
Home ==
  IF \/ \E p \in Dirs : Places[p].home = "own" /\ file[p] # "none"
     \/ \A p \in Dirs : Places[p].home = "own"
    THEN "own" ELSE "inferred"

Below(home) == {p \in Dirs : Places[p].home = home}

(* What a line is taken for when sessions are listed.  A query is a text   *)
(* in <user_query>, a reminder is only <system-reminder> or <user_info>.   *)
IsNoise(l) == l.text \in {"", "reminder"}

IsHumanNoQuery(l) ==
  /\ l.text = "plain"
  /\ l.role = IF l.shape = "update" THEN "user_message_chunk" ELSE "user"

IsHuman(l) ==
  /\ ~ IsNoise(l) /\ l.text # "emptyQuery"
  /\ l.role = IF l.shape = "update" THEN "user_message_chunk" ELSE "user"

IsActivity(l) == IsHuman(l) \/ l.role # ""

(* Lines that are no JSON say nothing, lines of more than 2 MiB are skipped. *)
IsRead(l) == l.json /\ l.size # "huge"

HumanInLast(s) == s # <<>> /\ IsRead(Last(s)) /\ IsHuman(Last(s))

HumanIn(s) == \E i \in DOMAIN s : IsRead(s[i]) /\ IsHuman(s[i])
ActivityIn(s) == \E i \in DOMAIN s : IsRead(s[i]) /\ IsActivity(s[i])

HasHuman(p) == \E f \in Files : HumanIn(lines[p][f])

(* The summary alone makes it a chat among agents. *)
Stamped(p) ==
  \/ summary[p].hidden = "yes"
  \/ summary[p].hidden = "unset" /\ summary[p].stamp

(* What it is taken for when a session is opened: readChatHistory stops at *)
(* a line of more than 2 MiB and leaves out texts of more than 200000.     *)
IsMessage(l) ==
  /\ l.json /\ l.size = "fits"
  /\ l.shape = "flat" /\ l.role \in {"user", "assistant"}
  /\ l.text # ""
  /\ l.role = "user" => l.text # "emptyQuery" /\ ~ IsNoise(l)

UpToHuge(s, i) == \A j \in 1..i : s[j].size # "huge"

(* The lines that are messages. *)
Messages(p) ==
  {i \in DOMAIN lines[p]["chat"] : UpToHuge(lines[p]["chat"], i) /\ IsMessage(lines[p]["chat"][i])}

(* readSummaryFile: the id in the file, else the name of the directory. *)
RowId(p) == IF summary[p].id = None THEN Name(p) ELSE summary[p].id

(* findSessionDir goes by the name of the directory. *)
FoundUnchecked(id) == {p \in Below(Home) : Name(p) = id}
Found(id) == {p \in Below(Home) : Name(p) = id /\ file[p] # "none"}

(* Get and ResolveMeta read the summary of the first; then getBuildSession *)
(* and runBuildChat fall back on what was created.                         *)
Get(id) == Found(id) # {} /\ file[Min(Found(id))] = "whole"
Opens(id) == Get(id) \/ id \in created
------------------------------------------------------------------------------
RowIds(rows) == {rows[i].id : i \in DOMAIN rows}

ListBegin ==
  /\ list.at = 0
  /\ \E all \in BOOLEAN : list' = [at |-> 1, home |-> Home, all |-> all, rows |-> <<>>]
  /\ due' = {p \in Below(Home) : file[p] = "whole" /\ ~ Stamped(p) /\ HasHuman(p)}
  /\ UNCHANGED <<disk, created, create, step, row, shown, acked>>

(* What all the files of a directory have said becomes its row, unless it  *)
(* is a chat among agents that was not asked for, or its id is there.      *)
Finish(r) ==
  /\ list' = [list EXCEPT !.at = @ + 1,
                !.rows = IF (r.grokOnly => list.all) /\ r.id \notin RowIds(@) THEN Append(@, r) ELSE @]
  /\ step' = "summary" /\ row' = NoRow

ReadSummary(p) ==
  /\ p = list.at /\ step = "summary"
  /\ LET read == [id |-> RowId(p), place |-> p, version |-> version[p], human |-> FALSE,
                  grokOnly |-> FALSE]
     IN
       \/ /\ ~ (p \in Below(list.home) /\ file[p] = "whole")
          /\ list' = [list EXCEPT !.at = @ + 1]
          /\ UNCHANGED <<step, row>>
       \/ /\ p \in Below(list.home) /\ file[p] = "whole" /\ Stamped(p)
          /\ Finish([read EXCEPT !.grokOnly = TRUE])
       \/ /\ p \in Below(list.home) /\ file[p] = "whole" /\ ~ Stamped(p)
          /\ step' = "chat" /\ row' = read
          /\ UNCHANGED list
  /\ UNCHANGED <<disk, created, create, shown, acked, due>>

(* A person in the chat history spares the updates.  Until then grokOnly   *)
(* says that there was something at all.                                   *)
ReadLines(p) ==
  /\ p = list.at /\ step # "summary"
  /\ LET s == lines[p][step]
         active == row.grokOnly \/ ActivityIn(s)
     IN \/ HumanIn(s) /\ Finish([row EXCEPT !.human = TRUE, !.grokOnly = FALSE])
        \/ ~ HumanIn(s) /\ step = "updates" /\ Finish([row EXCEPT !.grokOnly = active])
        \/ /\ ~ HumanIn(s) /\ step = "chat"
           /\ step' = "updates" /\ row' = [row EXCEPT !.grokOnly = active]
           /\ UNCHANGED list
  /\ UNCHANGED <<disk, created, create, shown, acked, due>>

(* What was created and is in no row yet gets one. *)
CreatedRows ==
  [i \in 1..Cardinality(created \ RowIds(list.rows)) |->
    [id |-> SetToSeq(created \ RowIds(list.rows))[i], place |-> 0, version |-> 0,
     human |-> FALSE, grokOnly |-> FALSE]]

ListMerge ==
  /\ list.at = Len(Places) + 1
  /\ shown' = [list EXCEPT !.rows = @ \o CreatedRows]
  /\ list' = NoList /\ due' = {}
  /\ UNCHANGED <<disk, created, create, step, row, acked>>
------------------------------------------------------------------------------
(* createBuildSession: the agent answers session/new with an id of its own *)
(* (or fails), then the session is looked up and remembered.               *)
CreateAsk(id) ==
  /\ create = None
  /\ id \notin created
  /\ \A p \in Dirs : Name(p) = id => file[p] = "none"
  /\ create' = id
  /\ UNCHANGED <<disk, created, walk, shown, acked>>

RememberMissing ==
  /\ create # None
  /\ created' = IF Get(create) THEN created ELSE created \cup {create}
  /\ acked' = acked \cup {create}
  /\ create' = None
  /\ UNCHANGED <<disk, walk, shown>>

Remember ==
  /\ create # None
  /\ created' = created \cup {create}
  /\ acked' = acked \cup {create}
  /\ create' = None
  /\ UNCHANGED <<disk, walk, shown>>

(* Nothing of this is kept when the hub is started again. *)
Restart ==
  /\ created \cup {create} # {None}
  /\ created' = {} /\ create' = None
  /\ list' = NoList /\ shown' = NoList
  /\ step' = "summary" /\ row' = NoRow
  /\ acked' = {} /\ due' = {}
  /\ UNCHANGED disk
------------------------------------------------------------------------------
(* The agent writes a summary: a reader may see it half written. *)
SummariesWritten == FoldFunction(+, 0, version)

BeginSummary(p) ==
  /\ SummariesWritten < MaxWrites
  /\ file' = [file EXCEPT ![p] = "torn"]
  /\ version' = [version EXCEPT ![p] = @ + 1]
  /\ due' = due \ {p}
  /\ UNCHANGED <<summary, lines, created, create, list, step, row, shown, acked>>

EndSummary(p) ==
  /\ file[p] = "torn"
  /\ file' = [file EXCEPT ![p] = "whole"]
  /\ \E s \in Summaries : summary' = [summary EXCEPT ![p] = s]
  /\ UNCHANGED <<version, lines, created, create, walk, shown, acked>>

LinesWritten == FoldFunction(+, 0, [p \in Dirs |-> Len(lines[p]["chat"]) + Len(lines[p]["updates"])])

AppendLine(p, f) ==
  /\ file[p] # "none"
  /\ LinesWritten < MaxLines
  /\ \E l \in Lines : /\ l.shape = "update" <=> f = "updates"
                     /\ lines' = [lines EXCEPT ![p][f] = Append(@, l)]
  /\ UNCHANGED <<file, summary, version, created, create, walk, shown, acked>>
------------------------------------------------------------------------------
Next ==
  \/ ListBegin \/ ListMerge
  \/ \E id \in Ids : CreateAsk(id)
  \/ Remember \/ Restart
  \/ \E p \in Dirs :
       \/ ReadSummary(p) \/ ReadLines(p)
       \/ BeginSummary(p) \/ EndSummary(p) \/ \E f \in Files : AppendLine(p, f)

Spec == Init /\ [][Next]_vars
------------------------------------------------------------------------------
ARow == [id : Ids, place : Dirs \cup {0}, version : Nat, human : BOOLEAN, grokOnly : BOOLEAN]
Rows == Seq(ARow)
Lists == [at : 0..(Len(Places) + 1), home : {"own", "inferred"}, all : BOOLEAN, rows : Rows]

(* The shape of the state. *)
TypeOK ==
  /\ file \in [Dirs -> {"none", "torn", "whole"}]
  /\ summary \in [Dirs -> Summaries \cup {None}]
  /\ version \in [Dirs -> Nat]
  /\ lines \in [Dirs -> [Files -> Seq(Lines)]]
  /\ created \subseteq Ids /\ create \in Ids \cup {None}
  /\ list \in Lists /\ shown \in Lists
  /\ step \in {"summary"} \cup Files
  /\ IF step = "summary" THEN row = NoRow ELSE list.at \in Dirs /\ row \in ARow
  /\ acked \subseteq Ids /\ due \subseteq Dirs

(* A session is in a list once, however many directories claim its id, and *)
(* whether it was created here or read from disk while it was remembered.  *)
NoDuplicates == IsInjective([i \in DOMAIN shown.rows |-> shown.rows[i].id])

(* A list that is answered leaves nobody out: it has every session whose   *)
(* creation this hub process has answered, on disk or not, and every chat  *)
(* with a person that was on disk when its walk began, though lines are    *)
(* appended while the files are read one by one and another home may be    *)
(* looked at by then.  Free are a chat whose summary is being written anew *)
(* and, after a restart, what only the last process knew.                  *)
ListComplete ==
  [][list.at # 0 /\ list'.at = 0 /\ shown'.at # 0
       => acked \cup {RowId(p) : p \in due} \subseteq RowIds(shown'.rows)]_vars

(* The two readers of a chat agree on its people: one that opens with a    *)
(* "You" bubble is not taken for a chat among agents.                      *)
BubbleListed ==
  \A p \in Dirs :
    (\E i \in Messages(p) : lines[p]["chat"][i].role = "user") => HumanIn(lines[p]["chat"])

(* buildsessions.go:380, a line of more than 2 MiB is skipped: the chat    *)
(* that is opened shows every other message.                               *)
HugeLinesSkipped ==
  \A p \in Dirs : \A i \in DOMAIN lines[p]["chat"] :
    IsMessage(lines[p]["chat"][i]) => i \in Messages(p)

(* grokonly.go:23, a later Grok reply does not hide a chat that already    *)
(* has a human turn: its row leaves the lists only if its summary is       *)
(* written anew, or another home is looked at.                             *)
RowsStay ==
  [][shown' # shown /\ shown'.at # 0 /\ shown'.home = shown.home
       => \A i \in DOMAIN shown.rows :
            LET r == shown.rows[i] IN
              r.human /\ version[r.place] = r.version => r.id \in RowIds(shown'.rows)]_vars

(* A row leads to its session, if the summary names its own directory and  *)
(* no summary of that name is just being written.                          *)
RowsOpen ==
  \A i \in DOMAIN shown.rows :
    LET r == shown.rows[i] IN
      /\ shown.home = Home /\ r.place # 0
      /\ r.place # 0 => r.id = Name(r.place)
      /\ \A p \in Dirs : Name(p) = r.id => file[p] # "torn"
      => Opens(r.id)

(* A list is sound: no row is there twice, and every row can be opened.    *)
RowsSound == TypeOK /\ NoDuplicates /\ RowsOpen
==============================================================================
